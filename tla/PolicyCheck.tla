---------------------------- MODULE PolicyCheck ----------------------------
(***************************************************************************)
(* The OPA policy checker: one policy per network and a default, loaded    *)
(* whole from a configuration file, reloaded by a refresh loop while       *)
(* requests are being checked.  A policy of type manifest gets its Rego    *)
(* from the network's manifest, read through the manifest loader.          *)
(***************************************************************************)
EXTENDS ManifestLoader

CONSTANTS
    Reloader,   \* the reader the reload is
    Requests,   \* messages at the checkPolicy step
    Files,      \* contents the policy file may have
    MayLapse    \* releases whose validity may end

ASSUME PolicyAssumption == Reloader \in Readers

VARIABLES
    file,       \* the network policy file: what each policy is
    lapsed,     \* manifest versions whose effectiveUntil has passed
    policies,   \* the policies in force, and which reload they came from
    reload,     \* the load under way
    check       \* each request's check

policyVars == <<file, lapsed, policies, reload, check>>

Names == {"network", "default"}
Unset == [kind |-> "none", doc |-> NoDoc]
Nothing == [n \in Names |-> Unset]
NewCheck == [pc |-> "select", sound |-> TRUE]
Unreadable == [n \in Names |-> "unreadable"]
AtRest == [pc |-> "idle", todo |-> {}, got |-> Nothing, from |-> Unreadable]

\* A manifest's policy rests on a document whose signature was verified.
Sound(policy) == policy.kind = "manifest" => policy.doc.verified

PolicyInit ==
    /\ file \in Files
    /\ lapsed = {}
    /\ policies = [up |-> FALSE, set |-> Nothing, from |-> Unreadable]
    /\ reload = AtRest
    /\ check = [m \in Requests |-> NewCheck]

\* Mutant: the policies are reloaded only when the file has changed.
StartReload_OnEdit ==
    /\ reload.pc = "idle"
    /\ file # Unreadable
    /\ file # policies.from
    /\ reload' = [pc |-> "load", todo |-> {n \in Names : file[n] # "none"},
                  got |-> Nothing, from |-> file]
    /\ UNCHANGED <<loaderVars, file, lapsed, policies, check>>

\* New, and then every tick of the refresh loop: the file is read afresh.  One
\* that cannot be read or parsed ends the attempt before it has any effect.
StartReload ==
    /\ reload.pc = "idle"
    /\ file # Unreadable
    /\ reload' = [pc |-> "load", todo |-> {n \in Names : file[n] # "none"},
                  got |-> Nothing, from |-> file]
    /\ UNCHANGED <<loaderVars, file, lapsed, policies, check>>

Loaded(n, doc) ==
    reload' = [pc |-> "load", todo |-> reload.todo \ {n}, from |-> reload.from,
               got |-> [reload.got EXCEPT ![n] = [kind |-> reload.from[n],
                                                  doc |-> [doc EXCEPT !.age = 0]]]]

Rest == reload' = AtRest

\* Any policy that cannot be loaded abandons the reload.  The set in force
\* stays as it was; without one, at the start, the adapter does not come up.
Abandon ==
    /\ Rest
    /\ IF policies.up THEN UNCHANGED <<entry, refreshed, missed>> ELSE NewProcess

\* loadPolicy, in whatever order the map yields: a disabled policy needs no
\* evaluator, a Rego file's is built at once, a manifest's needs the loader.
LoadPolicy(n) ==
    /\ reload.pc = "load" /\ n \in reload.todo
    /\ \/ /\ reload.from[n] \in {"disabled", "rego"}
          /\ Loaded(n, NoDoc)
          /\ UNCHANGED loaderVars
       \/ /\ reload.from[n] = "manifest"
          /\ reload' = [reload EXCEPT !.pc = "manifest"]
          /\ load' = [load EXCEPT ![Reloader] = LoadAt("call", FALSE, NoDoc)]
          /\ UNCHANGED <<manifest, entry, refreshed, faults, missed>>
    /\ UNCHANGED <<file, lapsed, policies, check>>

\* resolveManifestPolicyConfig: the manifest must be in its validity window
\* now; its policy is then fetched and compiled.
ResolveManifest(n) ==
    /\ reload.pc = "manifest" /\ n \in reload.todo /\ reload.from[n] = "manifest"
    /\ load[Reloader].pc \in {"got", "failed"}
    /\ IF load[Reloader].pc = "got" /\ load[Reloader].doc.v \notin lapsed
       THEN Loaded(n, load[Reloader].doc) /\ UNCHANGED <<entry, refreshed, missed>>
       ELSE Abandon
    /\ load' = [load EXCEPT ![Reloader] = NoLoad]
    /\ UNCHANGED <<manifest, faults, file, lapsed, policies, check>>

\* NewEvaluator fails: the artifact is unreachable, unsigned or does not compile.
EvaluatorFails ==
    /\ \/ reload.pc = "load" /\ \E n \in reload.todo : reload.from[n] = "rego"
       \/ reload.pc = "manifest" /\ load[Reloader].pc = "got"
    /\ Fault
    /\ Abandon
    /\ load' = [load EXCEPT ![Reloader] = NoLoad]
    /\ UNCHANGED <<manifest, file, lapsed, policies, check>>

\* Mutant: the default policy is not swapped with the others.
Swap_KeepsDefault ==
    /\ reload.pc = "load" /\ reload.todo = {}
    /\ policies' = [up |-> TRUE, from |-> reload.from,
                    set |-> [reload.got EXCEPT !["default"] =
                               IF policies.up THEN policies.set["default"] ELSE @]]
    /\ Rest
    /\ UNCHANGED <<loaderVars, file, lapsed, check>>

\* reloadNetworkPolicies swaps networks and default together, under the lock.
Swap ==
    /\ reload.pc = "load" /\ reload.todo = {}
    /\ policies' = [up |-> TRUE, set |-> reload.got, from |-> reload.from]
    /\ Rest
    /\ UNCHANGED <<loaderVars, file, lapsed, check>>

\* selectedPolicy under the read lock: the network's own policy, else the
\* default.  Without a policy, or with a disabled one, the message passes.
SelectPolicy(m) ==
    /\ policies.up /\ check[m].pc = "select"
    /\ \E id \in Names :
         LET own == policies.set[id]
             policy == IF own # Unset THEN own ELSE policies.set["default"]
         IN  check' = [check EXCEPT ![m] =
                         IF policy.kind \in {"none", "disabled"} THEN NewCheck
                         ELSE [pc |-> "evaluate", sound |-> Sound(policy)]]
    /\ UNCHANGED <<loaderVars, file, lapsed, policies, reload>>

\* The evaluator that was selected decides, whatever has been swapped in
\* meanwhile, and the request is answered.
Evaluate(m) ==
    /\ check[m].pc = "evaluate"
    /\ check' = [check EXCEPT ![m] = NewCheck]
    /\ UNCHANGED <<loaderVars, file, lapsed, policies, reload>>

EditFile ==
    /\ file' \in Files \ {file}
    /\ UNCHANGED <<loaderVars, lapsed, policies, reload, check>>

Lapse(v) ==
    /\ lapsed = {}
    /\ lapsed' = {v}
    /\ UNCHANGED <<loaderVars, file, policies, reload, check>>

PolicyRestart ==
    /\ policies.up
    /\ NewProcess
    /\ load' = [c \in Readers |-> NoLoad]
    /\ policies' = [up |-> FALSE, set |-> Nothing, from |-> Unreadable]
    /\ Rest
    /\ check' = [m \in Requests |-> NewCheck]
    /\ UNCHANGED <<manifest, faults, file, lapsed>>

\* The steps of the refresh loop's goroutine.
Reloading ==
    \/ StartReload \/ Swap
    \/ \E n \in Names : LoadPolicy(n) \/ ResolveManifest(n)
    \/ Loading(Reloader) /\ UNCHANGED policyVars

PolicyTick == LoaderTick /\ UNCHANGED policyVars

PolicyNext ==
    \/ Reloading
    \/ PolicyTick
    \/ EvaluatorFails
    \/ LoadFails(Reloader) /\ UNCHANGED policyVars
    \/ \E m \in Requests : SelectPolicy(m) \/ Evaluate(m)
    \/ (Release \/ SignRelease \/ Peer) /\ UNCHANGED policyVars
    \/ EditFile
    \/ \E v \in MayLapse : Lapse(v)
    \/ PolicyRestart

\* The policies in force are always one reload's complete result, every policy
\* as that reload read it from the file, though loads fail half way and race
\* with requests; a manifest's policy always rests on a verified document,
\* even when another adapter caches unverified ones; and after a start that
\* forces a refresh it never rests on a document older than the process,
\* unless that refresh failed or could not be written over it in the cache.
SoundPolicySet ==
    policies.up =>
        /\ \A n \in Names : policies.set[n].kind = policies.from[n]
        /\ \A n \in Names :
             /\ Sound(policies.set[n])
             /\ ForceRefreshOnStart /\ ~missed => ~policies.set[n].doc.old
        /\ \A m \in Requests : check[m].sound

\* The publisher's release is whole and in date, and the file asks for it.
Settled ==
    /\ policies.up
    /\ file["network"] = "manifest"
    /\ manifest.sig = manifest.body
    /\ manifest.body \notin lapsed

\* A new release comes into force without a restart: once the adapter stays up
\* and the publisher stays at one release, the refresh loop ends at that
\* release, because cache entries run out and are not renewed by being read.
PolicyCatchesUp ==
    <>[]Settled => <>[](policies.set["network"].doc.v = manifest.body)
=============================================================================
