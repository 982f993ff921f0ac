---------------------------- MODULE ProviderCall ----------------------------
(***************************************************************************)
(* The provider step and the mapper behind it.  Concurrent requests run     *)
(* Step.Run of one step: each is dispatched, checked against its mapping    *)
(* (Verify), translated by the mapping's request half, sent to the provider *)
(* within a retry budget and translated back by the response half.  They    *)
(* share the mapper's cache of compiled mappings, whose misses go through   *)
(* one singleflight group, and the token the step holds for its provider,   *)
(* exchanged under a mutex.                                                 *)
(*                                                                         *)
(* A mapping is the version published when it was fetched, a token the      *)
(* number of the exchange that issued it.  Time is the two moments that     *)
(* matter, an entry or a token running out; payloads, endpoints, envelopes  *)
(* and evaluation are the outcomes they may have.                           *)
(***************************************************************************)
EXTENDS Naturals, FiniteSets

CONSTANTS Requests,         \* concurrent requests to the step
          Refs,             \* mapping references of its capabilities
          Static,           \* references whose provider takes no token
          None,             \* not a request
          MaxAttempts,      \* retry budget: retries + 1
          MaxCacheEntries,  \* the mapper's cap
          MaxVersion,       \* bound: versions published
          MaxTokens,        \* bound: tokens issued
          MaxExpiries,      \* bound: times an entry or a token runs out
          MaxLeaves         \* bound: requests whose context ends

ASSUME ProviderCallAssumption ==
    /\ None \notin Requests /\ Static \subseteq Refs /\ IsFiniteSet(Refs)
    /\ MaxAttempts \in Nat \ {0} /\ MaxCacheEntries \in Nat \ {0}
    /\ MaxVersion \in Nat \ {0} /\ MaxTokens \in Nat /\ MaxExpiries \in Nat
    /\ MaxLeaves \in Nat

VARIABLES pc,         \* where each request is
          ref,        \* the mapping its call plan names
          leg,        \* which use of the mapping it is at
          ver,        \* the version it was last given, 0 before the first
          got,        \* the entry it was given, or its fetch brought
          made,       \* attempts made by the call that is under way
          last,       \* how its last attempt failed
          tok,        \* the token its request carries, 0 for none
          out,        \* the result of Run
          gone,       \* requests whose context has ended
          entries,    \* the mapper's cache
          version,    \* what the publisher serves
          token,      \* the held token
          tokenMu,    \* who holds the token mutex
          issued,     \* tokens issued
          dead,       \* tokens the provider no longer accepts
          refused,    \* history: tokens a call was refused with
          inherited,  \* history: requests failed by a cached cancellation
          expiries

reqVars == <<pc, ref, leg, ver, got, made, last, tok, out>>
mapVars == <<entries, version, inherited>>
tokVars == <<token, tokenMu, issued, dead, refused>>
vars == <<reqVars, gone, mapVars, tokVars, expiries>>

Versions == 1 .. MaxVersion
Tokens == 1 .. MaxTokens
\* "failed" stands for the errors that do not depend on shared state: a payload
\* that is refused, a registry that cannot be asked, an evaluation that fails.
Outcomes == {"pass", "routed", "failed", "mapping", "cancelled", "unavailable",
             "timeout", "served"}
NoToken == [value |-> 0, live |-> FALSE]

\* A cache entry: a compiled mapping or the failure that stopped it compiling.
\* An expired one stays in the map until the next purge.
Nothing == [kind |-> "none", ver |-> 0]
NoEntry == [kind |-> "none", ver |-> 0, live |-> FALSE]

Entries == [kind : {"none", "good", "bad", "cancelled"}, ver : 0 .. MaxVersion]

Places == {"new", "lookup", "miss", "wait", "fetch", "compile", "apply",
           "attempt", "lock", "exchange", "send", "backoff", "done"}

TypeOK ==
    /\ pc \in [Requests -> Places]
    /\ ref \in [Requests -> Refs]
    /\ leg \in [Requests -> {"verify", "request", "response"}]
    /\ ver \in [Requests -> 0 .. MaxVersion]
    /\ got \in [Requests -> Entries]
    /\ made \in [Requests -> 0 .. MaxAttempts]
    /\ last \in [Requests -> {"none", "transient", "permanent"}]
    /\ tok \in [Requests -> 0 .. MaxTokens]
    /\ out \in [Requests -> Outcomes \cup {"none"}]
    /\ gone \subseteq Requests
    /\ entries \in [Refs -> [kind : {"none", "good", "bad", "cancelled"},
                             ver : 0 .. MaxVersion, live : BOOLEAN]]
    /\ version \in Versions
    /\ token \in [value : 0 .. MaxTokens, live : BOOLEAN]
    /\ tokenMu \in Requests \cup {None}
    /\ issued \in 0 .. MaxTokens
    /\ dead \subseteq Tokens /\ refused \subseteq 0 .. MaxTokens
    /\ inherited \subseteq Requests
    /\ expiries \in 0 .. MaxExpiries

Init ==
    /\ pc = [r \in Requests |-> "new"]
    /\ ref \in [Requests -> Refs]
    /\ leg = [r \in Requests |-> "verify"]
    /\ ver = [r \in Requests |-> 0]
    /\ got = [r \in Requests |-> Nothing]
    /\ made = [r \in Requests |-> 0]
    /\ last = [r \in Requests |-> "none"]
    /\ tok = [r \in Requests |-> 0]
    /\ out = [r \in Requests |-> "none"]
    /\ gone = {}
    /\ entries = [m \in Refs |-> NoEntry]
    /\ version = 1
    /\ token = NoToken /\ tokenMu = None /\ issued = 0
    /\ dead = {} /\ refused = {} /\ inherited = {}
    /\ expiries = 0

Go(r, place) == pc' = [pc EXCEPT ![r] = place]

End(r, o) == Go(r, "done") /\ out' = [out EXCEPT ![r] = o]

-----------------------------------------------------------------------------
(* Dispatch: Run up to serve.                                              *)

\* What Run finds in a request: whom it is addressed to, the binding its
\* payload names, and what the registry publishes for it.
Payloads == [receiver : {"routed", "none", "own", "admitted", "stranger",
                         "unlisted"},
             binding : {"none", "ambiguous", "other", "ours"},
             record : {"found", "absent", "down", "otherAction"}]

\* The dispatch of a request this step does not serve, in the order of the
\* checks: an earlier step's route, the receiver, the binding, the record.
Unserved(q) ==
    CASE q.receiver = "routed" -> "pass"
      [] q.receiver = "admitted" -> "routed"
      [] q.receiver = "own" /\ q.binding \in {"none", "other"} -> "pass"
      [] OTHER -> "failed"

\* Run serves its own network's requests for a binding it is configured for,
\* when the registry publishes the binding and its action.
Serves(q) == q.receiver = "own" /\ q.binding = "ours" /\ q.record = "found"

Run(r) ==
    /\ pc[r] = "new"
    /\ \E q \in Payloads :
          \/ /\ Serves(q)
             /\ Go(r, "lookup")
             /\ UNCHANGED out
          \/ /\ ~Serves(q)
             /\ End(r, Unserved(q))
    /\ UNCHANGED <<ref, leg, ver, got, made, last, tok, gone, mapVars, tokVars, expiries>>

-----------------------------------------------------------------------------
(* The mapper.                                                             *)

Cached(m) == entries[m].kind # "none" /\ entries[m].live

Leads(r) == pc[r] \in {"fetch", "compile"}

InFlight(m) == \E r \in Requests : Leads(r) /\ ref[r] = m

\* A request is given a cached entry; history: another's cached cancellation.
Take(r, e) ==
    /\ Go(r, "apply")
    /\ got' = [got EXCEPT ![r] = [kind |-> e.kind, ver |-> e.ver]]
    /\ inherited' = IF e.kind = "cancelled" /\ r \notin gone
                    THEN inherited \cup {r} ELSE inherited

\* compiled: a live entry is used, a miss goes to the singleflight group.
Lookup(r) ==
    /\ pc[r] = "lookup"
    /\ \/ /\ Cached(ref[r])
          /\ Take(r, entries[ref[r]])
       \/ /\ ~Cached(ref[r])
          /\ Go(r, "miss")
          /\ UNCHANGED <<got, inherited>>
    /\ UNCHANGED <<ref, leg, ver, made, last, tok, out, gone, entries, version,
                   tokVars, expiries>>

\* Mutant: every miss fetches, as without the singleflight group.
Join_NoGroup(r) ==
    /\ pc[r] = "miss"
    /\ \/ /\ Cached(ref[r])
          /\ Take(r, entries[ref[r]])
       \/ /\ ~Cached(ref[r])
          /\ Go(r, "fetch")
          /\ UNCHANGED <<got, inherited>>
    /\ UNCHANGED <<ref, leg, ver, made, last, tok, out, gone, entries, version,
                   tokVars, expiries>>

\* inflight.Do: wait for the fetch under way, or lead one unless the entry has
\* landed since the miss.
Join(r) ==
    /\ pc[r] = "miss"
    /\ \/ /\ InFlight(ref[r])
          /\ Go(r, "wait")
          /\ UNCHANGED <<got, inherited>>
       \/ /\ ~InFlight(ref[r]) /\ Cached(ref[r])
          /\ Take(r, entries[ref[r]])
       \/ /\ ~InFlight(ref[r]) /\ ~Cached(ref[r])
          /\ Go(r, "fetch")
          /\ UNCHANGED <<got, inherited>>
    /\ UNCHANGED <<ref, leg, ver, made, last, tok, out, gone, entries, version,
                   tokVars, expiries>>

\* fetchAndCompile under the leader's context: the version published now, a
\* failure (unreachable, not 200, too large, unparsable), or a cancellation.
Fetch(r) ==
    /\ pc[r] = "fetch"
    /\ Go(r, "compile")
    /\ \/ /\ r \notin gone
          /\ got' = [got EXCEPT ![r] = [kind |-> "good", ver |-> version]]
       \/ /\ r \notin gone
          /\ got' = [got EXCEPT ![r] = [kind |-> "bad", ver |-> 0]]
       \/ /\ r \in gone
          /\ got' = [got EXCEPT ![r] = [kind |-> "cancelled", ver |-> 0]]
    /\ UNCHANGED <<ref, leg, ver, made, last, tok, out, gone, entries, version,
                   inherited, tokVars, expiries>>

\* What is left after purgeExpired.
Purged(n) == IF Cached(n) THEN entries[n] ELSE NoEntry

\* remember: purge, then store unless the cap is reached by other entries.
Store(m, e) ==
    entries' = [n \in Refs |->
        IF n = m /\ (\/ Cached(m)
                     \/ Cardinality({k \in Refs : Cached(k)}) < MaxCacheEntries)
        THEN e ELSE Purged(n)]

\* The leader stores what it fetched, whatever it is, and everyone waiting in
\* the group is given it too.
Remember(r) ==
    LET given == {r} \cup {s \in Requests : pc[s] = "wait" /\ ref[s] = ref[r]}
    IN  /\ pc[r] = "compile"
        /\ Store(ref[r], [kind |-> got[r].kind, ver |-> got[r].ver, live |-> TRUE])
        /\ pc' = [s \in Requests |-> IF s \in given THEN "apply" ELSE pc[s]]
        /\ got' = [s \in Requests |-> IF s \in given THEN got[r] ELSE got[s]]
        /\ UNCHANGED <<ref, leg, ver, made, last, tok, out, gone, version,
                       inherited, tokVars, expiries>>

\* serve, after a leg of the mapping has run: the prerequisite follows the
\* preconditions, the host, the envelope and the call follow the request half,
\* and the response half ends it.  Each may fail.
Continue(r) ==
    \/ End(r, "failed") /\ UNCHANGED leg
    \/ /\ leg[r] = "verify"
       /\ Go(r, "lookup")
       /\ leg' = [leg EXCEPT ![r] = "request"]
       /\ UNCHANGED out
    \/ /\ leg[r] = "request"
       /\ Go(r, "attempt")
       /\ UNCHANGED <<leg, out>>
    \/ /\ leg[r] = "response"
       /\ End(r, "served")
       /\ UNCHANGED leg

\* Verify and Transform return the failure in the entry, or evaluate a leg.
Apply(r) ==
    /\ pc[r] = "apply"
    /\ \/ /\ got[r].kind # "good"
          /\ End(r, IF got[r].kind = "cancelled" THEN "cancelled" ELSE "mapping")
          /\ UNCHANGED <<leg, ver>>
       \/ /\ got[r].kind = "good"
          /\ ver' = [ver EXCEPT ![r] = got[r].ver]
          /\ Continue(r)
    /\ got' = [got EXCEPT ![r] = Nothing]
    /\ UNCHANGED <<ref, made, last, tok, gone, mapVars, tokVars, expiries>>

\* The publisher corrects its mappings.
Publish ==
    /\ version < MaxVersion
    /\ version' = version + 1
    /\ UNCHANGED <<reqVars, gone, entries, inherited, tokVars, expiries>>

\* cacheTTL or negativeTTL passes.
EntryExpires(m) ==
    /\ Cached(m) /\ expiries < MaxExpiries
    /\ entries' = [entries EXCEPT ![m].live = FALSE]
    /\ expiries' = expiries + 1
    /\ UNCHANGED <<reqVars, gone, version, inherited, tokVars>>

-----------------------------------------------------------------------------
(* The call and its token.                                                 *)

\* How call reports a loop that ended without a final answer.
Ended(r) == IF r \in gone THEN "timeout" ELSE "unavailable"

\* An attempt failed: a permanent failure is the result, a transient one is
\* tried again after a backoff while the budget lasts.
Fail(r, how) ==
    /\ last' = [last EXCEPT ![r] = how]
    /\ \/ /\ how = "permanent"
          /\ End(r, "unavailable")
       \/ /\ how = "transient" /\ made[r] = MaxAttempts
          /\ End(r, Ended(r))
       \/ /\ how = "transient" /\ made[r] < MaxAttempts
          /\ Go(r, "backoff")
          /\ UNCHANGED out

Send(r, t) ==
    /\ Go(r, "send")
    /\ tok' = [tok EXCEPT ![r] = t]
    /\ UNCHANGED <<last, out>>

\* authenticate: a static credential is read, or found missing; a live token is
\* sent, and without one the request goes for the mutex.
Authenticate(r) ==
    \/ ref[r] \in Static /\ Send(r, 0)
    \/ /\ ref[r] \in Static
       /\ last' = [last EXCEPT ![r] = "permanent"]
       /\ End(r, "unavailable")
       /\ UNCHANGED tok
    \/ ref[r] \notin Static /\ token.live /\ Send(r, token.value)
    \/ /\ ref[r] \notin Static /\ ~token.live
       /\ Go(r, "lock")
       /\ UNCHANGED <<last, tok, out>>

\* The top of the retry loop: an ended context costs no further attempt.
Attempt(r) ==
    /\ pc[r] = "attempt"
    /\ \/ /\ r \in gone
          /\ End(r, "timeout")
          /\ UNCHANGED <<made, last, tok>>
       \/ /\ r \notin gone
          /\ made' = [made EXCEPT ![r] = @ + 1]
          /\ Authenticate(r)
    /\ UNCHANGED <<ref, leg, ver, got, gone, mapVars, tokVars, expiries>>

\* Mutant: the held token is not looked at again under the mutex.
Lock_NoRecheck(r) ==
    /\ pc[r] = "lock" /\ tokenMu = None
    /\ tokenMu' = r
    /\ Go(r, "exchange")
    /\ UNCHANGED <<ref, leg, ver, got, made, last, tok, out, gone, mapVars, token,
                   issued, dead, refused, expiries>>

\* The mutex is taken, however long it was waited for; a token exchanged in the
\* meantime is sent, else the mutex is held over the exchange.
Lock(r) ==
    /\ pc[r] = "lock" /\ tokenMu = None
    /\ \/ token.live /\ Send(r, token.value) /\ UNCHANGED tokenMu
       \/ /\ ~token.live
          /\ tokenMu' = r
          /\ Go(r, "exchange")
          /\ UNCHANGED <<last, tok, out>>
    /\ UNCHANGED <<ref, leg, ver, got, made, gone, mapVars, token, issued, dead,
                   refused, expiries>>

\* Mutant: a failed exchange returns without unlocking.
Exchange_KeepsLock(r) ==
    /\ pc[r] = "exchange"
    /\ \/ /\ r \notin gone /\ issued < MaxTokens
          /\ issued' = issued + 1
          /\ token' = [value |-> issued + 1, live |-> TRUE]
          /\ Send(r, issued + 1)
          /\ tokenMu' = None
       \/ /\ \E how \in {"transient", "permanent"} : Fail(r, how)
          /\ UNCHANGED <<tok, issued, token, tokenMu>>
    /\ UNCHANGED <<ref, leg, ver, got, made, gone, mapVars, dead, refused, expiries>>

\* exchangeToken under the attempt's context: a token is stored and sent, or
\* nothing is cached (credential missing, endpoint unreachable, refusing, or its
\* answer of no use).  The mutex is released either way.
Exchange(r) ==
    /\ pc[r] = "exchange"
    /\ tokenMu' = None
    /\ \/ /\ r \notin gone /\ issued < MaxTokens
          /\ issued' = issued + 1
          /\ token' = [value |-> issued + 1, live |-> TRUE]
          /\ Send(r, issued + 1)
       \/ /\ \E how \in {"transient", "permanent"} : Fail(r, how)
          /\ UNCHANGED <<tok, issued, token>>
    /\ UNCHANGED <<ref, leg, ver, got, made, gone, mapVars, dead, refused, expiries>>

\* Mutant: a 401 or 403 is an error like any other.
Unauthorized_KeepsToken(r) ==
    /\ refused' = refused \cup {tok[r]}
    /\ Fail(r, "permanent")
    /\ UNCHANGED <<leg, token>>

\* 401 or 403: whatever token is held for the provider now is forgotten; a
\* provider that takes no token has none.
Unauthorized(r) ==
    /\ refused' = refused \cup {tok[r]}
    /\ token' = IF ref[r] \in Static THEN token ELSE NoToken
    /\ Fail(r, "permanent")
    /\ UNCHANGED leg

\* attempt, from the request on the wire: a 2xx (which the envelope may fail to
\* open or which may not be JSON), a refused credential, another 4xx or too large
\* an answer, or a failure worth trying again, as an ended context is.
Answer(r) ==
    /\ pc[r] = "send"
    /\ \/ /\ r \notin gone /\ tok[r] \notin dead
          /\ \/ /\ Go(r, "lookup")
                /\ leg' = [leg EXCEPT ![r] = "response"]
                /\ UNCHANGED out
             \/ End(r, "failed") /\ UNCHANGED leg
          /\ made' = [made EXCEPT ![r] = 0]
          /\ last' = [last EXCEPT ![r] = "none"]
          /\ UNCHANGED <<token, refused>>
       \/ r \notin gone /\ Unauthorized(r) /\ UNCHANGED made
       \/ /\ r \notin gone
          /\ Fail(r, "permanent")
          /\ UNCHANGED <<leg, made, token, refused>>
       \/ /\ Fail(r, "transient")
          /\ UNCHANGED <<leg, made, token, refused>>
    /\ tok' = [tok EXCEPT ![r] = 0]
    /\ UNCHANGED <<ref, ver, got, gone, mapVars, tokenMu, issued, dead,
                   expiries>>

\* Sleep: the backoff passes, or the context ends first.
Backoff(r) ==
    /\ pc[r] = "backoff"
    /\ \/ r \notin gone /\ Go(r, "attempt") /\ UNCHANGED out
       \/ r \in gone /\ End(r, "timeout")
    /\ UNCHANGED <<ref, leg, ver, got, made, last, tok, gone, mapVars, tokVars, expiries>>

\* The caller leaves or the deadline passes.
ContextEnds(r) ==
    /\ pc[r] \notin {"new", "done"} /\ r \notin gone
    /\ Cardinality(gone) < MaxLeaves
    /\ gone' = gone \cup {r}
    /\ UNCHANGED <<reqVars, mapVars, tokVars, expiries>>

TokenExpires ==
    /\ token.live /\ expiries < MaxExpiries
    /\ token' = [token EXCEPT !.live = FALSE]
    /\ expiries' = expiries + 1
    /\ UNCHANGED <<reqVars, gone, mapVars, tokenMu, issued, dead, refused>>

\* The provider stops accepting the tokens issued so far.
Revoke ==
    /\ dead # 1 .. issued
    /\ dead' = 1 .. issued
    /\ UNCHANGED <<reqVars, gone, mapVars, token, tokenMu, issued, refused, expiries>>

-----------------------------------------------------------------------------

Step(r) ==
    \/ Lookup(r) \/ Join(r) \/ Fetch(r) \/ Remember(r) \/ Apply(r)
    \/ Attempt(r) \/ Lock(r) \/ Exchange(r) \/ Answer(r) \/ Backoff(r)

Next ==
    \/ \E r \in Requests : Run(r) \/ Step(r) \/ ContextEnds(r)
    \/ \E m \in Refs : EntryExpires(m)
    \/ Publish \/ TokenExpires \/ Revoke

Spec == Init /\ [][Next]_vars

\* A request's goroutine is scheduled, and its fetch, exchange and call end:
\* each has a timeout.  Nothing makes a request arrive, leave or time pass.
Fairness == \A r \in Requests : WF_vars(Step(r))

FairSpec == Spec /\ Fairness

-----------------------------------------------------------------------------
(* Properties.                                                             *)

\* One fetch per reference: while one is under way no other is, and no entry
\* that would have made it unnecessary is held.
OneFetchPerRef ==
    \A r \in Requests : Leads(r) =>
        /\ ~Cached(ref[r])
        /\ \A s \in Requests : Leads(s) /\ ref[s] = ref[r] => s = r

\* One exchange per token lifetime: whoever exchanges a token holds the mutex,
\* and there is no live token it could have sent instead.
OneExchangeAtATime ==
    \A r \in Requests : pc[r] = "exchange" => tokenMu = r /\ ~token.live

\* A token the provider has refused is not held any more, so it is sent by no
\* request that authenticates later.
RefusedTokenNotHeld == token.value # 0 => token.value \notin refused

\* A request's preconditions, request half and response half may come from
\* different versions of its mapping, but never from an older one than before.
MappingNeverGoesBack ==
    [][\A r \in Requests : ver'[r] >= ver[r]]_vars

\* The cap only turns a mapping away when that many live mappings are held.
CapCountsLiveEntries ==
    [][\A r \in Requests : pc[r] = "compile" /\ pc'[r] = "apply" =>
          \/ Cached(ref[r])'
          \/ Cardinality({m \in Refs : Cached(m)'}) >= MaxCacheEntries]_vars

\* A call fails as the provider's failure when the provider gave a final answer
\* or used up the budget with the caller still there, and as the caller's
\* departure only when the caller left before a final answer.
FailureBlamesTheRightParty ==
    \A r \in Requests :
        /\ out[r] = "unavailable" =>
              \/ last[r] = "permanent"
              \/ last[r] = "transient" /\ made[r] = MaxAttempts /\ r \notin gone
        /\ out[r] = "timeout" => r \in gone /\ last[r] # "permanent"

\* Violated: one request's cancellation reaches only those that waited for the
\* same fetch; a request made afterwards does not fail with it.
CancellationCanBeRetried == inherited = {}

\* Every request that is taken up ends, whoever it waits for.
RequestsAnswered == \A r \in Requests : pc[r] # "new" ~> pc[r] = "done"
=============================================================================
