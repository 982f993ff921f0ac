------------------------- MODULE ProviderCallProofs -------------------------
(***************************************************************************)
(* Proofs about ProviderCall for any number of requests and mappings.  The  *)
(* inductive invariant adds to the properties where the counters of a call  *)
(* stand at each place of its loop, that no token in use was issued in the  *)
(* future, and how the versions in a request's hands, in a flight and in    *)
(* the cache are ordered.                                                   *)
(***************************************************************************)
EXTENDS ProviderCall, FiniteSetTheorems, TLAPS

\* Outside call there is no attempt on the books; inside it the loop goes on
\* only within the budget and after no final answer.  A leader whose fetch has
\* ended has something to remember.
CallCounts ==
    \A r \in Requests :
        /\ pc[r] \in {"new", "lookup", "miss", "wait", "fetch", "compile", "apply"} =>
              made[r] = 0 /\ last[r] = "none"
        /\ pc[r] \in {"attempt", "backoff"} => made[r] < MaxAttempts
        /\ pc[r] # "done" => last[r] # "permanent" /\ out[r] = "none"
        /\ pc[r] = "compile" => got[r].kind # "none"

\* Every token held, sent or refused has been issued, and only to a provider
\* that takes one.
TokensIssued ==
    /\ token.value <= issued
    /\ \A r \in Requests :
          /\ tok[r] <= issued
          /\ ref[r] \in Static => tok[r] = 0 /\ pc[r] \notin {"lock", "exchange"}
    /\ \A t \in refused : t <= issued

Holds(r) == pc[r] = "apply" /\ got[r].kind = "good"
Brings(r) == pc[r] = "compile" /\ got[r].kind = "good"
Serving(m) == Cached(m) /\ entries[m].kind = "good"

\* What a request has used or holds is no newer than what its mapping's flight
\* brings or the cache serves, and nothing is newer than what is published.
VersionsOrdered ==
    /\ \A r \in Requests : ver[r] <= version
    /\ \A r \in Requests : Holds(r) => ver[r] <= got[r].ver /\ got[r].ver <= version
    /\ \A r, s \in Requests : Brings(r) /\ ref[s] = ref[r] =>
          /\ ver[s] <= got[r].ver
          /\ Holds(s) => got[s].ver <= got[r].ver
    /\ \A s \in Requests : Serving(ref[s]) =>
          /\ ver[s] <= entries[ref[s]].ver
          /\ Holds(s) => got[s].ver <= entries[ref[s]].ver
    /\ \A r \in Requests : Brings(r) => got[r].ver <= version
    /\ \A m \in Refs : Serving(m) => entries[m].ver <= version

IInv ==
    /\ TypeOK /\ OneFetchPerRef /\ OneExchangeAtATime /\ RefusedTokenNotHeld
    /\ FailureBlamesTheRightParty
    /\ CallCounts /\ TokensIssued /\ VersionsOrdered

-----------------------------------------------------------------------------
(* Steps preserve each part of the invariant.                              *)

\* Putting an element of T in one place of a function into T leaves it one.
LEMMA SlotLemma ==
    ASSUME NEW S, NEW T, NEW f \in [S -> T], NEW g, NEW i \in S, NEW t \in T,
           g = f \/ g = [f EXCEPT ![i] = t]
    PROVE  g \in [S -> T]
    OBVIOUS

\* Steps keep the types: the retry loop stays within its budget.
LEMMA TypeOKStep ==
    ASSUME TypeOK, CallCounts, [Next]_vars
    PROVE  TypeOK'
<1> USE ProviderCallAssumption DEF TypeOK, CallCounts, Outcomes, Versions,
        Tokens, Places, Entries, reqVars, mapVars, tokVars
<1>1. ASSUME NEW r \in Requests, Run(r) PROVE TypeOK'
  <2>1. \A q \in Payloads : Unserved(q) \in Outcomes
    BY DEF Unserved
  <2>2. PICK p \in Places, o \in Outcomes \cup {"none"} :
           Go(r, p) /\ (out' = out \/ out' = [out EXCEPT ![r] = o])
    BY <1>1, <2>1 DEF Run, End
  <2>3. pc' \in [Requests -> Places]
    BY <2>2 DEF Go
  <2>4. out' \in [Requests -> Outcomes \cup {"none"}]
    BY <2>2, SlotLemma
  <2> QED
    BY <1>1, <2>3, <2>4 DEF Run
<1>2. ASSUME NEW r \in Requests, Lookup(r) PROVE TypeOK'
  <2>1. \E p \in Places : Go(r, p)
    BY <1>2 DEF Lookup, Take
  <2>2. pc' \in [Requests -> Places]
    BY <2>1 DEF Go
  <2>3. /\ entries[ref[r]].kind \in {"none", "good", "bad", "cancelled"}
       /\ entries[ref[r]].ver \in 0 .. MaxVersion
    BY <1>2
  <2>4. got' = got \/ got' = [got EXCEPT ![r] = [kind |-> entries[ref[r]].kind,
                                               ver |-> entries[ref[r]].ver]]
    BY <1>2 DEF Lookup, Take
  <2>5. [kind |-> entries[ref[r]].kind, ver |-> entries[ref[r]].ver] \in Entries
    BY <2>3
  <2>6. got \in [Requests -> Entries]
    BY <1>2
  <2>7. got' \in [Requests -> Entries]
    BY <2>4, <2>5, <2>6, SlotLemma
  <2>8. inherited' \subseteq Requests
    BY <1>2 DEF Lookup, Take
  <2> QED
    BY <1>2, <2>2, <2>7, <2>8 DEF Lookup
<1>3. ASSUME NEW r \in Requests, Join(r) PROVE TypeOK'
  <2>1. \E p \in Places : Go(r, p)
    BY <1>3 DEF Join, Take
  <2>2. pc' \in [Requests -> Places]
    BY <2>1 DEF Go
  <2>3. /\ entries[ref[r]].kind \in {"none", "good", "bad", "cancelled"}
       /\ entries[ref[r]].ver \in 0 .. MaxVersion
    BY <1>3
  <2>4. got' = got \/ got' = [got EXCEPT ![r] = [kind |-> entries[ref[r]].kind,
                                               ver |-> entries[ref[r]].ver]]
    BY <1>3 DEF Join, Take
  <2>5. [kind |-> entries[ref[r]].kind, ver |-> entries[ref[r]].ver] \in Entries
    BY <2>3
  <2>6. got \in [Requests -> Entries]
    BY <1>3
  <2>7. got' \in [Requests -> Entries]
    BY <2>4, <2>5, <2>6, SlotLemma
  <2>8. inherited' \subseteq Requests
    BY <1>3 DEF Join, Take
  <2> QED
    BY <1>3, <2>2, <2>7, <2>8 DEF Join
<1>4. ASSUME NEW r \in Requests, Fetch(r) PROVE TypeOK'
  <2>1. \E p \in Places : Go(r, p)
    BY <1>4 DEF Fetch
  <2>2. pc' \in [Requests -> Places]
    BY <2>1 DEF Go
  <2>3. \A k \in {"good", "bad", "cancelled"}, v \in 0 .. MaxVersion :
         [kind |-> k, ver |-> v] \in Entries
    BY <1>4
  <2>4. \E e \in Entries : got' = [got EXCEPT ![r] = e]
    BY <1>4, <2>3 DEF Fetch
  <2>5. got \in [Requests -> Entries]
    BY <1>4
  <2>6. got' \in [Requests -> Entries]
    BY <2>4, <2>5, SlotLemma
  <2> QED
    BY <1>4, <2>2, <2>6 DEF Fetch
<1>5. ASSUME NEW r \in Requests, Remember(r) PROVE TypeOK'
    BY <1>5 DEF Remember, Store, Purged, Cached, NoEntry
<1>6. ASSUME NEW r \in Requests, Apply(r) PROVE TypeOK'
  <2>1. \E p \in Places : Go(r, p)
    BY <1>6 DEF Apply, Continue, End
  <2>2. pc' \in [Requests -> Places]
    BY <2>1 DEF Go
  <2>3. out' \in [Requests -> Outcomes \cup {"none"}]
    BY <1>6 DEF Apply, Continue, End
  <2>4. leg' \in [Requests -> {"verify", "request", "response"}]
    BY <1>6 DEF Apply, Continue
  <2>5. ver' \in [Requests -> 0 .. MaxVersion]
    BY <1>6 DEF Apply
  <2>6. got' \in [Requests -> Entries]
    BY <1>6 DEF Apply, Nothing
  <2> QED
    BY <1>6, <2>2, <2>3, <2>4, <2>5, <2>6 DEF Apply
<1>7. ASSUME NEW r \in Requests, Attempt(r) PROVE TypeOK'
  <2>1. \E p \in Places : Go(r, p)
    BY <1>7 DEF Attempt, Authenticate, End, Send
  <2>2. pc' \in [Requests -> Places]
    BY <2>1 DEF Go
  <2>3. out' \in [Requests -> Outcomes \cup {"none"}]
    BY <1>7 DEF Attempt, Authenticate, Send, End
  <2>4. made' \in [Requests -> 0 .. MaxAttempts]
    BY <1>7 DEF Attempt
  <2>5. last' \in [Requests -> {"none", "transient", "permanent"}]
    BY <1>7 DEF Attempt, Authenticate, Send
  <2>6. token.value \in 0 .. MaxTokens
    BY <1>7
  <2>7. tok' = tok \/ \E t \in 0 .. MaxTokens : tok' = [tok EXCEPT ![r] = t]
    BY <1>7, <2>6 DEF Attempt, Authenticate, Send
  <2>8. tok' \in [Requests -> 0 .. MaxTokens]
    BY <2>7
  <2> QED
    BY <1>7, <2>2, <2>3, <2>4, <2>5, <2>8 DEF Attempt
<1>8. ASSUME NEW r \in Requests, Lock(r) PROVE TypeOK'
    BY <1>8 DEF Lock, Go, Send
<1>9. ASSUME NEW r \in Requests, Exchange(r) PROVE TypeOK'
  <2>1. \E p \in Places : Go(r, p)
    BY <1>9 DEF Exchange, End, Send, Fail
  <2>2. pc' \in [Requests -> Places]
    BY <2>1 DEF Go
  <2>3. out' \in [Requests -> Outcomes \cup {"none"}]
    BY <1>9 DEF Exchange, Send, End, Fail, Ended
  <2>4. last' \in [Requests -> {"none", "transient", "permanent"}]
    BY <1>9 DEF Exchange, Send, Fail
  <2>5. issued' \in 0 .. MaxTokens
    BY <1>9 DEF Exchange
  <2>6. token' = token \/ \E t \in 0 .. MaxTokens : token' = [value |-> t, live |-> TRUE]
    BY <1>9 DEF Exchange
  <2>7. token \in [value : 0 .. MaxTokens, live : BOOLEAN]
    BY <1>9
  <2>8. \A t \in 0 .. MaxTokens :
         [value |-> t, live |-> TRUE] \in [value : 0 .. MaxTokens, live : BOOLEAN]
    BY <1>9
  <2>9. token' \in [value : 0 .. MaxTokens, live : BOOLEAN]
    BY <2>6, <2>7, <2>8, Zenon
  <2>10. tok' = tok \/ \E t \in 0 .. MaxTokens : tok' = [tok EXCEPT ![r] = t]
    BY <1>9 DEF Exchange, Send
  <2>11. tok' \in [Requests -> 0 .. MaxTokens]
    BY <2>10
  <2> QED
    BY <1>9, <2>2, <2>3, <2>4, <2>5, <2>9, <2>11 DEF Exchange
<1>10. ASSUME NEW r \in Requests, Answer(r) PROVE TypeOK'
  <2>1. \E p \in Places : Go(r, p)
    BY <1>10 DEF Answer, End, Fail, Unauthorized
  <2>2. pc' \in [Requests -> Places]
    BY <2>1 DEF Go
  <2>3. out' \in [Requests -> Outcomes \cup {"none"}]
    BY <1>10 DEF Answer, End, Fail, Ended, Unauthorized
  <2>4. last' \in [Requests -> {"none", "transient", "permanent"}]
    BY <1>10 DEF Answer, Fail, Unauthorized
  <2>5. token' = token \/ token' = NoToken
    BY <1>10 DEF Answer, Unauthorized
  <2>6. token \in [value : 0 .. MaxTokens, live : BOOLEAN]
    BY <1>10
  <2>7. NoToken \in [value : 0 .. MaxTokens, live : BOOLEAN]
    BY <1>10 DEF NoToken
  <2>8. token' \in [value : 0 .. MaxTokens, live : BOOLEAN]
    BY <2>5, <2>6, <2>7, Zenon
  <2>9. leg' \in [Requests -> {"verify", "request", "response"}]
    BY <1>10 DEF Answer, Unauthorized
  <2>10. made' \in [Requests -> 0 .. MaxAttempts]
    BY <1>10 DEF Answer
  <2>11. tok' \in [Requests -> 0 .. MaxTokens]
    BY <1>10 DEF Answer
  <2>12. tok[r] \in 0 .. MaxTokens
    BY <1>10
  <2>13. refused' = refused \/ refused' = refused \cup {tok[r]}
    BY <1>10 DEF Answer, Unauthorized
  <2>14. refused \subseteq 0 .. MaxTokens
    BY <1>10
  <2>15. ASSUME NEW t \in refused' PROVE t \in 0 .. MaxTokens
    <3>1. t \in refused \/ t = tok[r]
      BY <2>13
    <3> QED
      BY <2>12, <2>14, <3>1 
  <2>16. refused' \subseteq 0 .. MaxTokens
    BY <2>15
  <2> QED
    BY <1>10, <2>2, <2>3, <2>4, <2>8, <2>9, <2>10, <2>11, <2>16 DEF Answer
<1>11. ASSUME NEW r \in Requests, Backoff(r) PROVE TypeOK'
  <2>1. \E p \in Places : Go(r, p)
    BY <1>11 DEF Backoff, End
  <2>2. pc' \in [Requests -> Places]
    BY <2>1 DEF Go
  <2>3. out' \in [Requests -> Outcomes \cup {"none"}]
    BY <1>11 DEF Backoff, End
  <2> QED
    BY <1>11, <2>2, <2>3 DEF Backoff
<1>12. ASSUME NEW r \in Requests, ContextEnds(r) PROVE TypeOK'
    BY <1>12 DEF ContextEnds
<1>13. ASSUME NEW m \in Refs, EntryExpires(m) PROVE TypeOK'
  <2>1. entries' \in [Refs -> [kind : {"none", "good", "bad", "cancelled"},
                              ver : 0 .. MaxVersion, live : BOOLEAN]]
    BY <1>13 DEF EntryExpires
  <2>2. expiries' \in 0 .. MaxExpiries
    BY <1>13 DEF EntryExpires
  <2> QED
    BY <1>13, <2>1, <2>2 DEF EntryExpires
<1>14. CASE Publish
    BY <1>14 DEF Publish
<1>15. CASE TokenExpires
  <2>1. token' \in [value : 0 .. MaxTokens, live : BOOLEAN]
    BY <1>15 DEF TokenExpires
  <2>2. expiries' \in 0 .. MaxExpiries
    BY <1>15 DEF TokenExpires
  <2> QED
    BY <1>15, <2>1, <2>2 DEF TokenExpires
<1>16. CASE Revoke
    BY <1>16 DEF Revoke
<1>17. CASE UNCHANGED vars
    BY <1>17 DEF vars, reqVars, mapVars, tokVars
<1> QED
    BY <1>1, <1>2, <1>3, <1>4, <1>5, <1>6, <1>7, <1>8, <1>9, <1>10, <1>11,
       <1>12, <1>13, <1>14, <1>15, <1>16, <1>17 DEF Next, Step

\* The counters of a call are where CallCounts says.
LEMMA CallCountsStep ==
    ASSUME TypeOK, CallCounts, [Next]_vars
    PROVE  CallCounts'
<1> USE ProviderCallAssumption DEF TypeOK, CallCounts, reqVars, mapVars, tokVars
<1>1. ASSUME NEW r \in Requests, Run(r) PROVE CallCounts'
    BY <1>1 DEF Run, Go, End, Unserved
<1>2. ASSUME NEW r \in Requests, Lookup(r) PROVE CallCounts'
    BY <1>2 DEF Lookup, Go, Take, Cached
<1>3. ASSUME NEW r \in Requests, Join(r) PROVE CallCounts'
    BY <1>3 DEF Join, Go, Take, Cached, InFlight
<1>4. ASSUME NEW r \in Requests, Fetch(r) PROVE CallCounts'
    BY <1>4 DEF Fetch, Go
<1>5. ASSUME NEW r \in Requests, Remember(r) PROVE CallCounts'
    BY <1>5 DEF Remember, Store, Purged, Cached, NoEntry
<1>6. ASSUME NEW r \in Requests, Apply(r) PROVE CallCounts'
    BY <1>6 DEF Apply, Continue, Go, End, Nothing
<1>7. ASSUME NEW r \in Requests, Attempt(r) PROVE CallCounts'
    BY <1>7 DEF Attempt, Authenticate, Go, End, Send
<1>8. ASSUME NEW r \in Requests, Lock(r) PROVE CallCounts'
    BY <1>8 DEF Lock, Go, Send
<1>9. ASSUME NEW r \in Requests, Exchange(r) PROVE CallCounts'
    BY <1>9 DEF Exchange, Go, End, Send, Fail, Ended
<1>10. ASSUME NEW r \in Requests, Answer(r) PROVE CallCounts'
    BY <1>10 DEF Answer, Go, End, Unauthorized, Fail, Ended, NoToken
<1>11. ASSUME NEW r \in Requests, Backoff(r) PROVE CallCounts'
    BY <1>11 DEF Backoff, Go, End
<1>12. ASSUME NEW r \in Requests, ContextEnds(r) PROVE CallCounts'
    BY <1>12 DEF ContextEnds
<1>13. ASSUME NEW m \in Refs, EntryExpires(m) PROVE CallCounts'
    BY <1>13 DEF EntryExpires, Cached
<1>14. CASE Publish
    BY <1>14 DEF Publish
<1>15. CASE TokenExpires
    BY <1>15 DEF TokenExpires
<1>16. CASE Revoke
    BY <1>16 DEF Revoke
<1>17. CASE UNCHANGED vars
    BY <1>17 DEF vars, reqVars, mapVars, tokVars
<1> QED
    BY <1>1, <1>2, <1>3, <1>4, <1>5, <1>6, <1>7, <1>8, <1>9, <1>10, <1>11,
       <1>12, <1>13, <1>14, <1>15, <1>16, <1>17 DEF Next, Step

\* A flight starts on a miss with no other under way, and only its end stores.
LEMMA OneFetchStep ==
    ASSUME TypeOK, TypeOK', OneFetchPerRef, [Next]_vars
    PROVE  OneFetchPerRef'
<1> USE ProviderCallAssumption DEF TypeOK, OneFetchPerRef, Leads, Cached,
        reqVars, mapVars, tokVars
<1>1. ASSUME NEW r \in Requests, Run(r) PROVE OneFetchPerRef'
    BY <1>1 DEF Run, Go, End, Unserved
<1>2. ASSUME NEW r \in Requests, Lookup(r) PROVE OneFetchPerRef'
    BY <1>2 DEF Lookup, Go, Take
<1>3. ASSUME NEW r \in Requests, Join(r) PROVE OneFetchPerRef'
    BY <1>3 DEF Join, Go, Take, InFlight
<1>4. ASSUME NEW r \in Requests, Fetch(r) PROVE OneFetchPerRef'
    BY <1>4 DEF Fetch, Go
<1>5. ASSUME NEW r \in Requests, Remember(r) PROVE OneFetchPerRef'
    BY <1>5 DEF Remember, Store, Purged, NoEntry
<1>6. ASSUME NEW r \in Requests, Apply(r) PROVE OneFetchPerRef'
    BY <1>6 DEF Apply, Continue, Go, End, Nothing
<1>7. ASSUME NEW r \in Requests, Attempt(r) PROVE OneFetchPerRef'
    BY <1>7 DEF Attempt, Authenticate, Go, End, Send
<1>8. ASSUME NEW r \in Requests, Lock(r) PROVE OneFetchPerRef'
    BY <1>8 DEF Lock, Go, Send
<1>9. ASSUME NEW r \in Requests, Exchange(r) PROVE OneFetchPerRef'
    BY <1>9 DEF Exchange, Go, End, Send, Fail, Ended
<1>10. ASSUME NEW r \in Requests, Answer(r) PROVE OneFetchPerRef'
    BY <1>10 DEF Answer, Go, End, Unauthorized, Fail, Ended, NoToken
<1>11. ASSUME NEW r \in Requests, Backoff(r) PROVE OneFetchPerRef'
    BY <1>11 DEF Backoff, Go, End
<1>12. ASSUME NEW r \in Requests, ContextEnds(r) PROVE OneFetchPerRef'
    BY <1>12 DEF ContextEnds
<1>13. ASSUME NEW m \in Refs, EntryExpires(m) PROVE OneFetchPerRef'
    BY <1>13 DEF EntryExpires
<1>14. CASE Publish
    BY <1>14 DEF Publish
<1>15. CASE TokenExpires
    BY <1>15 DEF TokenExpires
<1>16. CASE Revoke
    BY <1>16 DEF Revoke
<1>17. CASE UNCHANGED vars
    BY <1>17 DEF vars, reqVars, mapVars, tokVars
<1> QED
    BY <1>1, <1>2, <1>3, <1>4, <1>5, <1>6, <1>7, <1>8, <1>9, <1>10, <1>11,
       <1>12, <1>13, <1>14, <1>15, <1>16, <1>17 DEF Next, Step

\* Only the holder of the mutex stores a live token or lets go of the mutex.
LEMMA OneExchangeStep ==
    ASSUME TypeOK, OneExchangeAtATime, [Next]_vars
    PROVE  OneExchangeAtATime'
<1> USE ProviderCallAssumption DEF TypeOK, OneExchangeAtATime, reqVars, mapVars,
        tokVars
<1>1. ASSUME NEW r \in Requests, Run(r) PROVE OneExchangeAtATime'
    BY <1>1 DEF Run, Go, End, Unserved
<1>2. ASSUME NEW r \in Requests, Lookup(r) PROVE OneExchangeAtATime'
    BY <1>2 DEF Lookup, Go, Take, Cached
<1>3. ASSUME NEW r \in Requests, Join(r) PROVE OneExchangeAtATime'
    BY <1>3 DEF Join, Go, Take, Cached, InFlight
<1>4. ASSUME NEW r \in Requests, Fetch(r) PROVE OneExchangeAtATime'
    BY <1>4 DEF Fetch, Go
<1>5. ASSUME NEW r \in Requests, Remember(r) PROVE OneExchangeAtATime'
    BY <1>5 DEF Remember, Store, Purged, Cached, NoEntry
<1>6. ASSUME NEW r \in Requests, Apply(r) PROVE OneExchangeAtATime'
    BY <1>6 DEF Apply, Continue, Go, End, Nothing
<1>7. ASSUME NEW r \in Requests, Attempt(r) PROVE OneExchangeAtATime'
    BY <1>7 DEF Attempt, Authenticate, Go, End, Send
<1>8. ASSUME NEW r \in Requests, Lock(r) PROVE OneExchangeAtATime'
    BY <1>8 DEF Lock, Go, Send
<1>9. ASSUME NEW r \in Requests, Exchange(r) PROVE OneExchangeAtATime'
    BY <1>9 DEF Exchange, Go, End, Send, Fail, Ended
<1>10. ASSUME NEW r \in Requests, Answer(r) PROVE OneExchangeAtATime'
    BY <1>10 DEF Answer, Go, End, Unauthorized, Fail, Ended, NoToken
<1>11. ASSUME NEW r \in Requests, Backoff(r) PROVE OneExchangeAtATime'
    BY <1>11 DEF Backoff, Go, End
<1>12. ASSUME NEW r \in Requests, ContextEnds(r) PROVE OneExchangeAtATime'
    BY <1>12 DEF ContextEnds
<1>13. ASSUME NEW m \in Refs, EntryExpires(m) PROVE OneExchangeAtATime'
    BY <1>13 DEF EntryExpires, Cached
<1>14. CASE Publish
    BY <1>14 DEF Publish
<1>15. CASE TokenExpires
    BY <1>15 DEF TokenExpires
<1>16. CASE Revoke
    BY <1>16 DEF Revoke
<1>17. CASE UNCHANGED vars
    BY <1>17 DEF vars, reqVars, mapVars, tokVars
<1> QED
    BY <1>1, <1>2, <1>3, <1>4, <1>5, <1>6, <1>7, <1>8, <1>9, <1>10, <1>11,
       <1>12, <1>13, <1>14, <1>15, <1>16, <1>17 DEF Next, Step

\* A fresh token has been refused by nobody, and a refusal leaves none held.
LEMMA TokensStep ==
    ASSUME TypeOK, TypeOK', TokensIssued, RefusedTokenNotHeld, [Next]_vars
    PROVE  TokensIssued' /\ RefusedTokenNotHeld'
<1> USE ProviderCallAssumption DEF TypeOK, TokensIssued, RefusedTokenNotHeld,
        reqVars, mapVars, tokVars
<1>1. ASSUME NEW r \in Requests, Run(r) PROVE TokensIssued' /\ RefusedTokenNotHeld'
    BY <1>1 DEF Run, Go, End, Unserved
<1>2. ASSUME NEW r \in Requests, Lookup(r)
       PROVE  TokensIssued' /\ RefusedTokenNotHeld'
    BY <1>2 DEF Lookup, Go, Take, Cached
<1>3. ASSUME NEW r \in Requests, Join(r) PROVE TokensIssued' /\ RefusedTokenNotHeld'
    BY <1>3 DEF Join, Go, Take, Cached, InFlight
<1>4. ASSUME NEW r \in Requests, Fetch(r)
       PROVE  TokensIssued' /\ RefusedTokenNotHeld'
    BY <1>4 DEF Fetch, Go
<1>5. ASSUME NEW r \in Requests, Remember(r)
       PROVE  TokensIssued' /\ RefusedTokenNotHeld'
    BY <1>5 DEF Remember, Store, Purged, Cached, NoEntry
<1>6. ASSUME NEW r \in Requests, Apply(r)
       PROVE  TokensIssued' /\ RefusedTokenNotHeld'
    BY <1>6 DEF Apply, Continue, Go, End, Nothing
<1>7. ASSUME NEW r \in Requests, Attempt(r)
       PROVE  TokensIssued' /\ RefusedTokenNotHeld'
    BY <1>7 DEF Attempt, Authenticate, Go, End, Send
<1>8. ASSUME NEW r \in Requests, Lock(r) PROVE TokensIssued' /\ RefusedTokenNotHeld'
  <2>1. ref[r] \notin Static /\ token.value \in Nat /\ UNCHANGED <<token, issued, refused, ref>>
    BY <1>8 DEF Lock
  <2>2. CASE token.live /\ Send(r, token.value)
    BY <2>1, <2>2 DEF Send, Go
  <2>3. CASE Go(r, "exchange") /\ UNCHANGED tok
    BY <2>1, <2>3 DEF Go
  <2> QED
    BY <1>8, <2>2, <2>3 DEF Lock
<1>9. ASSUME NEW r \in Requests, Exchange(r)
       PROVE  TokensIssued' /\ RefusedTokenNotHeld'
    BY <1>9 DEF Exchange, Go, End, Send, Fail, Ended
<1>10. ASSUME NEW r \in Requests, Answer(r)
       PROVE  TokensIssued' /\ RefusedTokenNotHeld'
    BY <1>10 DEF Answer, Go, End, Unauthorized, Fail, Ended, NoToken
<1>11. ASSUME NEW r \in Requests, Backoff(r)
       PROVE  TokensIssued' /\ RefusedTokenNotHeld'
    BY <1>11 DEF Backoff, Go, End
<1>12. ASSUME NEW r \in Requests, ContextEnds(r)
       PROVE  TokensIssued' /\ RefusedTokenNotHeld'
    BY <1>12 DEF ContextEnds
<1>13. ASSUME NEW m \in Refs, EntryExpires(m)
       PROVE  TokensIssued' /\ RefusedTokenNotHeld'
    BY <1>13 DEF EntryExpires, Cached
<1>14. CASE Publish
    BY <1>14 DEF Publish
<1>15. CASE TokenExpires
    BY <1>15 DEF TokenExpires
<1>16. CASE Revoke
    BY <1>16 DEF Revoke
<1>17. CASE UNCHANGED vars
    BY <1>17 DEF vars, reqVars, mapVars, tokVars
<1> QED
    BY <1>1, <1>2, <1>3, <1>4, <1>5, <1>6, <1>7, <1>8, <1>9, <1>10, <1>11,
       <1>12, <1>13, <1>14, <1>15, <1>16, <1>17 DEF Next, Step

\* A call that ends does so for the reason it reports.
LEMMA BlameStep ==
    ASSUME TypeOK, CallCounts, FailureBlamesTheRightParty, [Next]_vars
    PROVE  FailureBlamesTheRightParty'
<1> USE ProviderCallAssumption DEF TypeOK, CallCounts,
        FailureBlamesTheRightParty, reqVars, mapVars, tokVars
<1>1. ASSUME NEW r \in Requests, Run(r) PROVE FailureBlamesTheRightParty'
    BY <1>1 DEF Run, Go, End, Unserved
<1>2. ASSUME NEW r \in Requests, Lookup(r) PROVE FailureBlamesTheRightParty'
    BY <1>2 DEF Lookup, Go, Take, Cached
<1>3. ASSUME NEW r \in Requests, Join(r) PROVE FailureBlamesTheRightParty'
    BY <1>3 DEF Join, Go, Take, Cached, InFlight
<1>4. ASSUME NEW r \in Requests, Fetch(r) PROVE FailureBlamesTheRightParty'
    BY <1>4 DEF Fetch, Go
<1>5. ASSUME NEW r \in Requests, Remember(r) PROVE FailureBlamesTheRightParty'
    BY <1>5 DEF Remember, Store, Purged, Cached, NoEntry
<1>6. ASSUME NEW r \in Requests, Apply(r) PROVE FailureBlamesTheRightParty'
    BY <1>6 DEF Apply, Continue, Go, End, Nothing
<1>7. ASSUME NEW r \in Requests, Attempt(r) PROVE FailureBlamesTheRightParty'
    BY <1>7 DEF Attempt, Authenticate, Go, End, Send
<1>8. ASSUME NEW r \in Requests, Lock(r) PROVE FailureBlamesTheRightParty'
    BY <1>8 DEF Lock, Go, Send
<1>9. ASSUME NEW r \in Requests, Exchange(r) PROVE FailureBlamesTheRightParty'
    BY <1>9 DEF Exchange, Go, End, Send, Fail, Ended
<1>10. ASSUME NEW r \in Requests, Answer(r) PROVE FailureBlamesTheRightParty'
    BY <1>10 DEF Answer, Go, End, Unauthorized, Fail, Ended, NoToken
<1>11. ASSUME NEW r \in Requests, Backoff(r) PROVE FailureBlamesTheRightParty'
    BY <1>11 DEF Backoff, Go, End
<1>12. ASSUME NEW r \in Requests, ContextEnds(r) PROVE FailureBlamesTheRightParty'
    BY <1>12 DEF ContextEnds
<1>13. ASSUME NEW m \in Refs, EntryExpires(m) PROVE FailureBlamesTheRightParty'
    BY <1>13 DEF EntryExpires, Cached
<1>14. CASE Publish
    BY <1>14 DEF Publish
<1>15. CASE TokenExpires
    BY <1>15 DEF TokenExpires
<1>16. CASE Revoke
    BY <1>16 DEF Revoke
<1>17. CASE UNCHANGED vars
    BY <1>17 DEF vars, reqVars, mapVars, tokVars
<1> QED
    BY <1>1, <1>2, <1>3, <1>4, <1>5, <1>6, <1>7, <1>8, <1>9, <1>10, <1>11,
       <1>12, <1>13, <1>14, <1>15, <1>16, <1>17 DEF Next, Step

\* Versions stay in order: flights of one mapping follow one another.
LEMMA VersionsStep ==
    ASSUME TypeOK, TypeOK', OneFetchPerRef, VersionsOrdered, [Next]_vars
    PROVE  VersionsOrdered'
<1> USE ProviderCallAssumption DEF TypeOK, OneFetchPerRef, VersionsOrdered,
        Versions, Entries, Holds, Brings, Serving, Leads, Cached, reqVars,
        mapVars, tokVars
<1>1. ASSUME NEW r \in Requests, Run(r) PROVE VersionsOrdered'
    BY <1>1 DEF Run, Go, End, Unserved
<1>2. ASSUME NEW r \in Requests, Lookup(r) PROVE VersionsOrdered'
  <2> DEFINE e == entries[ref[r]]
  <2>1. CASE Cached(ref[r]) /\ Take(r, e)
    <3>1. ~InFlight(ref[r])
      BY <2>1 DEF InFlight
    <3>2. /\ pc' = [pc EXCEPT ![r] = "apply"]
          /\ got' = [got EXCEPT ![r] = [kind |-> e.kind, ver |-> e.ver]]
      BY <2>1 DEF Take, Go
    <3>3. UNCHANGED <<ver, version, ref, entries>>
      BY <1>2 DEF Lookup
    <3>4. \A s \in Requests : s # r => (Holds(s)' <=> Holds(s)) /\ got'[s] = got[s]
      BY <3>2 DEF Holds
    <3>5. /\ got'[r].kind = e.kind /\ got'[r].ver = e.ver
          /\ Holds(r)' => Serving(ref[r])
      BY <2>1, <3>2 DEF Holds, Serving
    <3>6. \A s \in Requests : (Brings(s)' => Brings(s)) /\ (Brings(s)' => s # r)
      BY <3>2 DEF Brings
    <3>7. \A s \in Requests : Brings(s)' => ref[s] # ref[r]
      BY <3>1, <3>6 DEF InFlight, Brings, Leads
    <3>8. \A m \in Refs : Serving(m)' <=> Serving(m)
      BY <3>3 DEF Serving, Cached
    <3> HIDE DEF Holds, Brings, Serving, Cached, Leads
    <3>9. \A s \in Requests : ver'[s] <= version'
      BY <3>3, <3>4, <3>5, <3>6, <3>7, <3>8
    <3>10. \A s \in Requests : Holds(s)' => ver'[s] <= got'[s].ver /\ got'[s].ver <= version'
      BY <3>3, <3>4, <3>5, <3>6, <3>7, <3>8
    <3>11. \A q, s \in Requests : Brings(q)' /\ ref'[s] = ref'[q] =>
             /\ ver'[s] <= got'[q].ver
             /\ Holds(s)' => got'[s].ver <= got'[q].ver
      BY <3>3, <3>4, <3>5, <3>6, <3>7, <3>8
    <3>12. \A s \in Requests : Serving(ref[s])' =>
             /\ ver'[s] <= entries'[ref'[s]].ver
             /\ Holds(s)' => got'[s].ver <= entries'[ref'[s]].ver
      BY <3>3, <3>4, <3>5, <3>6, <3>7, <3>8
    <3>13. \A q \in Requests : Brings(q)' => got'[q].ver <= version'
      BY <3>3, <3>4, <3>5, <3>6, <3>7, <3>8
    <3>14. \A m \in Refs : Serving(m)' => entries'[m].ver <= version'
      BY <3>3, <3>4, <3>5, <3>6, <3>7, <3>8
    <3> QED
      BY <3>9, <3>10, <3>11, <3>12, <3>13, <3>14
  <2>2. CASE UNCHANGED got /\ \E p \in {"miss", "wait", "fetch"} : Go(r, p)
    <3>1. UNCHANGED <<ver, version, ref, entries>>
      BY <1>2 DEF Lookup
    <3>2. \A s \in Requests : (Holds(s)' => Holds(s)) /\ (Brings(s)' => Brings(s))
      BY <2>2 DEF Go
    <3> QED
      BY <2>2, <3>1, <3>2
  <2> QED
    BY <1>2, <2>1, <2>2 DEF Lookup, Take
<1>3. ASSUME NEW r \in Requests, Join(r) PROVE VersionsOrdered'
  <2> DEFINE e == entries[ref[r]]
  <2>1. CASE Cached(ref[r]) /\ Take(r, e)
    <3>1. ~InFlight(ref[r])
      BY <2>1 DEF InFlight
    <3>2. /\ pc' = [pc EXCEPT ![r] = "apply"]
          /\ got' = [got EXCEPT ![r] = [kind |-> e.kind, ver |-> e.ver]]
      BY <2>1 DEF Take, Go
    <3>3. UNCHANGED <<ver, version, ref, entries>>
      BY <1>3 DEF Join
    <3>4. \A s \in Requests : s # r => (Holds(s)' <=> Holds(s)) /\ got'[s] = got[s]
      BY <3>2 DEF Holds
    <3>5. /\ got'[r].kind = e.kind /\ got'[r].ver = e.ver
          /\ Holds(r)' => Serving(ref[r])
      BY <2>1, <3>2 DEF Holds, Serving
    <3>6. \A s \in Requests : (Brings(s)' => Brings(s)) /\ (Brings(s)' => s # r)
      BY <3>2 DEF Brings
    <3>7. \A s \in Requests : Brings(s)' => ref[s] # ref[r]
      BY <3>1, <3>6 DEF InFlight, Brings, Leads
    <3>8. \A m \in Refs : Serving(m)' <=> Serving(m)
      BY <3>3 DEF Serving, Cached
    <3> HIDE DEF Holds, Brings, Serving, Cached, Leads
    <3>9. \A s \in Requests : ver'[s] <= version'
      BY <3>3, <3>4, <3>5, <3>6, <3>7, <3>8
    <3>10. \A s \in Requests : Holds(s)' => ver'[s] <= got'[s].ver /\ got'[s].ver <= version'
      BY <3>3, <3>4, <3>5, <3>6, <3>7, <3>8
    <3>11. \A q, s \in Requests : Brings(q)' /\ ref'[s] = ref'[q] =>
             /\ ver'[s] <= got'[q].ver
             /\ Holds(s)' => got'[s].ver <= got'[q].ver
      BY <3>3, <3>4, <3>5, <3>6, <3>7, <3>8
    <3>12. \A s \in Requests : Serving(ref[s])' =>
             /\ ver'[s] <= entries'[ref'[s]].ver
             /\ Holds(s)' => got'[s].ver <= entries'[ref'[s]].ver
      BY <3>3, <3>4, <3>5, <3>6, <3>7, <3>8
    <3>13. \A q \in Requests : Brings(q)' => got'[q].ver <= version'
      BY <3>3, <3>4, <3>5, <3>6, <3>7, <3>8
    <3>14. \A m \in Refs : Serving(m)' => entries'[m].ver <= version'
      BY <3>3, <3>4, <3>5, <3>6, <3>7, <3>8
    <3> QED
      BY <3>9, <3>10, <3>11, <3>12, <3>13, <3>14
  <2>2. CASE UNCHANGED got /\ \E p \in {"miss", "wait", "fetch"} : Go(r, p)
    <3>1. UNCHANGED <<ver, version, ref, entries>>
      BY <1>3 DEF Join
    <3>2. \A s \in Requests : (Holds(s)' => Holds(s)) /\ (Brings(s)' => Brings(s))
      BY <2>2 DEF Go
    <3> QED
      BY <2>2, <3>1, <3>2
  <2> QED
    BY <1>3, <2>1, <2>2 DEF Join, Take
<1>4. ASSUME NEW r \in Requests, Fetch(r) PROVE VersionsOrdered'
  <2>1. UNCHANGED <<ref, version, ver, entries>>
    BY <1>4 DEF Fetch
  <2>2. /\ \A s \in Requests : s # r => pc'[s] = pc[s] /\ got'[s] = got[s]
        /\ pc'[r] = "compile" /\ (got'[r].kind = "good" => got'[r].ver = version)
    BY <1>4 DEF Fetch, Go
  <2>3. \A m \in Refs : (Serving(m)' <=> Serving(m)) /\ entries'[m] = entries[m]
    BY <2>1
  <2>4. \A s \in Requests : Holds(s)' => Holds(s) /\ got'[s] = got[s]
    BY <2>2
  <2>5. \A q \in Requests : Brings(q)' =>
          (Brings(q) /\ got'[q] = got[q]) \/ got'[q].ver = version
    BY <2>2
  <2>0. /\ version \in Int
        /\ \A s \in Requests : ref[s] \in Refs /\ ver[s] \in Int /\ got[s].ver \in Int
        /\ \A m \in Refs : entries[m].ver \in Int
    OBVIOUS
  <2> HIDE DEF Holds, Brings, Serving, Cached, Leads, TypeOK, Versions, Entries,
        OneFetchPerRef
  <2>6. \A s \in Requests : ver'[s] <= version'
    BY <2>0, <2>1, <2>3, <2>4, <2>5
  <2>7. \A s \in Requests : Holds(s)' => ver'[s] <= got'[s].ver /\ got'[s].ver <= version'
    BY <2>0, <2>1, <2>3, <2>4, <2>5
  <2>8. \A q, s \in Requests : Brings(q)' /\ ref'[s] = ref'[q] =>
          /\ ver'[s] <= got'[q].ver
          /\ Holds(s)' => got'[s].ver <= got'[q].ver
    BY <2>0, <2>1, <2>3, <2>4, <2>5
  <2>9. \A s \in Requests : Serving(ref[s])' =>
          /\ ver'[s] <= entries'[ref'[s]].ver
          /\ Holds(s)' => got'[s].ver <= entries'[ref'[s]].ver
    BY <2>0, <2>1, <2>3, <2>4, <2>5
  <2>10. \A q \in Requests : Brings(q)' => got'[q].ver <= version'
    BY <2>0, <2>1, <2>3, <2>4, <2>5
  <2>11. \A m \in Refs : Serving(m)' => entries'[m].ver <= version'
    BY <2>0, <2>1, <2>3, <2>4, <2>5
  <2> QED
    BY <2>6, <2>7, <2>8, <2>9, <2>10, <2>11
<1>5. ASSUME NEW r \in Requests, Remember(r) PROVE VersionsOrdered'
  <2>1. UNCHANGED <<ref, version, ver>>
    BY <1>5 DEF Remember
  <2>2. \A s \in Requests :
          \/ pc'[s] = pc[s] /\ got'[s] = got[s] /\ s # r
          \/ pc'[s] = "apply" /\ got'[s] = got[r] /\ ref[s] = ref[r]
    BY <1>5 DEF Remember
  <2>3. \A m \in Refs : Serving(m)' =>
          \/ Serving(m) /\ entries'[m] = entries[m] /\ m # ref[r]
          \/ Brings(r) /\ m = ref[r] /\ entries'[m].ver = got[r].ver
    <3>1. pc[r] = "compile" /\ ~Cached(ref[r])
      BY <1>5 DEF Remember
    <3>2. \A m \in Refs :
            \/ entries'[m] = NoEntry
            \/ entries'[m] = entries[m] /\ m # ref[r]
            \/ /\ m = ref[r]
               /\ entries'[m] = [kind |-> got[r].kind, ver |-> got[r].ver, live |-> TRUE]
      BY <1>5, <3>1 DEF Remember, Store, Purged
    <3> QED
      BY <3>1, <3>2 DEF NoEntry
  <2>4. \A s \in Requests : Holds(s)' =>
          \/ Holds(s) /\ got'[s] = got[s]
          \/ Brings(r) /\ ref[s] = ref[r] /\ got'[s] = got[r]
    BY <1>5, <2>2 DEF Remember
  <2>5. \A q \in Requests : Brings(q)' =>
          Brings(q) /\ got'[q] = got[q] /\ ref[q] # ref[r]
    BY <1>5, <2>2 DEF Remember
  <2>0. /\ version \in Int
        /\ \A s \in Requests : ref[s] \in Refs /\ ver[s] \in Int /\ got[s].ver \in Int
        /\ \A m \in Refs : entries[m].ver \in Int
    OBVIOUS
  <2> HIDE DEF Holds, Brings, Serving, Cached, Leads, TypeOK, Versions, Entries,
        OneFetchPerRef
  <2>6. \A s \in Requests : ver'[s] <= version'
    BY <2>0, <2>1, <2>3, <2>4, <2>5
  <2>7. \A s \in Requests : Holds(s)' => ver'[s] <= got'[s].ver /\ got'[s].ver <= version'
    BY <2>0, <2>1, <2>3, <2>4, <2>5
  <2>8. \A q, s \in Requests : Brings(q)' /\ ref'[s] = ref'[q] =>
          /\ ver'[s] <= got'[q].ver
          /\ Holds(s)' => got'[s].ver <= got'[q].ver
    BY <2>0, <2>1, <2>3, <2>4, <2>5
  <2>9. \A s \in Requests : Serving(ref[s])' =>
          /\ ver'[s] <= entries'[ref'[s]].ver
          /\ Holds(s)' => got'[s].ver <= entries'[ref'[s]].ver
    BY <2>0, <2>1, <2>3, <2>4, <2>5
  <2>10. \A q \in Requests : Brings(q)' => got'[q].ver <= version'
    BY <2>0, <2>1, <2>3, <2>4, <2>5
  <2>11. \A m \in Refs : Serving(m)' => entries'[m].ver <= version'
    BY <2>0, <2>1, <2>3, <2>4, <2>5
  <2> QED
    BY <2>6, <2>7, <2>8, <2>9, <2>10, <2>11
<1>6. ASSUME NEW r \in Requests, Apply(r) PROVE VersionsOrdered'
  <2>1. /\ UNCHANGED <<ref, version, entries>>
        /\ \A s \in Requests : s # r => pc'[s] = pc[s] /\ got'[s] = got[s] /\ ver'[s] = ver[s]
        /\ pc'[r] \in {"done", "lookup", "attempt"}
        /\ ver'[r] = ver[r] \/ (Holds(r) /\ ver'[r] = got[r].ver)
    BY <1>6 DEF Apply, Continue, Go, End
  <2>2. /\ ~Holds(r)' /\ ~Brings(r)'
        /\ \A s \in Requests : s # r => (Holds(s)' <=> Holds(s)) /\ (Brings(s)' <=> Brings(s))
        /\ \A m \in Refs : Serving(m)' <=> Serving(m)
    BY <2>1
  <2> HIDE DEF Holds, Brings, Serving, Cached, Leads
  <2>3. \A s \in Requests : ver'[s] <= version'
    BY <2>1, <2>2
  <2>4. \A s \in Requests : Holds(s)' => ver'[s] <= got'[s].ver /\ got'[s].ver <= version'
    BY <2>1, <2>2
  <2>5. ASSUME NEW q \in Requests, NEW s \in Requests, Brings(q)', ref'[s] = ref'[q]
        PROVE  ver'[s] <= got'[q].ver /\ (Holds(s)' => got'[s].ver <= got'[q].ver)
    <3>1. Brings(q) /\ got'[q] = got[q] /\ ref[s] = ref[q]
      BY <2>1, <2>2, <2>5
    <3>2. ver[s] <= got[q].ver /\ (Holds(s) => got[s].ver <= got[q].ver)
      BY <3>1
    <3> QED
      BY <2>1, <2>2, <3>1, <3>2
  <2>6. ASSUME NEW s \in Requests, Serving(ref[s])'
        PROVE  /\ ver'[s] <= entries'[ref'[s]].ver
               /\ Holds(s)' => got'[s].ver <= entries'[ref'[s]].ver
    <3>1. Serving(ref[s]) /\ entries'[ref'[s]] = entries[ref[s]]
      BY <2>1, <2>2, <2>6 DEF Serving, Cached
    <3>2. ver[s] <= entries[ref[s]].ver /\ (Holds(s) => got[s].ver <= entries[ref[s]].ver)
      BY <3>1
    <3> QED
      BY <2>1, <2>2, <3>1, <3>2
  <2>7. \A q \in Requests : Brings(q)' => got'[q].ver <= version'
    BY <2>1, <2>2
  <2>8. \A m \in Refs : Serving(m)' => entries'[m].ver <= version'
    BY <2>1, <2>2
  <2> QED
    BY <2>3, <2>4, <2>5, <2>6, <2>7, <2>8
<1>7. ASSUME NEW r \in Requests, Attempt(r) PROVE VersionsOrdered'
    BY <1>7 DEF Attempt, Authenticate, Go, End, Send
<1>8. ASSUME NEW r \in Requests, Lock(r) PROVE VersionsOrdered'
    BY <1>8 DEF Lock, Go, Send
<1>9. ASSUME NEW r \in Requests, Exchange(r) PROVE VersionsOrdered'
    BY <1>9 DEF Exchange, Go, End, Send, Fail, Ended
<1>10. ASSUME NEW r \in Requests, Answer(r) PROVE VersionsOrdered'
    BY <1>10 DEF Answer, Go, End, Unauthorized, Fail, Ended, NoToken
<1>11. ASSUME NEW r \in Requests, Backoff(r) PROVE VersionsOrdered'
    BY <1>11 DEF Backoff, Go, End
<1>12. ASSUME NEW r \in Requests, ContextEnds(r) PROVE VersionsOrdered'
    BY <1>12 DEF ContextEnds
<1>13. ASSUME NEW m \in Refs, EntryExpires(m) PROVE VersionsOrdered'
    BY <1>13 DEF EntryExpires
<1>14. CASE Publish
    BY <1>14 DEF Publish
<1>15. CASE TokenExpires
    BY <1>15 DEF TokenExpires
<1>16. CASE Revoke
    BY <1>16 DEF Revoke
<1>17. CASE UNCHANGED vars
    BY <1>17 DEF vars, reqVars, mapVars, tokVars
<1> QED
    BY <1>1, <1>2, <1>3, <1>4, <1>5, <1>6, <1>7, <1>8, <1>9, <1>10, <1>11,
       <1>12, <1>13, <1>14, <1>15, <1>16, <1>17 DEF Next, Step

-----------------------------------------------------------------------------
(* The theorems.                                                           *)

LEMMA InitInv == Init => IInv
<1> SUFFICES ASSUME Init PROVE IInv
    OBVIOUS
<1> USE ProviderCallAssumption DEF Init
<1>1. TypeOK
    BY DEF TypeOK, Places, Entries, Nothing, NoEntry, NoToken, Versions, Tokens,
       Outcomes
<1>2. OneFetchPerRef /\ OneExchangeAtATime /\ RefusedTokenNotHeld
    BY DEF OneFetchPerRef, OneExchangeAtATime, RefusedTokenNotHeld, Leads, NoToken
<1>3. FailureBlamesTheRightParty /\ CallCounts
    BY DEF FailureBlamesTheRightParty, CallCounts
<1>4. TokensIssued /\ VersionsOrdered
    BY DEF TokensIssued, VersionsOrdered, Holds, Brings, Serving, Cached,
       NoEntry, NoToken
<1> QED
    BY <1>1, <1>2, <1>3, <1>4 DEF IInv

LEMMA StepInv == IInv /\ [Next]_vars => IInv'
<1> SUFFICES ASSUME IInv, [Next]_vars PROVE IInv'
    OBVIOUS
<1>1. TypeOK' /\ CallCounts'
    BY TypeOKStep, CallCountsStep DEF IInv
<1>2. OneFetchPerRef' /\ OneExchangeAtATime'
    BY <1>1, OneFetchStep, OneExchangeStep DEF IInv
<1>3. TokensIssued' /\ RefusedTokenNotHeld' /\ FailureBlamesTheRightParty'
    BY <1>1, TokensStep, BlameStep DEF IInv
<1>4. VersionsOrdered'
    BY <1>1, VersionsStep DEF IInv
<1> QED
    BY <1>1, <1>2, <1>3, <1>4 DEF IInv

\* The invariant all the others follow from, for any number of requests and
\* mappings, any budget and any cap.
THEOREM ProviderCallInvariant == Spec => []IInv
BY InitInv, StepInv, PTL DEF Spec

\* The state of the step, the mapper and the token keeps its types; in
\* particular call never makes an attempt beyond its budget.
THEOREM ProviderCallTypeCorrect == Spec => []TypeOK
<1>1. IInv => TypeOK
    BY DEF IInv
<1> QED
    BY <1>1, ProviderCallInvariant, PTL

\* compiled fetches a mapping at most once at a time, and never one it holds.
THEOREM FetchesAreShared == Spec => []OneFetchPerRef
<1>1. IInv => OneFetchPerRef
    BY DEF IInv
<1> QED
    BY <1>1, ProviderCallInvariant, PTL

\* providerToken exchanges under the mutex and only with no live token held.
THEOREM ExchangesAreShared == Spec => []OneExchangeAtATime
<1>1. IInv => OneExchangeAtATime
    BY DEF IInv
<1> QED
    BY <1>1, ProviderCallInvariant, PTL

\* After forgetToken has dealt with a refusal, the refused token is never held
\* again, whatever exchanges and refusals interleave with it.
THEOREM RefusedTokensAreForgotten == Spec => []RefusedTokenNotHeld
<1>1. IInv => RefusedTokenNotHeld
    BY DEF IInv
<1> QED
    BY <1>1, ProviderCallInvariant, PTL

\* call reports 502 for the provider's failures and 504 for a caller that left.
THEOREM FailuresAreHonest == Spec => []FailureBlamesTheRightParty
<1>1. IInv => FailureBlamesTheRightParty
    BY DEF IInv
<1> QED
    BY <1>1, ProviderCallInvariant, PTL

\* No request goes from a version of its mapping back to an older one, because
\* the flights of one mapping follow one another and only they fill the cache.
THEOREM VersionsNeverGoBack == Spec => MappingNeverGoesBack
<1>1. IInv /\ [Next]_vars => [\A r \in Requests : ver'[r] >= ver[r]]_vars
  <2> SUFFICES ASSUME IInv, [Next]_vars, NEW s \in Requests
               PROVE  ver'[s] >= ver[s]
      OBVIOUS
  <2> USE DEF IInv, TypeOK, VersionsOrdered, Holds
  <2>1. ver[s] \in Nat
      OBVIOUS
  <2>2. ASSUME NEW r \in Requests, Apply(r) PROVE ver'[s] >= ver[s]
    <3>1. \/ UNCHANGED ver
          \/ Holds(r) /\ ver' = [ver EXCEPT ![r] = got[r].ver]
        BY <2>2 DEF Apply
    <3>2. Holds(r) => ver[r] <= got[r].ver /\ got[r].ver \in Nat
        BY <2>2 DEF Entries
    <3> QED
        BY <2>1, <3>1, <3>2
  <2>3. CASE UNCHANGED ver
      BY <2>1, <2>3
  <2>4. ASSUME NEW r \in Requests, Step(r), ~Apply(r) PROVE UNCHANGED ver
      BY <2>4 DEF Step, Lookup, Join, Fetch, Remember, Attempt, Lock, Exchange,
                  Answer, Backoff
  <2>5. ASSUME NEW r \in Requests, Run(r) \/ ContextEnds(r) PROVE UNCHANGED ver
      BY <2>5 DEF Run, ContextEnds, reqVars
  <2>6. CASE \/ \E m \in Refs : EntryExpires(m)
             \/ Publish \/ TokenExpires \/ Revoke \/ UNCHANGED vars
      BY <2>6, <2>3 DEF EntryExpires, Publish, TokenExpires, Revoke, vars, reqVars
  <2> QED
      BY <2>2, <2>3, <2>4, <2>5, <2>6 DEF Next
<1> QED
    BY <1>1, ProviderCallInvariant, PTL DEF Spec, MappingNeverGoesBack

\* remember turns a mapping away only when the cap is reached by live mappings.
THEOREM CapIsForLiveEntries == Spec => CapCountsLiveEntries
<1> DEFINE Kept(r) == \/ Cached(ref[r])'
                      \/ Cardinality({m \in Refs : Cached(m)'}) >= MaxCacheEntries
<1>1. ASSUME IInv, NEW r \in Requests, Remember(r) PROVE Kept(r)
  <2> USE ProviderCallAssumption DEF IInv, TypeOK
  <2> DEFINE m == ref[r]
             live == {k \in Refs : Cached(k)}
  <2>1. m \in Refs /\ got[r].kind # "none" /\ UNCHANGED ref
      BY <1>1 DEF CallCounts, Remember
  <2>2. CASE Cached(m) \/ Cardinality(live) < MaxCacheEntries
    <3>1. entries'[m] = [kind |-> got[r].kind, ver |-> got[r].ver, live |-> TRUE]
        BY <1>1, <2>1, <2>2 DEF Remember, Store
    <3> QED
        BY <2>1, <3>1 DEF Cached
  <2>3. CASE ~Cached(m) /\ ~(Cardinality(live) < MaxCacheEntries)
    <3>1. entries' = [k \in Refs |-> Purged(k)]
        BY <1>1, <2>1, <2>3 DEF Remember, Store
    <3>2. \A k \in Refs : Cached(k)' <=> Cached(k)
        BY <3>1 DEF Purged, Cached, NoEntry
    <3>3. {k \in Refs : Cached(k)'} = live
        BY <3>2
    <3>4. IsFiniteSet(live)
        BY FS_Subset
    <3>5. Cardinality(live) \in Nat
        BY <3>4, FS_CardinalityType
    <3> HIDE DEF live
    <3> QED
        BY <2>3, <3>3, <3>5
  <2> QED
      BY <2>2, <2>3
<1>2. ASSUME IInv, [Next]_vars, NEW r \in Requests, pc[r] = "compile", pc'[r] = "apply"
      PROVE  Remember(r)
  <2> USE <1>2 DEF IInv, TypeOK
  <2>1. ASSUME NEW s \in Requests, Step(s), ~Remember(r) PROVE FALSE
    <3>1. CASE Remember(s)
        BY <2>1, <3>1 DEF Remember
    <3>2. CASE Lookup(s) \/ Join(s) \/ Fetch(s) \/ Apply(s) \/ Attempt(s)
        BY <2>1, <3>2 DEF Lookup, Join, Fetch, Apply, Continue, Attempt,
           Authenticate,
               Take, End, Send, Go
    <3>3. CASE Lock(s) \/ Exchange(s) \/ Answer(s) \/ Backoff(s)
        BY <2>1, <3>3 DEF Lock, Exchange, Answer, Backoff, Fail, Unauthorized,
           End, Send, Go
    <3> QED
        BY <2>1, <3>1, <3>2, <3>3 DEF Step
  <2>2. ASSUME NEW s \in Requests, Run(s) \/ ContextEnds(s) PROVE FALSE
      BY <2>2 DEF Run, ContextEnds, End, Go, reqVars
  <2>3. CASE \/ \E k \in Refs : EntryExpires(k)
             \/ Publish \/ TokenExpires \/ Revoke \/ UNCHANGED vars
      BY <2>3 DEF EntryExpires, Publish, TokenExpires, Revoke, vars, reqVars
  <2> QED
      BY <2>1, <2>2, <2>3 DEF Next
<1>3. IInv /\ [Next]_vars =>
        [\A r \in Requests : pc[r] = "compile" /\ pc'[r] = "apply" => Kept(r)]_vars
    BY <1>1, <1>2
<1> QED
    BY <1>3, ProviderCallInvariant, PTL DEF Spec, CapCountsLiveEntries
=============================================================================
