--------------------------- MODULE ExchangeProofs ---------------------------
(***************************************************************************)
(* Machine-checked proofs about Exchange, for any set of message ids, any   *)
(* number of exchanges and faults, any routing, with one cache or two.      *)
(*                                                                         *)
(* BoundToOwnRequest is about what signStep finds in the payload store, so  *)
(* it needs StoreBinding: what an entry for a request may be.  That in turn *)
(* rests on the order of the two chains (Recorded) and on an exchange being *)
(* untouched until it begins (Fresh).  The two response properties need     *)
(* the same of the response under way (Responses).                         *)
(*                                                                         *)
(* LoneCallbackAccepted follows a request's record and its callback through *)
(* both caches: ChainOrder says how far each chain has come, LatestEntry    *)
(* that without faults no record is ever lost but to a later one of the     *)
(* same message, and LoneBound what the only callback carries on its way.   *)
(***************************************************************************)
EXTENDS Exchange, TLAPS

\* An exchange that has not begun has left no trace; one that has carries a
\* message.
Fresh ==
    \A e \in Ids :
        /\ cpc[e] # "unused" => call[e] \in Calls
        /\ cpc[e] = "unused" =>
              /\ call[e].kind = "none"
              /\ rpc[e] = "none"
              /\ req[e] = 0
              /\ e \notin delivered
              /\ <<"bap", e>> \notin persisted
              /\ <<"bpp", e>> \notin persisted

\* Each chain stores before it sends on.
Recorded ==
    \A e \in Ids :
        /\ cpc[e] \in {"forward", "waiting"} \/ rpc[e] # "none" =>
              <<Caller(e), e>> \in persisted
        /\ rpc[e] = "route" /\ Route(e) # "provider" =>
              <<Receiver(e), e>> \in persisted

\* A request's entry names a request of that message which the BAP recorded,
\* and in a cache of the BPP's own, which the BPP recorded.
StoreBinding ==
    \A a \in Adapters, m \in Messages :
        store[a][m].action = "request" =>
            /\ store[a][m].sig \in Ids
            /\ call[store[a][m].sig].kind = "request"
            /\ call[store[a][m].sig].msg = m
            /\ <<"bap", store[a][m].sig>> \in persisted
            /\ a = "bpp" => <<"bpp", store[a][m].sig>> \in persisted

\* A response not yet read is covered by its signature, and if it is a
\* positive one its message was handed over.
Responses ==
    \A e \in Ids :
        /\ resp[e].sig # "none" => resp[e].sig = resp[e].body
        /\ resp[e].body \in {"ack", "app", "answer"} => e \in delivered

ExchangeInv ==
    /\ TypeOK
    /\ Fresh
    /\ Recorded
    /\ StoreBinding
    /\ BoundToOwnRequest
    /\ RecordedBeforeDelivered
    /\ Responses
    /\ SignatureCoversBody
    /\ AckMeansDelivered

\* The responses of a receiver that has not got an answer to give.
Refusal == {Signed("nack"), Unsigned("nack"), Signed("accepted"),
            Unsigned("accepted"), Unsigned("502")}

\* What the receiving handler does with one exchange once it has it.
ReceiverStep(e) ==
    \/ ReceiverFails(e) \/ ValidateSign(e) \/ ReceiverStorePayload(e)
    \/ Proxy(e) \/ Publish(e) \/ Provide(e)

CallerStep(e) ==
    \/ CallerFails(e) \/ SignStep(e) \/ CallerStorePayload(e)
    \/ Forward(e) \/ Return(e)

\* Initially no exchange has begun and every entry is empty.
LEMMA InitInv == Init => ExchangeInv
BY ExchangeAssumption
   DEF Init, ExchangeInv, TypeOK, Fresh, Recorded, StoreBinding,
       BoundToOwnRequest, RecordedBeforeDelivered, Responses,
       SignatureCoversBody, AckMeansDelivered, Ids, Adapters, Bodies,
       NoEntry, NoResponse

\* The ways a response is written all come down to Respond.
LEMMA Outcomes ==
    ASSUME NEW e \in Ids, TypeOK
    PROVE  /\ \A body : Refuse(e, body) =>
                 /\ Respond(e, Signed(body)) \/ Respond(e, Unsigned(body))
                 /\ faults' \in 0 .. MaxFaults
           /\ Nack(e) => Refuse(e, "nack")
           /\ FaultNack(e) => Respond(e, Signed("nack")) \/ Respond(e, Unsigned("nack"))
           /\ Fault => faults' \in 0 .. MaxFaults
           /\ FaultNack(e) => Fault
           /\ Refusals \subseteq {"nack", "accepted"}
BY ExchangeAssumption DEF Refuse, Nack, FaultNack, Fault, TypeOK, Refusals

\* The steps of the receiving handler: it writes a response of one of these
\* forms or moves on, and what else it may touch.
LEMMA ReceiverEffect ==
    ASSUME NEW e \in Ids, TypeOK, ReceiverStep(e)
    PROVE  /\ UNCHANGED <<call, cpc, req, answer>>
           /\ rpc[e] # "none"
           /\ \/ \E r \in Refusal :
                    Respond(e, r)
              \/ \E r \in {Signed("app"), Unsigned("app"), Signed("ack"),
                           Unsigned("ack"), Signed("answer"),
                           Unsigned("answer")} :
                    Respond(e, r) /\ e \in delivered'
              \/ /\ UNCHANGED resp
                 /\ rpc' = [rpc EXCEPT ![e] = "store"]
              \/ /\ UNCHANGED resp
                 /\ rpc' = [rpc EXCEPT ![e] = "route"]
                 /\ Route(e) = "provider" \/ <<Receiver(e), e>> \in persisted'
           /\ \/ delivered' = delivered
              \/ delivered' = delivered \cup {e} /\ rpc[e] = "route"
           /\ \/ UNCHANGED <<store, persisted>>
              \/ Persist(Receiver(e), e) /\ rpc[e] = "store"
           /\ faults' \in 0 .. MaxFaults
           /\ refused' \subseteq Ids
<1> USE DEF TypeOK
<1>1. CASE ReceiverFails(e)
  BY <1>1, Outcomes DEF ReceiverFails, Refusal
<1>2. CASE ValidateSign(e)
  BY <1>2, Outcomes DEF ValidateSign, Refusal
<1>3. CASE ReceiverStorePayload(e)
  BY <1>3, Outcomes DEF ReceiverStorePayload, Persist, Refusal
<1>4. CASE Proxy(e)
  BY <1>4, Outcomes DEF Proxy, SignAck, Refusal
<1>5. CASE Publish(e)
  BY <1>5, Outcomes DEF Publish, SignAck, Refusal
<1>6. CASE Provide(e)
  BY <1>6, Outcomes DEF Provide, SignAck, Refusal
<1> QED BY <1>1, <1>2, <1>3, <1>4, <1>5, <1>6 DEF ReceiverStep

\* The steps of the calling handler likewise.
LEMMA CallerEffect ==
    ASSUME NEW e \in Ids, TypeOK, CallerStep(e)
    PROVE  /\ UNCHANGED <<call, delivered, refused>>
           /\ cpc[e] # "unused"
           /\ \E pc \in {"store", "forward", "waiting", "done"} :
                 /\ cpc' = [cpc EXCEPT ![e] = pc]
                 /\ pc = "forward" => <<Caller(e), e>> \in persisted'
                 /\ pc = "waiting" => cpc[e] = "forward"
           /\ \/ UNCHANGED rpc
              \/ rpc' = [rpc EXCEPT ![e] = "validate"] /\ cpc[e] = "forward"
           /\ \/ UNCHANGED req
              \/ /\ req' = [req EXCEPT ![e] = GetByMessageID("bpp", call[e].msg)]
                 /\ call[e].kind = "callback"
           /\ resp' \in {resp, [resp EXCEPT ![e] = NoResponse]}
           /\ \/ UNCHANGED answer
              \/ \E r \in {Unsigned("nack"), Unsigned("accepted"), Unsigned("502"), resp[e]} :
                    answer' = [answer EXCEPT ![e] = r]
           /\ \/ UNCHANGED <<store, persisted>>
              \/ Persist(Caller(e), e)
           /\ faults' \in 0 .. MaxFaults
<1> USE DEF TypeOK
<1>1. CASE CallerFails(e)
  BY <1>1 DEF CallerFails, CallerRefuses, Refusals
<1>2. CASE SignStep(e)
  BY <1>2, ExchangeAssumption DEF SignStep, Fault
<1>3. CASE CallerStorePayload(e)
  BY <1>3 DEF CallerStorePayload, CallerRefuses, Persist
<1>4. CASE Forward(e)
  BY <1>4 DEF Forward
<1>5. CASE Return(e)
  BY <1>5 DEF Return
<1> QED BY <1>1, <1>2, <1>3, <1>4, <1>5 DEF CallerStep

\* What Next amounts to.
LEMMA NextCases ==
    ASSUME Next
    PROVE  \/ \E e \in Ids, m \in Messages, k \in {"request", "callback"} :
                 Hand(e, [kind |-> k, msg |-> m])
           \/ \E e \in Ids : CallerStep(e) \/ ReceiverStep(e)
           \/ \E a \in Adapters, m \in Messages : Expire(a, m)
BY DEF Next, Request, Callback, CallerStep, ReceiverStep

\* Request and Callback: an application hands its adapter a new exchange.
LEMMA HandStep ==
    ASSUME ExchangeInv,
           NEW e \in Ids, NEW m \in Messages, NEW k \in {"request", "callback"},
           Hand(e, [kind |-> k, msg |-> m])
    PROVE  ExchangeInv'
<1> DEFINE c == [kind |-> k, msg |-> m]
<1>1. /\ cpc[e] = "unused"
      /\ call' = [call EXCEPT ![e] = c]
      /\ cpc' = [cpc EXCEPT ![e] = "sign"]
      /\ UNCHANGED <<rpc, req, store, resp, answer, persisted, delivered,
                     refused, faults>>
  BY DEF Hand
<1>2. c \in Calls
  BY DEF Calls
<1>3. TypeOK'
  BY <1>1, <1>2 DEF ExchangeInv, TypeOK
<1>4. Fresh'
  BY <1>1, <1>2 DEF ExchangeInv, TypeOK, Fresh
<1>5. \A d \in Ids \ {e} : call'[d] = call[d] /\ cpc'[d] = cpc[d]
  BY <1>1 DEF ExchangeInv, TypeOK
<1>6. /\ rpc[e] = "none" /\ req[e] = 0 /\ e \notin delivered
      /\ <<"bap", e>> \notin persisted /\ <<"bpp", e>> \notin persisted
      /\ cpc'[e] = "sign"
  BY <1>1 DEF ExchangeInv, TypeOK, Fresh
<1>7. Recorded'
  BY <1>1, <1>5, <1>6
     DEF ExchangeInv, Recorded, Caller, Receiver, Route
<1>8. StoreBinding'
  BY <1>1, <1>5, <1>6 DEF ExchangeInv, StoreBinding
<1>9. BoundToOwnRequest'
  BY <1>1, <1>5, <1>6 DEF ExchangeInv, BoundToOwnRequest
<1>10. RecordedBeforeDelivered'
  BY <1>1, <1>5, <1>6
     DEF ExchangeInv, TypeOK, RecordedBeforeDelivered, Caller, Receiver, Route
<1>11. Responses' /\ SignatureCoversBody' /\ AckMeansDelivered'
  BY <1>1 DEF ExchangeInv, Responses, SignatureCoversBody, AckMeansDelivered
<1> QED BY <1>3, <1>4, <1>7, <1>8, <1>9, <1>10, <1>11 DEF ExchangeInv

\* An expired entry is for no request.
LEMMA ExpireStep ==
    ASSUME ExchangeInv, NEW a \in Adapters, NEW m \in Messages, Expire(a, m)
    PROVE  ExchangeInv'
<1>1. TypeOK'
  BY ExchangeAssumption DEF ExchangeInv, TypeOK, Expire, Fault, NoEntry
<1>2. StoreBinding'
  BY DEF ExchangeInv, TypeOK, StoreBinding, Expire, NoEntry
<1> QED
  BY <1>1, <1>2
     DEF Expire, ExchangeInv, Fresh, Recorded, BoundToOwnRequest,
         RecordedBeforeDelivered, Responses, SignatureCoversBody,
         AckMeansDelivered, Caller, Receiver, Route

\* storePayload, in either chain: a request's new entry is the request itself,
\* which the BAP has just recorded or had recorded before sending it.
LEMMA PersistStep ==
    ASSUME ExchangeInv, NEW e \in Ids, NEW a \in Adapters, Persist(a, e),
           cpc[e] # "unused", UNCHANGED call,
           call[e].kind = "request" => a = "bap" \/ <<"bap", e>> \in persisted
    PROVE  /\ StoreBinding'
           /\ store' \in [Adapters -> [Messages ->
                 [action : {"none", "request", "callback"},
                  sig : 0 .. MaxExchanges]]]
           /\ persisted \subseteq persisted'
           /\ persisted' \subseteq Adapters \X Ids
           /\ <<a, e>> \in persisted'
           /\ \A d \in Ids \ {e}, b \in Adapters :
                 <<b, d>> \in persisted' => <<b, d>> \in persisted
<1>1. call[e] \in Calls
  BY DEF ExchangeInv, Fresh
<1>2. CacheOf(a) \in Adapters /\ (CacheOf(a) = "bpp" => a = "bpp")
  BY DEF CacheOf, Adapters
<1>3. /\ persisted \subseteq persisted'
      /\ persisted' \subseteq Adapters \X Ids
      /\ <<a, e>> \in persisted'
      /\ \A d \in Ids \ {e}, b \in Adapters :
            <<b, d>> \in persisted' => <<b, d>> \in persisted
  BY DEF Persist, ExchangeInv, TypeOK
<1>4. store' = [store EXCEPT ![CacheOf(a)] =
                  [@ EXCEPT ![call[e].msg] = [action |-> call[e].kind, sig |-> e]]]
  BY DEF Persist
<1>5. store' \in [Adapters -> [Messages ->
                 [action : {"none", "request", "callback"},
                  sig : 0 .. MaxExchanges]]]
  BY <1>1, <1>2, <1>4, ExchangeAssumption DEF ExchangeInv, TypeOK, Calls, Ids
<1>6. ASSUME NEW b \in Adapters, NEW n \in Messages,
             store'[b][n].action = "request"
      PROVE  /\ store'[b][n].sig \in Ids
             /\ call[store'[b][n].sig].kind = "request"
             /\ call[store'[b][n].sig].msg = n
             /\ <<"bap", store'[b][n].sig>> \in persisted'
             /\ b = "bpp" => <<"bpp", store'[b][n].sig>> \in persisted'
  <2>1. CASE b = CacheOf(a) /\ n = call[e].msg
    <3>1. store'[b][n] = [action |-> call[e].kind, sig |-> e]
      BY <2>1, <1>1, <1>2, <1>4 DEF ExchangeInv, TypeOK, Calls
    <3> QED BY <3>1, <2>1, <1>2, <1>3, <1>6
  <2>2. CASE ~(b = CacheOf(a) /\ n = call[e].msg)
    <3>1. store'[b][n] = store[b][n]
      BY <2>2, <1>1, <1>2, <1>4 DEF ExchangeInv, TypeOK, Calls
    <3> QED BY <3>1, <1>3, <1>6 DEF ExchangeInv, StoreBinding
  <2> QED BY <2>1, <2>2
<1>7. StoreBinding'
  BY <1>6 DEF StoreBinding
<1> QED BY <1>3, <1>5, <1>7

\* No step of either handler takes a record away, and none writes one for an
\* exchange other than its own.
LEMMA CallerStores ==
    ASSUME ExchangeInv, NEW e \in Ids, CallerStep(e)
    PROVE  /\ StoreBinding'
           /\ store' \in [Adapters -> [Messages ->
                 [action : {"none", "request", "callback"},
                  sig : 0 .. MaxExchanges]]]
           /\ persisted \subseteq persisted'
           /\ persisted' \subseteq Adapters \X Ids
           /\ \A d \in Ids \ {e}, b \in Adapters :
                 <<b, d>> \in persisted' => <<b, d>> \in persisted
<1>0. TypeOK
  BY DEF ExchangeInv
<1>1. /\ UNCHANGED call
      /\ cpc[e] # "unused"
      /\ UNCHANGED <<store, persisted>> \/ Persist(Caller(e), e)
  BY <1>0, CallerEffect
<1>2. CASE UNCHANGED <<store, persisted>>
  BY <1>1, <1>2 DEF ExchangeInv, TypeOK, StoreBinding
<1>3. CASE Persist(Caller(e), e)
  <2>1. /\ Caller(e) \in Adapters
        /\ call[e].kind = "request" => Caller(e) = "bap"
    BY DEF Caller, Adapters
  <2> QED BY <1>1, <1>3, <2>1, PersistStep
<1> QED BY <1>1, <1>2, <1>3

\* Every step of the calling handler keeps the invariant.
LEMMA CallerKeepsInv ==
    ASSUME ExchangeInv, NEW e \in Ids, CallerStep(e)
    PROVE  ExchangeInv'
<1>0. TypeOK
  BY DEF ExchangeInv
<1>1. /\ UNCHANGED <<call, delivered, refused>>
      /\ cpc[e] # "unused"
      /\ \E pc \in {"store", "forward", "waiting", "done"} :
            /\ cpc' = [cpc EXCEPT ![e] = pc]
            /\ pc = "forward" => <<Caller(e), e>> \in persisted'
            /\ pc = "waiting" => cpc[e] = "forward"
      /\ \/ UNCHANGED rpc
         \/ rpc' = [rpc EXCEPT ![e] = "validate"] /\ cpc[e] = "forward"
      /\ \/ UNCHANGED req
         \/ /\ req' = [req EXCEPT ![e] = GetByMessageID("bpp", call[e].msg)]
            /\ call[e].kind = "callback"
      /\ resp' \in {resp, [resp EXCEPT ![e] = NoResponse]}
      /\ \/ UNCHANGED answer
         \/ \E r \in {Unsigned("nack"), Unsigned("accepted"), Unsigned("502"), resp[e]} :
               answer' = [answer EXCEPT ![e] = r]
      /\ faults' \in 0 .. MaxFaults
  BY <1>0, CallerEffect
<1>2. /\ StoreBinding'
      /\ store' \in [Adapters -> [Messages ->
            [action : {"none", "request", "callback"}, sig : 0 .. MaxExchanges]]]
      /\ persisted \subseteq persisted'
      /\ persisted' \subseteq Adapters \X Ids
      /\ \A d \in Ids \ {e}, b \in Adapters :
            <<b, d>> \in persisted' => <<b, d>> \in persisted
  BY CallerStores
<1>3. call[e] \in Calls
  BY <1>1 DEF ExchangeInv, Fresh
<1>4. LET s == GetByMessageID("bpp", call[e].msg)
      IN  s # 0 => /\ s \in Ids
                   /\ call[s].kind = "request"
                   /\ call[s].msg = call[e].msg
                   /\ <<"bap", s>> \in persisted
                   /\ <<"bpp", s>> \in persisted \/ SharedCache
  BY <1>3 DEF GetByMessageID, CacheOf, Adapters, ExchangeInv, StoreBinding, Calls
<1>5. GetByMessageID("bpp", call[e].msg) \in 0 .. MaxExchanges
  BY <1>4, ExchangeAssumption DEF Ids
<1>6. TypeOK'
  <2>0. cpc' \in [Ids -> {"unused", "sign", "store", "forward", "waiting", "done"}]
    BY <1>0, <1>1 DEF TypeOK
  <2>1. rpc' \in [Ids -> {"none", "validate", "store", "route", "done"}]
    BY <1>0, <1>1 DEF TypeOK
  <2>2. req' \in [Ids -> 0 .. MaxExchanges]
    BY <1>1, <1>5 DEF ExchangeInv, TypeOK
  <2>3. /\ resp' \in [Ids -> [body : Bodies \cup {"none"},
                              sig : Bodies \cup {"none"}]]
        /\ answer' \in [Ids -> [body : Bodies \cup {"none"},
                                sig : Bodies \cup {"none"}]]
    <3> DEFINE R == [body : Bodies \cup {"none"}, sig : Bodies \cup {"none"}]
    <3>1. /\ NoResponse \in R /\ Unsigned("nack") \in R
          /\ Unsigned("accepted") \in R /\ Unsigned("502") \in R
      BY DEF Bodies, NoResponse, Unsigned
    <3>2. resp \in [Ids -> R] /\ answer \in [Ids -> R] /\ resp[e] \in R
      BY <1>0 DEF TypeOK
    <3>3. resp' \in [Ids -> R]
      BY <1>1, <3>1, <3>2
    <3>4. answer' \in [Ids -> R]
      BY <1>1, <3>1, <3>2
    <3> QED BY <3>3, <3>4
  <2> QED BY <1>1, <1>2, <2>0, <2>1, <2>2, <2>3 DEF ExchangeInv, TypeOK
<1>7. \A d \in Ids \ {e} :
         /\ cpc'[d] = cpc[d] /\ rpc'[d] = rpc[d] /\ req'[d] = req[d]
         /\ resp'[d] = resp[d] /\ answer'[d] = answer[d]
  BY <1>1 DEF ExchangeInv, TypeOK
<1>8. cpc'[e] # "unused"
  BY <1>1 DEF ExchangeInv, TypeOK
<1>9. Fresh'
  BY <1>1, <1>2, <1>3, <1>7, <1>8 DEF ExchangeInv, Fresh, Adapters
<1>10. Recorded'
  BY <1>1, <1>2, <1>7
     DEF ExchangeInv, TypeOK, Recorded, Caller, Receiver, Route
<1>11. BoundToOwnRequest'
  <2>1. \/ req'[e] = req[e]
        \/ /\ req'[e] = GetByMessageID("bpp", call[e].msg)
           /\ call[e].kind = "callback"
    BY <1>0, <1>1 DEF TypeOK
  <2>2. ASSUME NEW d \in Ids, req'[d] # 0
        PROVE  /\ call[d].kind = "callback"
               /\ req'[d] \in Ids
               /\ call[req'[d]].kind = "request"
               /\ call[req'[d]].msg = call[d].msg
               /\ <<"bap", req'[d]>> \in persisted
               /\ <<"bpp", req'[d]>> \in persisted \/ SharedCache
    <3>1. CASE req'[d] = req[d]
      BY <2>2, <3>1 DEF ExchangeInv, BoundToOwnRequest
    <3>2. CASE d = e /\ req'[e] # req[e]
      BY <1>4, <2>1, <2>2, <3>2
    <3> QED BY <1>7, <3>1, <3>2
  <2> QED BY <1>1, <1>2, <2>2 DEF BoundToOwnRequest
<1>12. RecordedBeforeDelivered'
  BY <1>1, <1>2
     DEF ExchangeInv, RecordedBeforeDelivered, Caller, Receiver, Route
<1>13. Responses'
  BY <1>1, <1>7 DEF ExchangeInv, TypeOK, Responses, NoResponse
<1>14. SignatureCoversBody' /\ AckMeansDelivered'
  <2>1. answer'[e] \in {answer[e], resp[e], Unsigned("nack"), Unsigned("accepted"),
                      Unsigned("502")}
    BY <1>0, <1>1 DEF TypeOK
  <2>2. /\ answer'[e].sig # "none" => answer'[e].sig = answer'[e].body
        /\ answer'[e].body \in {"ack", "app", "answer"} => e \in delivered
    BY <2>1
       DEF ExchangeInv, Responses, SignatureCoversBody, AckMeansDelivered,
           Unsigned
  <2> QED
    BY <1>1, <1>7, <2>2 DEF ExchangeInv, SignatureCoversBody, AckMeansDelivered
<1> QED
  BY <1>2, <1>6, <1>9, <1>10, <1>11, <1>12, <1>13, <1>14 DEF ExchangeInv

\* The same of the receiving handler, whose exchange was recorded by its
\* caller before it was sent.
LEMMA ReceiverStores ==
    ASSUME ExchangeInv, NEW e \in Ids, ReceiverStep(e)
    PROVE  /\ cpc[e] # "unused"
           /\ StoreBinding'
           /\ store' \in [Adapters -> [Messages ->
                 [action : {"none", "request", "callback"},
                  sig : 0 .. MaxExchanges]]]
           /\ persisted \subseteq persisted'
           /\ persisted' \subseteq Adapters \X Ids
           /\ \A d \in Ids \ {e}, b \in Adapters :
                 <<b, d>> \in persisted' => <<b, d>> \in persisted
<1>0. TypeOK
  BY DEF ExchangeInv
<1>1. /\ UNCHANGED call
      /\ rpc[e] # "none"
      /\ UNCHANGED <<store, persisted>> \/ Persist(Receiver(e), e)
  BY <1>0, ReceiverEffect
<1>2. cpc[e] # "unused" /\ <<Caller(e), e>> \in persisted
  BY <1>1 DEF ExchangeInv, Fresh, Recorded
<1>3. CASE UNCHANGED <<store, persisted>>
  BY <1>1, <1>2, <1>3 DEF ExchangeInv, TypeOK, StoreBinding
<1>4. CASE Persist(Receiver(e), e)
  <2>1. /\ Receiver(e) \in Adapters
        /\ call[e].kind = "request" => <<"bap", e>> \in persisted
    BY <1>2 DEF Receiver, Caller, Adapters
  <2> QED BY <1>1, <1>2, <1>4, <2>1, PersistStep
<1> QED BY <1>1, <1>3, <1>4

\* Every step of the receiving handler keeps the invariant.
LEMMA ReceiverKeepsInv ==
    ASSUME ExchangeInv, NEW e \in Ids, ReceiverStep(e)
    PROVE  ExchangeInv'
<1>0. TypeOK
  BY DEF ExchangeInv
<1>1. /\ UNCHANGED <<call, cpc, req, answer>>
      /\ rpc[e] # "none"
      /\ \/ \E r \in Refusal :
               Respond(e, r)
         \/ \E r \in {Signed("app"), Unsigned("app"), Signed("ack"),
                      Unsigned("ack"), Signed("answer"), Unsigned("answer")} :
               Respond(e, r) /\ e \in delivered'
         \/ UNCHANGED resp /\ rpc' = [rpc EXCEPT ![e] = "store"]
         \/ /\ UNCHANGED resp
            /\ rpc' = [rpc EXCEPT ![e] = "route"]
            /\ Route(e) = "provider" \/ <<Receiver(e), e>> \in persisted'
      /\ \/ delivered' = delivered
         \/ delivered' = delivered \cup {e} /\ rpc[e] = "route"
      /\ faults' \in 0 .. MaxFaults
      /\ refused' \subseteq Ids
  BY <1>0, ReceiverEffect
<1>2. /\ cpc[e] # "unused"
      /\ StoreBinding'
      /\ store' \in [Adapters -> [Messages ->
            [action : {"none", "request", "callback"}, sig : 0 .. MaxExchanges]]]
      /\ persisted \subseteq persisted'
      /\ persisted' \subseteq Adapters \X Ids
      /\ \A d \in Ids \ {e}, b \in Adapters :
            <<b, d>> \in persisted' => <<b, d>> \in persisted
  BY ReceiverStores
<1>3. /\ \E pc \in {"store", "route", "done"} :
            /\ rpc' = [rpc EXCEPT ![e] = pc]
            /\ pc = "route" =>
                  Route(e) = "provider" \/ <<Receiver(e), e>> \in persisted'
      /\ \/ UNCHANGED resp
         \/ \E r \in Refusal :
               resp' = [resp EXCEPT ![e] = r]
         \/ /\ e \in delivered'
            /\ \E r \in {Signed("app"), Unsigned("app"), Signed("ack"),
                         Unsigned("ack"), Signed("answer"),
                         Unsigned("answer")} :
                  resp' = [resp EXCEPT ![e] = r]
  BY <1>1 DEF Respond
<1>4. TypeOK'
  <2>1. rpc' \in [Ids -> {"none", "validate", "store", "route", "done"}]
    BY <1>3 DEF ExchangeInv, TypeOK
  <2>2. resp' \in [Ids -> [body : Bodies \cup {"none"},
                           sig : Bodies \cup {"none"}]]
    <3> DEFINE R == [body : Bodies \cup {"none"}, sig : Bodies \cup {"none"}]
    <3>1. \A b \in Bodies : Signed(b) \in R /\ Unsigned(b) \in R
      BY DEF Signed, Unsigned
    <3>2. {"nack", "accepted", "502", "app", "ack", "answer"} \subseteq Bodies
      BY DEF Bodies
    <3>3. resp \in [Ids -> R]
      BY <1>0 DEF TypeOK
    <3> QED BY <1>3, <3>1, <3>2, <3>3 DEF Refusal
  <2> QED BY <1>1, <1>2, <2>1, <2>2 DEF ExchangeInv, TypeOK
<1>5. \A d \in Ids \ {e} :
         /\ rpc'[d] = rpc[d]
         /\ resp'[d] = resp[d]
         /\ d \in delivered' <=> d \in delivered
  BY <1>1, <1>3 DEF ExchangeInv, TypeOK
<1>6. Fresh'
  BY <1>1, <1>2, <1>5 DEF ExchangeInv, Fresh, Adapters
<1>7. Recorded'
  BY <1>1, <1>2, <1>3, <1>5
     DEF ExchangeInv, TypeOK, Recorded, Caller, Receiver, Route
<1>8. BoundToOwnRequest'
  BY <1>1, <1>2 DEF ExchangeInv, BoundToOwnRequest
<1>9. RecordedBeforeDelivered'
  BY <1>1, <1>2
     DEF ExchangeInv, Recorded, RecordedBeforeDelivered, Caller, Receiver, Route
<1>10. Responses'
  BY <1>1, <1>3, <1>5
     DEF ExchangeInv, TypeOK, Responses, Signed, Unsigned, Refusal
<1>11. SignatureCoversBody' /\ AckMeansDelivered'
  BY <1>1 DEF ExchangeInv, SignatureCoversBody, AckMeansDelivered
<1> QED
  BY <1>2, <1>4, <1>6, <1>7, <1>8, <1>9, <1>10, <1>11 DEF ExchangeInv

\* The inductive invariant holds throughout: Init establishes it, a step of
\* either application, of either handler or of the clock keeps it.
THEOREM ExchangeInvariant == Spec => []ExchangeInv
<1>1. ASSUME ExchangeInv, [Next]_vars
      PROVE  ExchangeInv'
  <2>1. CASE Next
    BY <1>1, <2>1, NextCases, HandStep, ExpireStep, CallerKeepsInv,
       ReceiverKeepsInv
  <2>2. CASE UNCHANGED vars
    BY <1>1, <2>2
       DEF vars, ExchangeInv, TypeOK, Fresh, Recorded, StoreBinding,
           BoundToOwnRequest, RecordedBeforeDelivered, Responses,
           SignatureCoversBody, AckMeansDelivered, Caller, Receiver, Route
  <2> QED BY <1>1, <2>1, <2>2
<1> QED BY <1>1, InitInv, PTL DEF Spec

\* Type correctness of the exchange: TypeOK.
THEOREM ExchangeTypeCorrect == Spec => []TypeOK
BY ExchangeInvariant, PTL DEF ExchangeInv

\* signStep binds a callback to nothing but a recorded request of its own
\* message: BoundToOwnRequest.
THEOREM CallbacksBoundToRequests == Spec => []BoundToOwnRequest
BY ExchangeInvariant, PTL DEF ExchangeInv

\* Both adapters store a message before an application sees it:
\* RecordedBeforeDelivered.
THEOREM NothingUnrecorded == Spec => []RecordedBeforeDelivered
BY ExchangeInvariant, PTL DEF ExchangeInv

-----------------------------------------------------------------------------
(* The only callback to a request sent once.                               *)

\* How far the chains are: what each exchange has not done yet, and that a
\* callback answers a request some application was handed.
ChainOrder ==
    \A e \in Ids :
        /\ cpc[e] \in {"unused", "sign", "store"} => <<Caller(e), e>> \notin persisted
        /\ cpc[e] \in {"unused", "sign", "store", "forward"} => rpc[e] = "none"
        /\ rpc[e] \in {"none", "validate", "store"} => <<Receiver(e), e>> \notin persisted
        /\ e \in delivered \cup refused => rpc[e] = "done"
        /\ call[e].kind = "callback" =>
              /\ call[e].msg \notin Provided
              /\ \E d \in delivered : call[d].kind = "request" /\ call[d].msg = call[e].msg

\* As long as nothing fails or expires, a message recorded by an adapter with a
\* cache of its own has an entry there, of an exchange that it recorded.
LatestEntry ==
    faults = 0 /\ ~SharedCache =>
        \A a \in Adapters, d \in Ids :
            <<a, d>> \in persisted =>
                /\ store[a][call[d].msg].sig \in Ids
                /\ <<a, store[a][call[d].msg].sig>> \in persisted
                /\ call[store[a][call[d].msg].sig].msg = call[d].msg
                /\ store[a][call[d].msg].action = call[store[a][call[d].msg].sig].kind

Lone(e) ==
    /\ V2 /\ ~SharedCache
    /\ AnswersOne(e)
    /\ Siblings(e, "callback") = {}

\* The callback is bound from the moment it is signed, and is not refused.
LoneBound ==
    \A e \in Ids : Lone(e) =>
        /\ e \notin refused
        /\ cpc[e] \in {"store", "forward", "waiting"} \/ rpc[e] # "none" => req[e] # 0

LoneInv == ChainOrder /\ LatestEntry /\ LoneBound

\* Whichever cache has not seen the callback itself has its request on record.
LEMMA RequestOnRecord ==
    ASSUME ExchangeInv, LoneInv, NEW e \in Ids, Lone(e), NEW a \in Adapters,
           <<a, e>> \notin persisted
    PROVE  /\ GetByMessageID(a, call[e].msg) \in Siblings(e, "request")
           /\ GetByMessageID(a, call[e].msg) # 0
<1>1. call[e].kind = "callback" /\ faults = 0 /\ ~SharedCache /\ Siblings(e, "callback") = {}
  BY DEF Lone, AnswersOne
<1>2. PICK d \in delivered : call[d].kind = "request" /\ call[d].msg = call[e].msg
  BY <1>1 DEF LoneInv, ChainOrder
<1>3. d \in Ids /\ call[e].msg \notin Provided
  BY <1>1 DEF LoneInv, ChainOrder, ExchangeInv, TypeOK
<1>4. <<"bap", d>> \in persisted /\ <<"bpp", d>> \in persisted
  BY <1>2, <1>3 DEF ExchangeInv, RecordedBeforeDelivered, Caller, Receiver, Route
<1>5. <<a, d>> \in persisted
  BY <1>4 DEF Adapters
<1> DEFINE s == store[a][call[e].msg].sig
<1>6. /\ s \in Ids /\ <<a, s>> \in persisted /\ call[s].msg = call[e].msg
      /\ store[a][call[e].msg].action = call[s].kind
  BY <1>1, <1>2, <1>3, <1>5 DEF LoneInv, LatestEntry
<1> HIDE DEF s
<1>7. s # e
  BY <1>6
<1>8. call[s] \in Calls
  <2>1. cpc[s] # "unused"
    BY <1>6 DEF ExchangeInv, Fresh, Adapters
  <2> QED BY <1>6, <2>1 DEF ExchangeInv, Fresh
<1>9. call[s].kind # "callback"
  BY <1>1, <1>6, <1>7 DEF Siblings
<1>10. call[s].kind = "request"
  BY <1>8, <1>9 DEF Calls
<1>11. GetByMessageID(a, call[e].msg) = s
  BY <1>1, <1>6, <1>10 DEF GetByMessageID, CacheOf, Adapters, s
<1>12. s # 0
  BY <1>6, ExchangeAssumption DEF Ids
<1> QED BY <1>6, <1>7, <1>10, <1>11, <1>12 DEF Siblings

\* So the record it was bound to is the one it is verified against.
LEMMA LoneVerifies ==
    ASSUME ExchangeInv, LoneInv, NEW e \in Ids, Lone(e), rpc[e] = "validate"
    PROVE  Verifies(e)
<1>1. /\ call[e].kind = "callback" /\ V2 /\ \A c, d \in Siblings(e, "request") : c = d
  BY DEF Lone, AnswersOne
<1>2. <<"bap", e>> \notin persisted
  BY <1>1 DEF LoneInv, ChainOrder, Receiver
<1>3. GetByMessageID("bap", call[e].msg) \in Siblings(e, "request")
  BY <1>2, RequestOnRecord DEF Adapters
<1>4. ASSUME req[e] # 0 PROVE req[e] \in Siblings(e, "request")
  <2>1. req[e] \in Ids /\ call[req[e]].kind = "request" /\ call[req[e]].msg = call[e].msg
    BY <1>4 DEF ExchangeInv, BoundToOwnRequest
  <2> QED BY <1>1, <2>1 DEF Siblings
<1> QED BY <1>1, <1>3, <1>4 DEF Verifies

\* A callback that is the only one after a step was it before, if it had begun.
LEMMA LoneBefore ==
    ASSUME ExchangeInv, NEW e \in Ids, Lone(e)', call'[e] = call[e], faults' = 0 => faults = 0,
           \A d \in Ids : call[d].kind # "none" => call'[d] = call[d]
    PROVE  Lone(e)
<1>1. \A k \in {"request", "callback"} : Siblings(e, k) \subseteq Siblings(e, k)'
  BY DEF Siblings
<1> QED BY <1>1 DEF Lone, AnswersOne

\* storePayload in either chain makes the exchange its message's latest entry.
LEMMA PersistLatest ==
    ASSUME ExchangeInv, LatestEntry, NEW e \in Ids, NEW a \in Adapters, Persist(a, e),
           UNCHANGED call, cpc[e] # "unused", faults' = 0 => faults = 0
    PROVE  LatestEntry'
<1> SUFFICES ASSUME faults' = 0, ~SharedCache, NEW b \in Adapters, NEW d \in Ids,
                    <<b, d>> \in persisted'
             PROVE  /\ store'[b][call[d].msg].sig \in Ids
                    /\ <<b, store'[b][call[d].msg].sig>> \in persisted'
                    /\ call[store'[b][call[d].msg].sig].msg = call[d].msg
                    /\ store'[b][call[d].msg].action = call[store'[b][call[d].msg].sig].kind
  BY DEF LatestEntry
<1>1. call[e] \in Calls
  BY DEF ExchangeInv, Fresh
<1>2. /\ store' = [store EXCEPT ![a] =
                     [@ EXCEPT ![call[e].msg] = [action |-> call[e].kind, sig |-> e]]]
      /\ persisted' = persisted \cup {<<a, e>>}
  BY DEF Persist, CacheOf
<1>3. store \in [Adapters -> [Messages ->
          [action : {"none", "request", "callback"}, sig : 0 .. MaxExchanges]]]
  BY DEF ExchangeInv, TypeOK
<1>4. CASE b = a /\ call[d].msg = call[e].msg
  <2>1. store'[b][call[d].msg] = [action |-> call[e].kind, sig |-> e]
    BY <1>1, <1>2, <1>3, <1>4 DEF Calls
  <2> QED BY <1>2, <1>4, <2>1
<1>5. CASE ~(b = a /\ call[d].msg = call[e].msg)
  <2>1. <<b, d>> \in persisted
    BY <1>2, <1>5
  <2>2. call[d] \in Calls
    <3>1. cpc[d] # "unused"
      BY <2>1 DEF ExchangeInv, Fresh, Adapters
    <3> QED BY <3>1 DEF ExchangeInv, Fresh
  <2>3. store'[b][call[d].msg] = store[b][call[d].msg]
    BY <1>1, <1>2, <1>3, <1>5, <2>2 DEF Calls
  <2> QED BY <1>2, <2>1, <2>3 DEF LatestEntry
<1> QED BY <1>4, <1>5

\* An exchange begins: a callback only once its request was handed over.
LEMMA LoneHand ==
    ASSUME ExchangeInv, LoneInv, NEW e \in Ids, NEW m \in Messages, Request(e, m) \/ Callback(e, m)
    PROVE  LoneInv'
<1>0. TypeOK
  BY DEF ExchangeInv
<1>1. /\ cpc[e] = "unused" /\ cpc' = [cpc EXCEPT ![e] = "sign"]
      /\ UNCHANGED <<rpc, req, store, persisted, delivered, refused, faults>>
      /\ \A d \in Ids \ {e} : call'[d] = call[d] /\ cpc'[d] = cpc[d]
      /\ call'[e].msg = m /\ cpc'[e] = "sign"
  BY <1>0 DEF Request, Callback, Hand, TypeOK
<1>2. /\ rpc[e] = "none" /\ req[e] = 0 /\ e \notin delivered /\ e \notin refused
      /\ <<"bap", e>> \notin persisted /\ <<"bpp", e>> \notin persisted
      /\ call[e].kind = "none"
  BY <1>1 DEF ExchangeInv, Fresh, LoneInv, ChainOrder
<1>3. call'[e].kind = "callback" =>
         /\ m \notin Provided
         /\ \E d \in delivered : call[d].kind = "request" /\ call[d].msg = m
  BY <1>0 DEF Request, Callback, Hand, TypeOK
<1>4. delivered \subseteq Ids /\ refused \subseteq Ids
  BY <1>0 DEF TypeOK
<1>5. ChainOrder'
  <2> SUFFICES ASSUME NEW d \in Ids
               PROVE  (/\ cpc[d] \in {"unused", "sign", "store"} => <<Caller(d), d>> \notin persisted
                       /\ cpc[d] \in {"unused", "sign", "store", "forward"} => rpc[d] = "none"
                       /\ rpc[d] \in {"none", "validate", "store"} => <<Receiver(d), d>> \notin persisted
                       /\ d \in delivered \cup refused => rpc[d] = "done"
                       /\ call[d].kind = "callback" =>
                             /\ call[d].msg \notin Provided
                             /\ \E c \in delivered : call[c].kind = "request" /\ call[c].msg = call[d].msg)'
    BY DEF ChainOrder
  <2>1. CASE d = e
    BY <1>1, <1>2, <1>3, <1>4, <2>1 DEF Caller, Receiver
  <2>2. CASE d # e
    BY <1>1, <1>2, <1>4, <2>2 DEF LoneInv, ChainOrder, Caller, Receiver
  <2> QED BY <2>1, <2>2
<1>6. LatestEntry'
  <2> SUFFICES ASSUME faults = 0, ~SharedCache, NEW b \in Adapters, NEW d \in Ids,
                      <<b, d>> \in persisted
               PROVE  /\ store[b][call'[d].msg].sig \in Ids
                      /\ <<b, store[b][call'[d].msg].sig>> \in persisted
                      /\ call'[store[b][call'[d].msg].sig].msg = call'[d].msg
                      /\ store[b][call'[d].msg].action = call'[store[b][call'[d].msg].sig].kind
    BY <1>1 DEF LatestEntry
  <2>1. \A c \in Ids : <<b, c>> \in persisted => c # e
    BY <1>2 DEF Adapters
  <2>2. call'[d] = call[d]
    BY <1>1, <2>1
  <2> QED BY <1>1, <2>1, <2>2 DEF LoneInv, LatestEntry
<1>7. LoneBound'
  <2> SUFFICES ASSUME NEW d \in Ids, Lone(d)'
               PROVE  (/\ d \notin refused
                       /\ cpc[d] \in {"store", "forward", "waiting"} \/ rpc[d] # "none" => req[d] # 0)'
    BY DEF LoneBound
  <2>1. CASE d = e
    BY <1>1, <1>2, <2>1
  <2>2. CASE d # e
    <3>1. \A c \in Ids : call[c].kind # "none" => call'[c] = call[c]
      BY <1>1, <1>2
    <3>2. Lone(d)
      BY <1>1, <2>2, <3>1, LoneBefore
    <3> QED BY <1>1, <2>2, <3>2 DEF LoneInv, LoneBound
  <2> QED BY <2>1, <2>2
<1> QED BY <1>5, <1>6, <1>7 DEF LoneInv

\* What one handler's step on e may do, and what follows from it.
LEMMA LoneStep ==
    ASSUME ExchangeInv, LoneInv, NEW e \in Ids, UNCHANGED call, cpc[e] # "unused",
           faults' = 0 => faults = 0,
           \A d \in Ids \ {e} : cpc'[d] = cpc[d] /\ rpc'[d] = rpc[d] /\ req'[d] = req[d],
           delivered \subseteq delivered', delivered' \subseteq delivered \cup {e},
           refused' \subseteq refused \cup {e},
           \/ UNCHANGED <<store, persisted>>
           \/ \E a \in Adapters : Persist(a, e),
           cpc'[e] \in {"unused", "sign", "store"} => <<Caller(e), e>> \notin persisted',
           cpc'[e] \in {"unused", "sign", "store", "forward"} => rpc'[e] = "none",
           rpc'[e] \in {"none", "validate", "store"} => <<Receiver(e), e>> \notin persisted',
           e \in delivered' \cup refused' => rpc'[e] = "done",
           Lone(e) /\ faults' = 0 =>
               /\ e \notin refused'
               /\ cpc'[e] \in {"store", "forward", "waiting"} \/ rpc'[e] # "none" => req'[e] # 0
    PROVE  LoneInv'
<1>1. LatestEntry'
  <2>1. CASE UNCHANGED <<store, persisted>>
    BY <2>1 DEF LoneInv, LatestEntry
  <2>2. CASE \E a \in Adapters : Persist(a, e)
    BY <2>2, PersistLatest DEF LoneInv
  <2> QED BY <2>1, <2>2
<1>2. \A d \in Ids \ {e}, a \in Adapters : <<a, d>> \in persisted' => <<a, d>> \in persisted
  BY DEF Persist
<1>3. ChainOrder'
  <2> SUFFICES ASSUME NEW d \in Ids
               PROVE  (/\ cpc[d] \in {"unused", "sign", "store"} => <<Caller(d), d>> \notin persisted
                       /\ cpc[d] \in {"unused", "sign", "store", "forward"} => rpc[d] = "none"
                       /\ rpc[d] \in {"none", "validate", "store"} => <<Receiver(d), d>> \notin persisted
                       /\ d \in delivered \cup refused => rpc[d] = "done"
                       /\ call[d].kind = "callback" =>
                             /\ call[d].msg \notin Provided
                             /\ \E c \in delivered : call[c].kind = "request" /\ call[c].msg = call[d].msg)'
    BY DEF ChainOrder
  <2>1. call[d].kind = "callback" =>
           /\ call[d].msg \notin Provided
           /\ \E c \in delivered' : call[c].kind = "request" /\ call[c].msg = call[d].msg
    <3>1. call[d].kind = "callback" =>
             /\ call[d].msg \notin Provided
             /\ \E c \in delivered : call[c].kind = "request" /\ call[c].msg = call[d].msg
      BY DEF LoneInv, ChainOrder
    <3> QED BY <3>1
  <2>2. CASE d = e
    BY <2>1, <2>2 DEF Caller, Receiver
  <2>3. CASE d # e
    <3>1. Caller(d) \in Adapters /\ Receiver(d) \in Adapters
      BY DEF Caller, Receiver, Adapters
    <3> QED BY <1>2, <2>1, <2>3, <3>1 DEF LoneInv, ChainOrder, Caller, Receiver
  <2> QED BY <2>2, <2>3
<1>4. LoneBound'
  <2> SUFFICES ASSUME NEW d \in Ids, Lone(d)'
               PROVE  (/\ d \notin refused
                       /\ cpc[d] \in {"store", "forward", "waiting"} \/ rpc[d] # "none" => req[d] # 0)'
    BY DEF LoneBound
  <2>1. Lone(d) /\ faults' = 0
    <3>1. faults' = 0
      BY DEF Lone, AnswersOne
    <3> QED BY <3>1, LoneBefore
  <2>2. CASE d = e
    BY <2>1, <2>2
  <2>3. CASE d # e
    BY <2>1, <2>3 DEF LoneInv, LoneBound
  <2> QED BY <2>2, <2>3
<1> QED BY <1>1, <1>3, <1>4 DEF LoneInv

\* Faults only add up.
LEMMA FaultsRemain ==
    ASSUME TypeOK, NEW e \in Ids
    PROVE  /\ Fault => faults' # 0
           /\ \A body : Refuse(e, body) => (faults' = 0 => faults = 0)
           /\ Nack(e) => (faults' = 0 => faults = 0)
           /\ FaultNack(e) => faults' # 0
BY DEF TypeOK, Fault, Refuse, Nack, FaultNack

LEMMA LoneCaller ==
    ASSUME ExchangeInv, LoneInv, NEW e \in Ids, CallerStep(e)
    PROVE  LoneInv'
<1>0. TypeOK /\ cpc[e] # "unused" /\ UNCHANGED <<call, delivered, refused>>
  <2>1. TypeOK
    BY DEF ExchangeInv
  <2> QED BY <2>1, CallerEffect
<1>1. /\ DOMAIN cpc = Ids /\ DOMAIN rpc = Ids /\ DOMAIN req = Ids
      /\ delivered \subseteq Ids /\ refused \subseteq Ids
  BY <1>0 DEF TypeOK
<1>2. /\ cpc[e] \in {"unused", "sign", "store"} => <<Caller(e), e>> \notin persisted
      /\ cpc[e] \in {"unused", "sign", "store", "forward"} => rpc[e] = "none"
      /\ rpc[e] \in {"none", "validate", "store"} => <<Receiver(e), e>> \notin persisted
      /\ e \in delivered \cup refused => rpc[e] = "done"
      /\ Lone(e) => /\ e \notin refused
                    /\ cpc[e] \in {"store", "forward", "waiting"} \/ rpc[e] # "none" => req[e] # 0
  BY DEF LoneInv, ChainOrder, LoneBound
<1>3. Caller(e) \in Adapters /\ Receiver(e) \in Adapters /\ Caller(e) # Receiver(e)
  BY DEF Caller, Receiver, Adapters
<1>4. CASE CallerFails(e)
  <2>1. /\ cpc' = [cpc EXCEPT ![e] = "done"]
        /\ UNCHANGED <<rpc, req, store, persisted, faults>>
    BY <1>4 DEF CallerFails, CallerRefuses, Refusals
  <2> QED BY <1>0, <1>1, <1>2, <2>1, LoneStep
<1>5. CASE SignStep(e)
  <2>1. /\ cpc[e] = "sign" /\ cpc' = [cpc EXCEPT ![e] = "store"]
        /\ UNCHANGED <<rpc, store, persisted>>
    BY <1>5 DEF SignStep
  <2>2. faults' = 0 => faults = 0
    BY <1>0, <1>5, FaultsRemain DEF SignStep
  <2>3. \A d \in Ids \ {e} : req'[d] = req[d]
    BY <1>1, <1>5 DEF SignStep
  <2>4. ASSUME Lone(e), faults' = 0 PROVE req'[e] # 0
    <3>1. V2 /\ call[e].kind = "callback"
      BY <2>4 DEF Lone, AnswersOne
    <3>2. req' = [req EXCEPT ![e] = GetByMessageID("bpp", call[e].msg)]
      BY <1>0, <1>5, <2>4, <3>1, FaultsRemain DEF SignStep
    <3>3. <<"bpp", e>> \notin persisted
      BY <1>2, <2>1, <3>1 DEF Caller
    <3>4. GetByMessageID("bpp", call[e].msg) # 0
      BY <2>4, <3>3, RequestOnRecord DEF Adapters
    <3> QED BY <1>1, <3>2, <3>4
  <2>5. cpc'[e] = "store" /\ \A d \in Ids \ {e} : cpc'[d] = cpc[d]
    BY <1>1, <2>1
  <2> QED BY <1>0, <1>2, <2>1, <2>2, <2>3, <2>4, <2>5, LoneStep
<1>6. CASE CallerStorePayload(e)
  <2>1. /\ cpc[e] = "store" /\ UNCHANGED <<rpc, req, faults>> /\ Persist(Caller(e), e)
        /\ cpc' = [cpc EXCEPT ![e] = "forward"] \/ cpc' = [cpc EXCEPT ![e] = "done"]
    BY <1>6 DEF CallerStorePayload, CallerRefuses
  <2>2. cpc'[e] \in {"forward", "done"} /\ \A d \in Ids \ {e} : cpc'[d] = cpc[d]
    BY <1>1, <2>1
  <2>3. <<Receiver(e), e>> \notin persisted'
    BY <1>2, <1>3, <2>1 DEF Persist
  <2> QED BY <1>0, <1>2, <1>3, <2>1, <2>2, <2>3, LoneStep
<1>7. CASE Forward(e)
  <2>1. /\ cpc[e] = "forward" /\ UNCHANGED <<req, store, persisted, faults>>
        /\ \/ cpc' = [cpc EXCEPT ![e] = "waiting"] /\ rpc' = [rpc EXCEPT ![e] = "validate"]
           \/ cpc' = [cpc EXCEPT ![e] = "done"] /\ UNCHANGED rpc
    BY <1>7 DEF Forward
  <2>2. /\ \A d \in Ids \ {e} : cpc'[d] = cpc[d] /\ rpc'[d] = rpc[d]
        /\ cpc'[e] \in {"waiting", "done"} /\ rpc'[e] \in {"none", "validate"}
    BY <1>1, <1>2, <2>1
  <2> QED BY <1>0, <1>2, <2>1, <2>2, LoneStep
<1>8. CASE Return(e)
  <2>1. /\ cpc' = [cpc EXCEPT ![e] = "done"] /\ cpc[e] = "waiting"
        /\ UNCHANGED <<rpc, req, store, persisted, faults>>
    BY <1>8 DEF Return
  <2> QED BY <1>0, <1>1, <1>2, <2>1, LoneStep
<1> QED BY <1>4, <1>5, <1>6, <1>7, <1>8 DEF CallerStep

\* A receiving handler moves on or answers; it refuses in validateSign only.
LEMMA ReceiverMoves ==
    ASSUME TypeOK, NEW e \in Ids, ReceiverStep(e)
    PROVE  /\ UNCHANGED <<call, cpc, req>> /\ (faults' = 0 => faults = 0)
           /\ \E l \in {"store", "route", "done"} :
                 /\ rpc' = [rpc EXCEPT ![e] = l]
                 /\ l = "store" => rpc[e] = "validate"
                 /\ (delivered' = delivered \/ (delivered' = delivered \cup {e} /\ l = "done"))
                 /\ \/ refused' = refused
                    \/ /\ refused' = refused \cup {e} /\ l = "done" /\ rpc[e] = "validate"
                       /\ ~Verifies(e) \/ faults' # 0
           /\ \/ UNCHANGED <<store, persisted>>
              \/ Persist(Receiver(e), e) /\ rpc[e] = "store"
           /\ rpc[e] # "none" /\ rpc[e] # "done"
<1>1. CASE ReceiverFails(e)
  BY <1>1, FaultsRemain, Outcomes DEF ReceiverFails, Respond
<1>2. CASE ValidateSign(e)
  BY <1>2, FaultsRemain, Outcomes DEF ValidateSign, Respond
<1>3. CASE ReceiverStorePayload(e)
  BY <1>3, FaultsRemain, Outcomes DEF ReceiverStorePayload, Respond, Persist
<1>4. CASE Proxy(e)
  BY <1>4, FaultsRemain, Outcomes DEF Proxy, SignAck, Respond
<1>5. CASE Publish(e)
  BY <1>5, FaultsRemain, Outcomes DEF Publish, SignAck, Respond
<1>6. CASE Provide(e)
  BY <1>6, FaultsRemain, Outcomes DEF Provide, SignAck, Respond
<1> QED BY <1>1, <1>2, <1>3, <1>4, <1>5, <1>6 DEF ReceiverStep

LEMMA LoneReceiver ==
    ASSUME ExchangeInv, LoneInv, NEW e \in Ids, ReceiverStep(e)
    PROVE  LoneInv'
<1>0. TypeOK
  BY DEF ExchangeInv
<1>1. /\ UNCHANGED <<call, cpc, req>> /\ (faults' = 0 => faults = 0)
      /\ \/ UNCHANGED <<store, persisted>>
         \/ Persist(Receiver(e), e) /\ rpc[e] = "store"
      /\ rpc[e] # "none" /\ rpc[e] # "done"
  BY <1>0, ReceiverMoves
<1>2. PICK l \in {"store", "route", "done"} :
         /\ rpc' = [rpc EXCEPT ![e] = l]
         /\ l = "store" => rpc[e] = "validate"
         /\ (delivered' = delivered \/ (delivered' = delivered \cup {e} /\ l = "done"))
         /\ \/ refused' = refused
            \/ /\ refused' = refused \cup {e} /\ l = "done" /\ rpc[e] = "validate"
               /\ ~Verifies(e) \/ faults' # 0
  BY <1>0, ReceiverMoves
<1>3. rpc'[e] = l /\ \A d \in Ids \ {e} : rpc'[d] = rpc[d]
  BY <1>0, <1>2 DEF TypeOK
<1>4. /\ cpc[e] \notin {"unused", "sign", "store", "forward"}
      /\ rpc[e] \in {"none", "validate", "store"} => <<Receiver(e), e>> \notin persisted
      /\ e \notin delivered /\ e \notin refused
      /\ Lone(e) => req[e] # 0
  BY <1>1 DEF LoneInv, ChainOrder, LoneBound
<1>5. l = "store" => <<Receiver(e), e>> \notin persisted'
  BY <1>1, <1>2, <1>4
<1>6. Lone(e) /\ faults' = 0 => e \notin refused'
  BY <1>2, <1>4, LoneVerifies
<1>7. Receiver(e) \in Adapters
  BY DEF Receiver, Adapters
<1> QED BY <1>1, <1>2, <1>3, <1>4, <1>5, <1>6, <1>7, LoneStep

LEMMA LoneExpire ==
    ASSUME ExchangeInv, LoneInv, NEW a \in Adapters, NEW m \in Messages, Expire(a, m)
    PROVE  LoneInv'
<1>0. TypeOK
  BY DEF ExchangeInv
<1>1. faults' # 0 /\ UNCHANGED <<call, cpc, rpc, req, persisted, delivered, refused>>
  BY <1>0 DEF Expire, Fault, TypeOK
<1>2. ChainOrder'
  BY <1>1 DEF LoneInv, ChainOrder, Caller, Receiver
<1>3. LatestEntry' /\ LoneBound'
  BY <1>1 DEF LatestEntry, LoneBound, Lone, AnswersOne
<1> QED BY <1>2, <1>3 DEF LoneInv

\* The invariant of the two caches holds throughout.
THEOREM LoneInvariant == Spec => []LoneInv
<1>1. Init => LoneInv
  <2> SUFFICES ASSUME Init PROVE LoneInv
    OBVIOUS
  <2>1. \A e \in Ids : cpc[e] = "unused" /\ rpc[e] = "none" /\ call[e].kind = "none"
    BY DEF Init
  <2> QED BY <2>1 DEF Init, LoneInv, ChainOrder, LatestEntry, LoneBound
<1>2. (ExchangeInv /\ LoneInv) /\ [Next]_vars => LoneInv'
  <2> SUFFICES ASSUME ExchangeInv, LoneInv, [Next]_vars PROVE LoneInv'
    OBVIOUS
  <2>1. CASE \E e \in Ids, m \in Messages : Request(e, m) \/ Callback(e, m)
    BY <2>1, LoneHand
  <2>2. CASE \E e \in Ids : CallerStep(e) \/ ReceiverStep(e)
    BY <2>2, LoneCaller, LoneReceiver
  <2>3. CASE \E a \in Adapters, m \in Messages : Expire(a, m)
    BY <2>3, LoneExpire
  <2>4. CASE UNCHANGED vars
    <3>1. ChainOrder' /\ LatestEntry'
      BY <2>4 DEF vars, LoneInv, ChainOrder, LatestEntry, Caller, Receiver
    <3>2. LoneBound'
      BY <2>4 DEF vars, LoneInv, LoneBound, Lone, AnswersOne, Siblings
    <3> QED BY <3>1, <3>2 DEF LoneInv
  <2> QED BY <2>1, <2>2, <2>3, <2>4 DEF Next, CallerStep, ReceiverStep
<1> QED BY <1>1, <1>2, ExchangeInvariant, PTL DEF Spec

\* A request's record and its callback meet whatever else goes on: an only
\* callback to a request sent once is bound to it when it is signed, and
\* validateSign accepts it (LoneCallbackAccepted), as long as nothing expires and
\* caches and keys work.
THEOREM LoneCallbackHolds == Spec => []LoneCallbackAccepted
<1>1. LoneInv => LoneCallbackAccepted
  <2> SUFFICES ASSUME LoneInv, NEW e \in Ids, Lone(e)
               PROVE  e \notin refused /\ (Accepted(e) => req[e] # 0)
    BY DEF LoneCallbackAccepted, Lone
  <2> QED BY DEF LoneInv, ChainOrder, LoneBound, Accepted
<1> QED BY <1>1, LoneInvariant, PTL

-----------------------------------------------------------------------------
(* The answers the applications read.                                      *)

\* An exchange whose 202 is under way, or has been read, is over on both sides
\* and was not handed over, a provider's apart.
Accepting ==
    \A e \in Ids :
        /\ resp[e].body = "accepted" =>
              /\ rpc[e] = "done"
              /\ Route(e) # "provider" => e \notin delivered
        /\ answer[e].body = "accepted" =>
              /\ cpc[e] = "done" /\ rpc[e] \in {"none", "done"}
              /\ Route(e) # "provider" => e \notin delivered

\* The receiving handler has not handed over what it accepts without a callback.
LEMMA AcceptingResponse ==
    ASSUME TypeOK, NEW e \in Ids, ReceiverStep(e),
           rpc[e] # "done", e \notin delivered, resp[e].body # "accepted"
    PROVE  resp'[e].body = "accepted" =>
              /\ rpc'[e] = "done"
              /\ Route(e) # "provider" => e \notin delivered'
<1> USE DEF TypeOK
<1>1. CASE ReceiverFails(e)
  BY <1>1, Outcomes DEF ReceiverFails, Respond
<1>2. CASE ValidateSign(e)
  BY <1>2, Outcomes DEF ValidateSign, Respond, Signed, Unsigned
<1>3. CASE ReceiverStorePayload(e)
  BY <1>3, Outcomes DEF ReceiverStorePayload, Respond, Signed, Unsigned
<1>4. CASE Proxy(e)
  BY <1>4, Outcomes DEF Proxy, SignAck, Respond, Signed, Unsigned
<1>5. CASE Publish(e)
  BY <1>5, Outcomes DEF Publish, SignAck, Respond, Signed, Unsigned
<1>6. CASE Provide(e)
  BY <1>6, Outcomes DEF Provide, SignAck, Respond, Signed, Unsigned
<1> QED BY <1>1, <1>2, <1>3, <1>4, <1>5, <1>6 DEF ReceiverStep

LEMMA AcceptingReceiver ==
    ASSUME ExchangeInv, LoneInv, Accepting, NEW e \in Ids, ReceiverStep(e)
    PROVE  Accepting'
<1>0. TypeOK
  BY DEF ExchangeInv
<1>1. UNCHANGED <<call, cpc, answer>> /\ rpc[e] # "none" /\ rpc[e] # "done"
  BY <1>0, ReceiverEffect, ReceiverMoves
<1>2. e \notin delivered
  BY <1>1 DEF LoneInv, ChainOrder
<1>3. \A d \in Ids \ {e} : /\ rpc'[d] = rpc[d] /\ resp'[d] = resp[d]
                           /\ d \in delivered' <=> d \in delivered
  <2>1. delivered' \in {delivered, delivered \cup {e}}
    BY <1>0, ReceiverEffect
  <2>2. \E l : rpc' = [rpc EXCEPT ![e] = l]
    BY <1>0, ReceiverMoves
  <2>3. resp' = resp \/ \E r : resp' = [resp EXCEPT ![e] = r]
    BY <1>0, ReceiverEffect DEF Respond
  <2> QED BY <1>0, <2>1, <2>2, <2>3 DEF TypeOK
<1>4. answer[e].body # "accepted" /\ resp[e].body # "accepted"
  BY <1>1 DEF Accepting
<1>5. resp'[e].body = "accepted" =>
         /\ rpc'[e] = "done"
         /\ Route(e) # "provider" => e \notin delivered'
  BY <1>0, <1>1, <1>2, <1>4, AcceptingResponse
<1> QED BY <1>1, <1>3, <1>4, <1>5 DEF Accepting, Route

LEMMA AcceptingCaller ==
    ASSUME ExchangeInv, LoneInv, Accepting, NEW e \in Ids, CallerStep(e)
    PROVE  Accepting'
<1>0. TypeOK
  BY DEF ExchangeInv
<1>1. /\ UNCHANGED <<call, delivered>>
      /\ \E pc : cpc' = [cpc EXCEPT ![e] = pc]
      /\ UNCHANGED rpc \/ rpc' = [rpc EXCEPT ![e] = "validate"]
      /\ resp' \in {resp, [resp EXCEPT ![e] = NoResponse]}
      /\ UNCHANGED answer \/ \E r : answer' = [answer EXCEPT ![e] = r]
  BY <1>0, CallerEffect
<1>2. \A d \in Ids \ {e} : /\ cpc'[d] = cpc[d] /\ rpc'[d] = rpc[d]
                           /\ resp'[d] = resp[d] /\ answer'[d] = answer[d]
  BY <1>0, <1>1 DEF TypeOK
<1>3. /\ cpc[e] \in {"sign", "store", "forward"} => rpc[e] = "none"
      /\ e \in delivered => rpc[e] = "done"
  BY DEF LoneInv, ChainOrder
<1>4. /\ resp'[e].body = "accepted" =>
            rpc'[e] = "done" /\ (Route(e) # "provider" => e \notin delivered)
      /\ answer'[e].body = "accepted" =>
            /\ cpc'[e] = "done" /\ rpc'[e] \in {"none", "done"}
            /\ Route(e) # "provider" => e \notin delivered
  <2>0. /\ resp[e].body = "accepted" =>
              rpc[e] = "done" /\ (Route(e) # "provider" => e \notin delivered)
        /\ answer[e].body = "accepted" => cpc[e] = "done"
    BY DEF Accepting
  <2> USE <1>0, <1>3, <2>0 DEF TypeOK, Unsigned
  <2>1. CASE CallerFails(e)
    BY <2>1 DEF CallerFails, CallerRefuses
  <2>2. CASE SignStep(e)
    BY <2>2 DEF SignStep
  <2>3. CASE CallerStorePayload(e)
    BY <2>3 DEF CallerStorePayload, CallerRefuses
  <2>4. CASE Forward(e)
    BY <2>4 DEF Forward
  <2>5. CASE Return(e)
    BY <2>5 DEF Return, NoResponse
  <2> QED BY <2>1, <2>2, <2>3, <2>4, <2>5 DEF CallerStep
<1> QED BY <1>1, <1>2, <1>4 DEF Accepting, Route

\* What an application reads is what was signed and is true of its message
\* (AnswersHonest): a positive answer means that it was handed over, the 202 of a
\* failing step that it was not.
THEOREM AnswersAreHonest == Spec => []AnswersHonest
<1>1. Init => Accepting
  BY DEF Init, Accepting, NoResponse
<1>2. ExchangeInv /\ LoneInv /\ Accepting /\ [Next]_vars => Accepting'
  <2> SUFFICES ASSUME ExchangeInv, LoneInv, Accepting, [Next]_vars PROVE Accepting'
    OBVIOUS
  <2>1. ASSUME NEW e \in Ids, NEW c, Hand(e, c) PROVE Accepting'
    <3>1. /\ cpc[e] = "unused" /\ rpc[e] = "none"
          /\ \A d \in Ids \ {e} : call'[d] = call[d] /\ cpc'[d] = cpc[d]
          /\ UNCHANGED <<rpc, resp, answer, delivered>>
      BY <2>1 DEF Hand, ExchangeInv, TypeOK, Fresh
    <3>2. resp[e].body # "accepted" /\ answer[e].body # "accepted"
      BY <3>1 DEF Accepting
    <3> QED BY <3>1, <3>2 DEF Accepting, Route
  <2>2. CASE \E e \in Ids : CallerStep(e) \/ ReceiverStep(e)
    BY <2>2, AcceptingCaller, AcceptingReceiver
  <2>3. CASE \E a \in Adapters, m \in Messages : Expire(a, m)
    BY <2>3 DEF Expire, Accepting, Route
  <2>4. CASE UNCHANGED vars
    BY <2>4 DEF vars, Accepting, Route
  <2> QED BY <2>1, <2>2, <2>3, <2>4, NextCases
<1>3. ExchangeInv /\ Accepting => AnswersHonest
  BY DEF ExchangeInv, Accepting, AnswersHonest, AcceptedGoesNoFurther
<1> QED BY <1>1, <1>2, <1>3, ExchangeInvariant, LoneInvariant, PTL DEF Spec
=============================================================================
