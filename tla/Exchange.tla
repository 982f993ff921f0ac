------------------------------ MODULE Exchange ------------------------------
(***************************************************************************)
(* The signed message exchange between two adapters.  A BAP adapter sends   *)
(* requests, a BPP adapter sends the callbacks that answer them, both under *)
(* the message id of the request.  One exchange is one HTTP call: the       *)
(* calling adapter runs the step chain of its Caller module (checkPolicy,   *)
(* addRoute, sign, validateSchema, storePayload, then the proxy), the other *)
(* one that of its Receiver module (validateSign, checkPolicy,              *)
(* validateSchema, addRoute, storePayload, then the route), and each side   *)
(* keeps the payload entry of a message id in its cache.                    *)
(*                                                                         *)
(* An Authorization header is the id of the exchange it was made for; a     *)
(* callback signed with the 4-line signing string also covers the header    *)
(* of a request, `req', and one signed with the 3-line string has req = 0.  *)
(* Every header made is taken to differ from the others (`created' has one  *)
(* second's resolution) and to be presented inside its validity window,     *)
(* else the step fails.  Steps that touch nothing shared are folded into    *)
(* the outcome `the chain fails here'.                                      *)
(***************************************************************************)
EXTENDS Naturals

CONSTANTS Messages,      \* message ids
          MaxExchanges,  \* bound: HTTP calls in a behaviour
          MaxFaults,     \* bound: cache read errors, expiries, key failures
          Provided,      \* messages served by a provider module, no callback
          Published,     \* messages whose callbacks go to the message queue
          V2,            \* protocol version 2.0.0 or later?
          SharedCache    \* do both adapters use one cache?

ASSUME ExchangeAssumption ==
    /\ MaxExchanges \in Nat /\ MaxFaults \in Nat
    /\ Provided \subseteq Messages /\ Published \subseteq Messages
    /\ V2 \in BOOLEAN /\ SharedCache \in BOOLEAN

VARIABLES call,       \* what each exchange carries
          cpc,        \* where the calling adapter's handler is
          rpc,        \* where the receiving adapter's handler is
          req,        \* the request header its signature covers, 0 if none
          store,      \* payload entries per cache and message id
          resp,       \* what the receiving adapter wrote, not yet read
          answer,     \* what the calling application got
          persisted,  \* history: <<adapter, exchange>> whose entry was written
          delivered,  \* history: exchanges handed to an application
          refused,    \* history: exchanges refused by validateSign's lookup
          faults

vars == <<call, cpc, rpc, req, store, resp, answer, persisted, delivered,
          refused, faults>>

Ids == 1 .. MaxExchanges
Adapters == {"bap", "bpp"}

\* What a response says: "accepted" is the 202 with status ACK and the reason why
\* no callback will follow, "app" the peer application's own response and
\* "answer" that of a provider step.
Bodies == {"ack", "nack", "accepted", "app", "answer", "502"}

\* nackBecknError: an error is answered with a NACK, but a step may return an
\* AckNoCallbackErr, whose status, from v2 on, is what the step has put there.
Refusals == IF V2 THEN {"nack", "accepted"} ELSE {"nack"}

NoEntry == [action |-> "none", sig |-> 0]
NoResponse == [body |-> "none", sig |-> "none"]
Signed(body) == [body |-> body, sig |-> body]
Unsigned(body) == [body |-> body, sig |-> "none"]

Calls == [kind : {"request", "callback"}, msg : Messages]

TypeOK ==
    /\ call \in [Ids -> Calls \cup {[kind |-> "none"]}]
    /\ cpc \in [Ids -> {"unused", "sign", "store", "forward", "waiting", "done"}]
    /\ rpc \in [Ids -> {"none", "validate", "store", "route", "done"}]
    /\ req \in [Ids -> 0 .. MaxExchanges]
    /\ store \in [Adapters -> [Messages ->
          [action : {"none", "request", "callback"}, sig : 0 .. MaxExchanges]]]
    /\ resp \in [Ids -> [body : Bodies \cup {"none"}, sig : Bodies \cup {"none"}]]
    /\ answer \in [Ids -> [body : Bodies \cup {"none"}, sig : Bodies \cup {"none"}]]
    /\ persisted \subseteq Adapters \X Ids
    /\ delivered \subseteq Ids
    /\ refused \subseteq Ids
    /\ faults \in 0 .. MaxFaults

Init ==
    /\ call = [e \in Ids |-> [kind |-> "none"]]
    /\ cpc = [e \in Ids |-> "unused"]
    /\ rpc = [e \in Ids |-> "none"]
    /\ req = [e \in Ids |-> 0]
    /\ store = [a \in Adapters |-> [m \in Messages |-> NoEntry]]
    /\ resp = [e \in Ids |-> NoResponse]
    /\ answer = [e \in Ids |-> NoResponse]
    /\ persisted = {} /\ delivered = {} /\ refused = {}
    /\ faults = 0

\* deriveDirection: a BAP calls with requests and receives on_* actions, a BPP
\* the other way round.
Caller(e) == IF call[e].kind = "request" THEN "bap" ELSE "bpp"
Receiver(e) == IF call[e].kind = "request" THEN "bpp" ELSE "bap"

\* Where the Receiver module's routing rules send the exchange: to the
\* application's URL, to a publisher, or nowhere in a module with provider
\* steps (which has neither addRoute nor storePayload).
Route(e) ==
    IF call[e].msg \in Provided THEN "provider"
    ELSE IF call[e].kind = "callback" /\ call[e].msg \in Published
    THEN "publisher" ELSE "url"

\* The keys of the payload store have a fixed namespace, so adapters on one
\* cache share the entries.
CacheOf(a) == IF SharedCache THEN "bap" ELSE a

Fault == faults < MaxFaults /\ faults' = faults + 1

-----------------------------------------------------------------------------
(* The payload store.                                                      *)

\* Mutant: the entry's action is not compared.
GetByMessageID_AnyAction(a, m) == store[CacheOf(a)][m].sig

\* The signature on record for the request m, 0 when the entry is missing or
\* is for another action than the request's.
GetByMessageID(a, m) ==
    LET entry == store[CacheOf(a)][m]
    IN  IF entry.action = "request" THEN entry.sig ELSE 0

\* Store at adapter a: the message's entry is overwritten whatever it was.
Persist(a, e) ==
    /\ store' = [store EXCEPT ![CacheOf(a)][call[e].msg] =
                    [action |-> call[e].kind, sig |-> e]]
    /\ persisted' = persisted \cup {<<a, e>>}

\* An entry's ttl runs out.
Expire(a, m) ==
    /\ store[a][m] # NoEntry
    /\ Fault
    /\ store' = [store EXCEPT ![a][m] = NoEntry]
    /\ UNCHANGED <<call, cpc, rpc, req, resp, answer, persisted, delivered,
                   refused>>

-----------------------------------------------------------------------------
(* The calling adapter.                                                    *)

Hand(e, c) ==
    /\ cpc[e] = "unused"
    /\ \A d \in Ids : d < e => cpc[d] # "unused"
    /\ call' = [call EXCEPT ![e] = c]
    /\ cpc' = [cpc EXCEPT ![e] = "sign"]
    /\ UNCHANGED <<rpc, req, store, resp, answer, persisted, delivered,
                   refused, faults>>

\* The BAP application sends a request, or sends it again under its id.
Request(e, m) == Hand(e, [kind |-> "request", msg |-> m])

\* The BPP application answers a request it was handed; it may answer more
\* than once.
Callback(e, m) ==
    /\ m \notin Provided
    /\ \E d \in delivered : call[d].kind = "request" /\ call[d].msg = m
    /\ Hand(e, [kind |-> "callback", msg |-> m])

\* The caller's own step fails: a refusal, which a Caller module does not sign.
CallerRefuses(e, body) ==
    /\ cpc[e] \in {"sign", "store"}
    /\ cpc' = [cpc EXCEPT ![e] = "done"]
    /\ answer' = [answer EXCEPT ![e] = Unsigned(body)]
    /\ UNCHANGED <<call, rpc, req, resp, delivered, refused, faults>>

\* checkPolicy, addRoute, sign, validateSchema or a step plugin fails, or the
\* cache refuses the entry.
CallerFails(e) ==
    /\ \E body \in Refusals : CallerRefuses(e, body)
    /\ UNCHANGED <<store, persisted>>

\* signStep: a callback is signed over the request on record for its message,
\* if there is one; a failing lookup degrades to the 3-line string.  Before v2
\* the body carries no messageId for the lookup to find.
SignStep(e) ==
    /\ cpc[e] = "sign"
    /\ cpc' = [cpc EXCEPT ![e] = "store"]
    /\ LET lookup == V2 /\ call[e].kind = "callback"
       IN  \/ /\ lookup
              /\ req' = [req EXCEPT ![e] = GetByMessageID("bpp", call[e].msg)]
              /\ UNCHANGED faults
           \/ ~lookup /\ UNCHANGED <<req, faults>>
           \/ lookup /\ Fault /\ UNCHANGED req
    /\ UNCHANGED <<call, rpc, store, resp, answer, persisted, delivered,
                   refused>>

\* storePayload in the Caller chain; when only the transaction index cannot
\* be written the call fails with the entry in place.
CallerStorePayload(e) ==
    /\ cpc[e] = "store"
    /\ Persist(Caller(e), e)
    /\ \/ /\ cpc' = [cpc EXCEPT ![e] = "forward"]
          /\ UNCHANGED <<call, rpc, req, resp, answer, delivered, refused,
                         faults>>
       \/ CallerRefuses(e, "nack")

\* proxy: the call goes out; the receiver cannot be reached, or it can.
Forward(e) ==
    /\ cpc[e] = "forward"
    /\ \/ /\ cpc' = [cpc EXCEPT ![e] = "waiting"]
          /\ rpc' = [rpc EXCEPT ![e] = "validate"]
          /\ UNCHANGED answer
       \/ /\ cpc' = [cpc EXCEPT ![e] = "done"]
          /\ answer' = [answer EXCEPT ![e] = Unsigned("502")]
          /\ UNCHANGED rpc
    /\ UNCHANGED <<call, req, store, resp, persisted, delivered, refused,
                   faults>>

\* The receiver's response comes back; validateAckSign looks at its Signature
\* and lets it through whatever it finds.  Or the call timed out or the
\* connection broke, and the proxy answers 502 while the receiver goes on.
Return(e) ==
    /\ cpc[e] = "waiting"
    /\ cpc' = [cpc EXCEPT ![e] = "done"]
    /\ \/ rpc[e] = "done" /\ answer' = [answer EXCEPT ![e] = resp[e]]
       \/ answer' = [answer EXCEPT ![e] = Unsigned("502")]
    /\ resp' = [resp EXCEPT ![e] = NoResponse]
    /\ UNCHANGED <<call, rpc, req, store, persisted, delivered, refused, faults>>

-----------------------------------------------------------------------------
(* The receiving adapter.                                                  *)

\* The response is written, to nobody if the caller has gone.
Respond(e, response) ==
    /\ rpc' = [rpc EXCEPT ![e] = "done"]
    /\ resp' = IF cpc[e] = "waiting" THEN [resp EXCEPT ![e] = response] ELSE resp

\* signNackResponse, then sendNack: signing is best effort.
Refuse(e, body) ==
    \/ V2 /\ Respond(e, Signed(body)) /\ UNCHANGED faults
    \/ ~V2 /\ Respond(e, Unsigned(body)) /\ UNCHANGED faults
    \/ V2 /\ Fault /\ Respond(e, Unsigned(body))

Nack(e) == Refuse(e, "nack")

\* The NACK for a v2 step that failed on the cache or the key manager, which
\* may be back by the time the NACK is signed, or not.
FaultNack(e) ==
    /\ Fault
    /\ Respond(e, Signed("nack")) \/ Respond(e, Unsigned("nack"))

\* The response steps: ackSigner signs `body', or fails, and `failed' is what
\* happens then.
SignAck(e, body, failed) ==
    \/ V2 /\ Respond(e, Signed(body)) /\ UNCHANGED faults
    \/ ~V2 /\ Respond(e, Unsigned(body)) /\ UNCHANGED faults
    \/ V2 /\ failed

\* A step of the Receiver chain fails: the key lookup, the validity window,
\* checkPolicy, validateSchema, addRoute, a step plugin, the cache.
ReceiverFails(e) ==
    /\ rpc[e] \in {"validate", "store"}
    /\ \E body \in Refusals : Refuse(e, body)
    /\ UNCHANGED <<call, cpc, req, store, answer, persisted, delivered, refused>>

\* Mutant: the "on_" prefix stays on the action that is looked up.
Verifies_OnAction(e) ==
    req[e] # 0 =>
        store[CacheOf("bap")][call[e].msg] = [action |-> "callback", sig |-> req[e]]

\* lookupCallbackRequestSig and validate: a 4-line header must cover the
\* request on record for the message.
Verifies(e) ==
    req[e] # 0 => V2 /\ GetByMessageID("bap", call[e].msg) = req[e]

\* validateSignStep; the lookup may find no entry because the cache fails.
ValidateSign(e) ==
    /\ rpc[e] = "validate"
    /\ \/ /\ Verifies(e)
          /\ rpc' = [rpc EXCEPT ![e] =
                IF Route(e) = "provider" THEN "route" ELSE "store"]
          /\ UNCHANGED <<resp, refused, faults>>
       \/ /\ ~Verifies(e)
          /\ refused' = refused \cup {e}
          /\ Nack(e)
       \/ /\ req[e] # 0
          /\ refused' = refused \cup {e}
          /\ FaultNack(e)
    /\ UNCHANGED <<call, cpc, req, store, answer, persisted, delivered>>

\* storePayload in the Receiver chain, with the same partial failure.
ReceiverStorePayload(e) ==
    /\ rpc[e] = "store"
    /\ Persist(Receiver(e), e)
    /\ \/ rpc' = [rpc EXCEPT ![e] = "route"] /\ UNCHANGED <<resp, faults>>
       \/ Nack(e)
    /\ UNCHANGED <<call, cpc, req, answer, delivered, refused>>

\* proxy to the application: its response is signed as it comes; when it
\* cannot be had, or cannot be signed, ReverseProxy's own 502 goes out.
Proxy(e) ==
    /\ rpc[e] = "route"
    /\ Route(e) = "url"
    /\ \/ /\ delivered' = delivered \cup {e}
          /\ SignAck(e, "app", Fault /\ Respond(e, Unsigned("502")))
       \/ /\ delivered' \in {delivered, delivered \cup {e}}
          /\ Respond(e, Unsigned("502"))
          /\ UNCHANGED faults
    /\ UNCHANGED <<call, cpc, req, store, answer, persisted, refused>>

\* route to the publisher: published and acknowledged, or a NACK.
Publish(e) ==
    /\ rpc[e] = "route"
    /\ Route(e) = "publisher"
    /\ \/ /\ delivered' = delivered \cup {e}
          /\ SignAck(e, "ack", FaultNack(e))
       \/ UNCHANGED delivered /\ Nack(e)
    /\ UNCHANGED <<call, cpc, req, store, answer, persisted, refused>>

\* Mutant: the envelope is checked after the answer was signed.
Provide_LateRefusal(e) ==
    /\ rpc[e] = "route"
    /\ Route(e) = "provider"
    /\ \/ UNCHANGED delivered /\ \E body \in Refusals : Refuse(e, body)
       \/ /\ delivered' = delivered \cup {e}
          /\ \/ \E body \in Refusals : Refuse(e, body)
             \/ SignAck(e, "answer", FaultNack(e))
             \/ V2 /\ Respond(e, [body |-> "nack", sig |-> "answer"]) /\ UNCHANGED faults
    /\ UNCHANGED <<call, cpc, req, store, answer, persisted, refused>>

\* No route, in a module with provider steps: a provider step fails before or
\* after it has called the provider, no step answered (404), the answer is not
\* an envelope, or it is signed and sent.
Provide(e) ==
    /\ rpc[e] = "route"
    /\ Route(e) = "provider"
    /\ \/ UNCHANGED delivered /\ \E body \in Refusals : Refuse(e, body)
       \/ /\ delivered' = delivered \cup {e}
          /\ \/ \E body \in Refusals : Refuse(e, body)
             \/ SignAck(e, "answer", FaultNack(e))
    /\ UNCHANGED <<call, cpc, req, store, answer, persisted, refused>>

-----------------------------------------------------------------------------

Next ==
    \/ \E e \in Ids, m \in Messages : Request(e, m) \/ Callback(e, m)
    \/ \E e \in Ids :
          \/ CallerFails(e) \/ SignStep(e) \/ CallerStorePayload(e)
          \/ Forward(e) \/ Return(e)
          \/ ReceiverFails(e) \/ ValidateSign(e) \/ ReceiverStorePayload(e)
          \/ Proxy(e) \/ Publish(e) \/ Provide(e)
    \/ \E a \in Adapters, m \in Messages : Expire(a, m)

Spec == Init /\ [][Next]_vars

-----------------------------------------------------------------------------

\* The receiver accepted the exchange's signature.
Accepted(e) == rpc[e] \in {"store", "route"} \/ e \in delivered

\* What a callback's signature is bound to is a request of its own message,
\* one the BAP signed and put on record before sending and the BPP had put on
\* record after verifying it: never another callback, nor a request that never
\* went out (newSignStep: "cryptographically binding the callback to the CN's
\* original request").
BoundToOwnRequest ==
    \A e \in Ids :
        req[e] # 0 =>
            /\ call[e].kind = "callback"
            /\ req[e] \in Ids
            /\ call[req[e]].kind = "request"
            /\ call[req[e]].msg = call[e].msg
            /\ <<"bap", req[e]>> \in persisted
            /\ <<"bpp", req[e]>> \in persisted \/ SharedCache

\* A Signature header, where there is one, covers the body it is sent with:
\* no path signs one body and writes another.
SignatureCoversBody ==
    \A e \in Ids :
        answer[e].sig # "none" => answer[e].sig = answer[e].body

\* An application that reads an ACK, or the peer application's own answer,
\* can rely on its message having been handed over.
AckMeansDelivered ==
    \A e \in Ids :
        answer[e].body \in {"ack", "app", "answer"} => e \in delivered

\* One that reads the 202 of a failing step (AckNoCallbackErr) can rely on its
\* message having gone no further, a provider step apart, which may return that
\* error after it has called the provider.
AcceptedGoesNoFurther ==
    \A e \in Ids :
        answer[e].body = "accepted" /\ Route(e) # "provider" => e \notin delivered

\* What an application reads is true of its message and is what the Signature
\* beside it covers, whichever step fails and however late: a message is not
\* refused, or accepted without a callback, after it was handed over or after a
\* Signature over another body was made (ServeHTTP, route, nackBecknError).
AnswersHonest == SignatureCoversBody /\ AckMeansDelivered /\ AcceptedGoesNoFurther

\* Nothing reaches an application before both adapters have it on record: the
\* outbound Authorization is persisted before forwarding, and the inbound one
\* before the application that may answer it sees the message.
RecordedBeforeDelivered ==
    \A e \in delivered :
        /\ <<Caller(e), e>> \in persisted
        /\ Route(e) # "provider" => <<Receiver(e), e>> \in persisted

\* The other exchanges under the same message id.
Siblings(e, k) ==
    {d \in Ids \ {e} : call[d].kind = k /\ call[d].msg = call[e].msg}

\* e is a callback to a request that was sent once, in a run in which no entry
\* expired and caches and keys worked.
AnswersOne(e) ==
    /\ call[e].kind = "callback"
    /\ \A c, d \in Siblings(e, "request") : c = d
    /\ faults = 0

\* The only callback to a request sent once is bound to that request and is
\* not refused for it, when each adapter has a cache of its own: no other step
\* of the two chains comes between the request's record and the callback.
LoneCallbackAccepted ==
    \A e \in Ids :
        /\ V2 /\ ~SharedCache
        /\ AnswersOne(e)
        /\ Siblings(e, "callback") = {}
        => /\ e \notin refused
           /\ Accepted(e) => req[e] # 0

\* validateSign refuses a callback with "callback may be unsolicited or entry
\* expired" (lookupCallbackRequestSig), so one that answers a delivered
\* request, with nothing expired, is not refused, be it the first or not.
SolicitedNotRefused ==
    \A e \in refused : ~AnswersOne(e)
=============================================================================
