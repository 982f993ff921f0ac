--------------------------- MODULE RegistryLookup ---------------------------
(***************************************************************************)
(* The OAN registry client (sunbirdRegistry): the signing key of a caller, *)
(* the provider record behind a capability binding and the federation      *)
(* agreement with another network.  A call first asks the shared cache,    *)
(* then makes one or two searches, judges what they returned, caches a     *)
(* usable answer for KeyTTL and never a refusal.                           *)
(*                                                                         *)
(* Time is relative: `left` counts an entry's remaining life down, `idle`  *)
(* counts up how long a record has not permitted use.  A behaviour is      *)
(* about one subject (one cache key), since subjects share no state.       *)
(***************************************************************************)
EXTENDS Integers, Sequences

CONSTANTS
    Clients,   \* requests that may be asking at the same time
    KeyTTL,    \* cacheTTL; 0 switches caching off
    Wait,      \* longest time one search takes, its retries included
    States     \* per record, the states the registry may hold it in

ASSUME LookupAssumption == KeyTTL \in Nat /\ Wait \in Nat

VARIABLES
    subject,   \* what is looked up: "key", "plan" or "requester"
    reg,       \* the registry's records on the subject
    idle,      \* per record, time since it last permitted use (0 while it does)
    held,      \* the cache entry: remaining life, and whether it is well formed
    ask        \* each client's call

lookupVars == <<subject, reg, idle, held, ask>>

\* The searches a lookup makes, each naming the records its answer carries.
Searches(op) ==
    CASE op = "key"       -> << {"party", "signingKey"} >>
      [] op = "plan"      -> << {"binding"}, {"owner"} >>
      [] op = "requester" -> << {"agreement"} >>

Records(op) == UNION {Searches(op)[i] : i \in DOMAIN Searches(op)}

\* Only an explicitly permitting state permits: every other state denies.  A
\* caller we have no agreement with is an ordinary participant.
Permits(r, s) ==
    CASE r = "party"      -> s = "active"
      [] r = "signingKey" -> s = "active"
      [] r = "binding"    -> s = "active"
      [] r = "owner"      -> s = "active"
      [] r = "agreement"  -> s \in {"none", "requester"}

Subjects == {"key", "plan", "requester"}

Cacheable == subject \in {"key", "plan"} /\ KeyTTL > 0

\* No record can matter longer than this after it stopped permitting.
IdleCap == KeyTTL + 2 * Wait + 1

\* The verdict, how idle each record was when it was given (late), and whether
\* every record permitted from the call's start to its end (clean).
Call(pc, clean, verdict, late) ==
    [pc |-> pc, stage |-> 1, waited |-> 0, granted |-> FALSE, clean |-> clean,
     verdict |-> verdict, late |-> late]

Never == [r \in Records(subject) |-> 0]

Unasked == Call("idle", FALSE, "none", Never)

Usable == \A r \in DOMAIN reg : Permits(r, reg[r])

Asks ==
    [pc : {"idle", "search", "reply"}, stage : 1..Len(Searches(subject)), waited : 0..Wait,
     granted : BOOLEAN, clean : BOOLEAN, verdict : {"none", "served", "refused", "failed"},
     late : [Records(subject) -> 0..IdleCap]]

LookupTypeOK ==
    /\ subject \in Subjects
    /\ DOMAIN reg = Records(subject)
    /\ idle \in [Records(subject) -> 0..IdleCap]
    /\ held \in [left : 0..KeyTTL, wellFormed : BOOLEAN]
    /\ ask \in [Clients -> Asks]

\* A cache outlives a deploy, so it may start with another version's entry.
LookupInit ==
    /\ subject \in Subjects
    /\ reg \in {f \in [Records(subject) -> UNION {States[r] : r \in Records(subject)}] :
                  \A r \in DOMAIN f : f[r] \in States[r]}
    /\ idle = [r \in Records(subject) |-> IF Permits(r, reg[r]) THEN 0 ELSE IdleCap]
    /\ held \in {[left |-> 0, wellFormed |-> TRUE]}
          \cup (IF Cacheable THEN {[left |-> KeyTTL, wellFormed |-> FALSE]} ELSE {})
    /\ ask = [c \in Clients |-> Unasked]

Answer(c, verdict) ==
    ask' = [ask EXCEPT ![c] = Call("idle", ask[c].clean, verdict, idle)]

\* Mutant: a malformed entry is a hit.
Hit_Unchecked == Cacheable /\ held.left > 0

\* cached: an unreadable or malformed entry is no hit.
Hit == Cacheable /\ held.left > 0 /\ held.wellFormed

\* A call starts with the cache.
Lookup(c) ==
    /\ ask[c].pc = "idle"
    /\ ask' = [ask EXCEPT ![c] =
                 IF Hit THEN Call("idle", Usable, "served", idle)
                        ELSE Call("search", Usable, "none", Never)]
    /\ UNCHANGED <<subject, reg, idle, held>>

\* searchRecords: the registry answers with the records as they are now; the
\* answer still has to travel back.
SearchRecords(c) ==
    /\ ask[c].pc = "search"
    /\ ask' = [ask EXCEPT ![c] =
                 [@ EXCEPT !.pc = "reply",
                           !.granted = \A r \in Searches(subject)[ask[c].stage] : Permits(r, reg[r])]]
    /\ UNCHANGED <<subject, reg, idle, held>>

\* Mutant: an outage is reported as a refusal.
SearchFails_AsRefusal(c) ==
    /\ ask[c].pc \in {"search", "reply"}
    /\ Answer(c, "refused")
    /\ UNCHANGED <<subject, reg, idle, held>>

\* No answer within the client's patience, a status that is not 200, a body
\* over the limit or one that does not decode: an outage, not a refusal.
SearchFails(c) ==
    /\ ask[c].pc \in {"search", "reply"}
    /\ Answer(c, "failed")
    /\ UNCHANGED <<subject, reg, idle, held>>

\* cacheResult and cacheProviderRecord: only a usable answer, and for the
\* configured time only.  The write may fail, which is logged.
CacheResult(granted) ==
    \/ granted /\ Cacheable /\ held' = [left |-> KeyTTL, wellFormed |-> TRUE]
    \/ UNCHANGED held

\* The reply is judged: refused at the first search that does not permit,
\* on to the next search, or answered and cached.
Judge(c) ==
    /\ ask[c].pc = "reply"
    /\ IF ask[c].granted /\ ask[c].stage < Len(Searches(subject))
       THEN /\ ask' = [ask EXCEPT ![c] = [ask[c] EXCEPT !.pc = "search", !.stage = ask[c].stage + 1,
                                                        !.waited = 0]]
            /\ UNCHANGED held
       ELSE /\ Answer(c, IF ask[c].granted THEN "served" ELSE "refused")
            /\ CacheResult(ask[c].granted)
    /\ UNCHANGED <<subject, reg, idle>>

\* The Network Operator changes one record.
Operate(r, s) ==
    /\ reg[r] # s
    /\ reg' = [reg EXCEPT ![r] = s]
    /\ ask' = [c \in Clients |->
                 [ask[c] EXCEPT !.clean = @ /\ (ask[c].pc = "idle" \/ Permits(r, s))]]
    /\ idle' = [idle EXCEPT ![r] = IF Permits(r, s) THEN 0 ELSE @]
    /\ UNCHANGED <<subject, held>>

\* One unit of time, which no search outlives.
LookupTick ==
    /\ \A c \in Clients : ask[c].pc # "idle" => ask[c].waited < Wait
    /\ idle' = [r \in DOMAIN idle |->
                  IF Permits(r, reg[r]) THEN 0
                  ELSE IF idle[r] < IdleCap THEN idle[r] + 1 ELSE IdleCap]
    /\ held' = [held EXCEPT !.left = IF @ > 0 THEN @ - 1 ELSE 0]
    /\ ask' = [c \in Clients |->
                 IF ask[c].pc = "idle" THEN Unasked ELSE [ask[c] EXCEPT !.waited = @ + 1]]
    /\ UNCHANGED <<subject, reg>>

LookupNext ==
    \/ \E c \in Clients : Lookup(c) \/ SearchRecords(c) \/ SearchFails(c) \/ Judge(c)
    \/ \E r \in DOMAIN reg : \E s \in States[r] : Operate(r, s)
    \/ LookupTick

LookupSpec == LookupInit /\ [][LookupNext]_lookupVars

Window == (IF Cacheable THEN KeyTTL ELSE 0) + Len(Searches(subject)) * Wait

\* The suspension-propagation window: whatever a lookup serves, a key, a
\* provider's plan or leave to be answered, every record it rests on permitted
\* use no longer ago than the cache TTL plus the time the searches took; with
\* caching off only the latter remains.
SuspensionWindow ==
    \A c \in Clients :
        ask[c].verdict = "served" =>
            \A r \in Records(subject) : ask[c].late[r] <= Window

\* A reinstatement is seen at once: a lookup refuses only if some record did
\* not permit use at some moment of that very call, because refusals are never
\* cached and a failed search is not reported as a refusal.
RefusalIsCurrent ==
    \A c \in Clients : ask[c].verdict = "refused" => ~ask[c].clean
=============================================================================
