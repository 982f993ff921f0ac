------------------------- MODULE StepPluginsProofs -------------------------
(***************************************************************************)
(* Proofs about the plugins behind the handler's steps, for any number of  *)
(* clients, readers, requests and messages and any lifetimes.              *)
(*                                                                         *)
(* The registry client: the suspension window and the currency of          *)
(* refusals.  The manifest loader: the age of what it hands out.  The      *)
(* policy checker: the policies in force.  The mediator: messages are      *)
(* translated whole, in a bounded cache of artifacts.  Each part has an    *)
(* inductive invariant of its own (LookupInv, LoaderInv, PolicyInv,        *)
(* MediationInv); StepPlugins runs them side by side.                      *)
(***************************************************************************)
EXTENDS StepPlugins, TLAPS

-----------------------------------------------------------------------------
(* The registry client.                                                    *)

N == Len(Searches(subject))

\* A record that permits use has not been idle at all.
PermittedIsFresh == \A r \in Records(subject) : Permits(r, reg[r]) => idle[r] = 0

\* What is cached was read no longer before it was cached than the searches
\* took, and has aged with its entry since.
HeldRecent ==
    held.left > 0 /\ held.wellFormed =>
        \A r \in Records(subject) : idle[r] <= KeyTTL - held.left + N * Wait

\* The records of the searches already judged, and of the one just answered.
Recent(c) ==
    ask[c].pc # "idle" =>
        /\ \A i \in 1..(ask[c].stage - 1) : \A r \in Searches(subject)[i] :
              idle[r] <= (ask[c].stage - 1) * Wait + ask[c].waited
        /\ ask[c].pc = "reply" /\ ask[c].granted =>
              \A r \in Searches(subject)[ask[c].stage] : idle[r] <= ask[c].waited

\* A call that found nothing denied so far finds nothing denied now, and a
\* reply that denies belongs to a call that has.
Clean(c) ==
    ask[c].pc # "idle" =>
        /\ ask[c].clean => Usable
        /\ ask[c].pc = "reply" /\ ~ask[c].granted => ~ask[c].clean

\* SuspensionWindow and RefusalIsCurrent, of one call.
Windowed(c) ==
    ask[c].verdict = "served" => \A r \in Records(subject) : ask[c].late[r] <= Window

Current(c) == ask[c].verdict = "refused" => ~ask[c].clean

LookupInv ==
    /\ LookupTypeOK
    /\ PermittedIsFresh
    /\ HeldRecent
    /\ \A c \in Clients : Recent(c) /\ Clean(c) /\ Windowed(c) /\ Current(c)

\* A lookup makes one search or two, and between them they read its records.
LEMMA SearchShape ==
    ASSUME NEW op \in Subjects
    PROVE  /\ Len(Searches(op)) \in {1, 2}
           /\ \A i \in 1..Len(Searches(op)) : Searches(op)[i] \subseteq Records(op)
           /\ \A r \in Records(op) : \E i \in 1..Len(Searches(op)) : r \in Searches(op)[i]
<1>1. CASE op = "key"
  <2>1. Searches(op) = << {"party", "signingKey"} >>
    BY <1>1 DEF Searches
  <2> QED BY <2>1 DEF Records
<1>2. CASE op = "plan"
  <2>1. Searches(op) = << {"binding"}, {"owner"} >>
    BY <1>2 DEF Searches
  <2> QED BY <2>1 DEF Records
<1>3. CASE op = "requester"
  <2>1. Searches(op) = << {"agreement"} >>
    BY <1>3 DEF Searches
  <2> QED BY <2>1 DEF Records
<1> QED BY <1>1, <1>2, <1>3 DEF Subjects

\* A call just begun or just answered is well typed.
LEMMA CallTyped ==
    ASSUME subject \in Subjects, NEW pc \in {"idle", "search", "reply"}, NEW b \in BOOLEAN,
           NEW v \in {"none", "served", "refused", "failed"},
           NEW l \in [Records(subject) -> 0..IdleCap]
    PROVE  Call(pc, b, v, l) \in Asks
<1>0. Len(Searches(subject)) \in {1, 2} /\ Wait \in Nat
  BY LookupAssumption, SearchShape
<1>1. 1 \in 1..Len(Searches(subject)) /\ 0 \in 0..Wait
  BY <1>0
<1> QED BY <1>1 DEF Asks, Call

LEMMA InitInv == LookupInit => LookupInv
<1> SUFFICES ASSUME LookupInit PROVE LookupInv
  OBVIOUS
<1> USE LookupAssumption
<1>1. subject \in Subjects /\ DOMAIN reg = Records(subject)
  BY DEF LookupInit
<1>2. N \in {1, 2}
  BY <1>1, SearchShape DEF N
<1>3. IdleCap \in Nat
  BY DEF IdleCap
<1>4. held \in [left : 0..KeyTTL, wellFormed : BOOLEAN]
  <2>1. held = [left |-> 0, wellFormed |-> TRUE] \/ held = [left |-> KeyTTL, wellFormed |-> FALSE]
    BY DEF LookupInit
  <2>2. 0 \in 0..KeyTTL /\ KeyTTL \in 0..KeyTTL
    OBVIOUS
  <2>3. [left |-> 0, wellFormed |-> TRUE] \in [left : 0..KeyTTL, wellFormed : BOOLEAN]
    BY <2>2, Zenon
  <2>4. [left |-> KeyTTL, wellFormed |-> FALSE] \in [left : 0..KeyTTL, wellFormed : BOOLEAN]
    BY <2>2, Zenon
  <2> QED BY <2>1, <2>3, <2>4, Zenon
<1>5. \A c \in Clients : ask[c] = Unasked /\ Unasked \in Asks
  <2>1. [r \in Records(subject) |-> 0] \in [Records(subject) -> 0..IdleCap]
    BY <1>3
  <2>2. Unasked \in Asks
    BY <1>1, <2>1, CallTyped DEF Unasked, Never
  <2> QED BY <2>2 DEF LookupInit
<1>6. LookupTypeOK
  BY <1>1, <1>3, <1>4, <1>5 DEF LookupInit, LookupTypeOK
<1>7. PermittedIsFresh
  BY DEF LookupInit, PermittedIsFresh
<1>8. HeldRecent
  BY DEF LookupInit, HeldRecent
<1>9. \A c \in Clients : Recent(c) /\ Clean(c) /\ Windowed(c) /\ Current(c)
  <2>1. \A c \in Clients : ask[c].pc = "idle" /\ ask[c].verdict = "none"
    <3>1. Unasked.pc = "idle" /\ Unasked.verdict = "none"
      BY DEF Unasked, Call
    <3> QED BY <1>5, <3>1
  <2> QED BY <2>1 DEF Recent, Clean, Windowed, Current
<1> QED BY <1>6, <1>7, <1>8, <1>9 DEF LookupInv

\* The two that follow are used by every step that answers a call.
LEMMA AnswerTyped ==
    ASSUME LookupInv, NEW c \in Clients, NEW v \in {"served", "refused", "failed"}, Answer(c, v)
    PROVE  /\ ask' \in [Clients -> Asks]
           /\ ask'[c].pc = "idle" /\ ask'[c].verdict = v
           /\ ask'[c].late = idle /\ ask'[c].clean = ask[c].clean
           /\ \A d \in Clients \ {c} : ask'[d] = ask[d]
<1>1. subject \in Subjects /\ ask \in [Clients -> Asks] /\ idle \in [Records(subject) -> 0..IdleCap]
  BY DEF LookupInv, LookupTypeOK
<1>2. ask[c].clean \in BOOLEAN
  BY <1>1 DEF Asks
<1>3. Call("idle", ask[c].clean, v, idle) \in Asks
  <2>1. v \in {"none", "served", "refused", "failed"} /\ "idle" \in {"idle", "search", "reply"}
    OBVIOUS
  <2> QED BY <1>1, <1>2, <2>1, CallTyped, Zenon
<1>4. ask' = [ask EXCEPT ![c] = Call("idle", ask[c].clean, v, idle)]
  BY DEF Answer
<1>5. ask' \in [Clients -> Asks] /\ \A d \in Clients \ {c} : ask'[d] = ask[d]
  BY <1>1, <1>3, <1>4
<1>6. ask'[c] = Call("idle", ask[c].clean, v, idle)
  BY <1>1, <1>4
<1> QED BY <1>5, <1>6 DEF Call

\* A served call's records were all read within the time its searches took.
LEMMA GrantedRecent ==
    ASSUME LookupInv, NEW c \in Clients, ask[c].pc = "reply", ask[c].granted,
           ~(ask[c].stage < Len(Searches(subject)))
    PROVE  \A r \in Records(subject) : idle[r] <= N * Wait
<1> USE LookupAssumption
<1> SUFFICES ASSUME NEW r \in Records(subject) PROVE idle[r] <= N * Wait
  OBVIOUS
<1>1. /\ subject \in Subjects /\ N \in {1, 2} /\ ask[c] \in Asks
      /\ idle[r] \in Int
  BY SearchShape DEF LookupInv, LookupTypeOK, N
<1>2. ask[c].stage = N /\ ask[c].waited \in 0..Wait
  BY <1>1 DEF Asks, N
<1>3. PICK i \in 1..N : r \in Searches(subject)[i]
  BY <1>1, SearchShape DEF N
<1>4. CASE i = N
  <2>1. idle[r] <= ask[c].waited
    BY <1>2, <1>3, <1>4 DEF LookupInv, Recent
  <2> QED BY <2>1, <1>1, <1>2
<1>5. CASE i # N
  <2>1. N = 2 /\ i = 1
    BY <1>1, <1>3, <1>5
  <2>2. idle[r] <= (ask[c].stage - 1) * Wait + ask[c].waited
    BY <1>2, <1>3, <2>1 DEF LookupInv, Recent
  <2> QED BY <2>1, <2>2, <1>1, <1>2
<1> QED BY <1>4, <1>5

LEMMA WindowBound ==
    ASSUME subject \in Subjects
    PROVE  /\ N * Wait \in Nat
           /\ Window \in Nat
           /\ N * Wait <= Window
           /\ Cacheable => Window = KeyTTL + N * Wait
<1>1. N \in {1, 2}
  BY SearchShape DEF N
<1>2. N * Wait \in Nat
  BY <1>1, LookupAssumption
<1> QED BY <1>2, LookupAssumption DEF Window, N

\* A step of one client, the registry standing still, need only be looked at
\* from that client and from the cache.
LEMMA OneCall ==
    ASSUME LookupInv, NEW c \in Clients, UNCHANGED <<subject, reg, idle>>,
           ask' \in [Clients -> Asks], \A d \in Clients \ {c} : ask'[d] = ask[d],
           held' \in [left : 0..KeyTTL, wellFormed : BOOLEAN], HeldRecent',
           Recent(c)', Clean(c)', Windowed(c)', Current(c)'
    PROVE  LookupInv'
<1>1. LookupTypeOK'
  BY DEF LookupInv, LookupTypeOK, Asks, IdleCap
<1>2. PermittedIsFresh'
  BY DEF LookupInv, PermittedIsFresh
<1>3. ASSUME NEW d \in Clients PROVE (Recent(d) /\ Clean(d) /\ Windowed(d) /\ Current(d))'
  <2>1. CASE d = c
    BY <2>1
  <2>2. CASE d # c
    <3>1. ask'[d] = ask[d]
      BY <2>2
    <3>2. Recent(d) /\ Clean(d) /\ Windowed(d) /\ Current(d)
      BY DEF LookupInv
    <3>3. Recent(d)'
      BY <3>1, <3>2 DEF Recent
    <3>4. Clean(d)'
      BY <3>1, <3>2 DEF Clean, Usable
    <3>5. Windowed(d)' /\ Current(d)'
      BY <3>1, <3>2 DEF Windowed, Current, Window, Cacheable
    <3> QED BY <3>3, <3>4, <3>5
  <2> QED BY <2>1, <2>2
<1> QED BY <1>1, <1>2, <1>3 DEF LookupInv

\* held stands still together with what it rests on.
LEMMA HeldStands ==
    ASSUME LookupInv, UNCHANGED <<subject, idle, held>>
    PROVE  held' \in [left : 0..KeyTTL, wellFormed : BOOLEAN] /\ HeldRecent'
BY DEF LookupInv, LookupTypeOK, HeldRecent, N

LEMMA LookupStep ==
    ASSUME LookupInv, NEW c \in Clients, Lookup(c)
    PROVE  LookupInv'
<1> USE LookupAssumption
<1>1. /\ subject \in Subjects /\ ask \in [Clients -> Asks]
      /\ idle \in [Records(subject) -> 0..IdleCap]
      /\ held \in [left : 0..KeyTTL, wellFormed : BOOLEAN]
  BY DEF LookupInv, LookupTypeOK
<1>2. UNCHANGED <<subject, reg, idle, held>>
  BY DEF Lookup
<1>3. Usable \in BOOLEAN
  BY Zenon DEF Usable
<1>4. CASE Hit
  <2>1. ask' = [ask EXCEPT ![c] = Call("idle", Usable, "served", idle)]
    BY <1>4 DEF Lookup
  <2>2. Call("idle", Usable, "served", idle) \in Asks
    BY <1>1, <1>3, CallTyped, Zenon
  <2>3. /\ ask' \in [Clients -> Asks] /\ \A d \in Clients \ {c} : ask'[d] = ask[d]
        /\ ask'[c] = Call("idle", Usable, "served", idle)
    BY <1>1, <2>1, <2>2
  <2>4. ask'[c].pc = "idle" /\ ask'[c].verdict = "served" /\ ask'[c].late = idle
    BY <2>3 DEF Call
  <2>5. ASSUME NEW r \in Records(subject) PROVE idle[r] <= Window
    <3>1. idle[r] <= KeyTTL - held.left + N * Wait
      BY <1>4 DEF Hit, LookupInv, HeldRecent
    <3>2. held.left \in 0..KeyTTL /\ idle[r] \in Nat
      BY <1>1 DEF IdleCap
    <3>3. Window = KeyTTL + N * Wait /\ N * Wait \in Nat
      BY <1>1, <1>4, WindowBound DEF Hit
    <3> QED BY <3>1, <3>2, <3>3
  <2>6. Windowed(c)'
    BY <1>2, <2>4, <2>5 DEF Windowed, Window, Cacheable
  <2>7. Recent(c)' /\ Clean(c)' /\ Current(c)'
    BY <2>4 DEF Recent, Clean, Current
  <2> QED BY <1>2, <2>3, <2>6, <2>7, OneCall, HeldStands
<1>5. CASE ~Hit
  <2>1. ask' = [ask EXCEPT ![c] = Call("search", Usable, "none", Never)]
    BY <1>5 DEF Lookup
  <2>2. Never \in [Records(subject) -> 0..IdleCap]
    BY DEF Never, IdleCap
  <2>3. Call("search", Usable, "none", Never) \in Asks
    BY <1>1, <1>3, <2>2, CallTyped, Zenon
  <2>4. /\ ask' \in [Clients -> Asks] /\ \A d \in Clients \ {c} : ask'[d] = ask[d]
        /\ ask'[c] = Call("search", Usable, "none", Never)
    BY <1>1, <2>1, <2>3
  <2>5. ask'[c].pc = "search" /\ ask'[c].stage = 1 /\ ask'[c].verdict = "none"
    BY <2>4 DEF Call
  <2>6. ask'[c].clean => Usable
    BY <2>4 DEF Call
  <2>7. Recent(c)' /\ Windowed(c)' /\ Current(c)'
    BY <2>5 DEF Recent, Windowed, Current
  <2>8. Clean(c)'
    BY <1>2, <2>5, <2>6 DEF Clean, Usable
  <2> QED BY <1>2, <2>4, <2>7, <2>8, OneCall, HeldStands
<1> QED BY <1>4, <1>5

LEMMA SearchRecordsStep ==
    ASSUME LookupInv, NEW c \in Clients, SearchRecords(c)
    PROVE  LookupInv'
<1> USE LookupAssumption
<1> DEFINE found == Searches(subject)[ask[c].stage]
           g == \A r \in found : Permits(r, reg[r])
<1>1. /\ subject \in Subjects /\ ask \in [Clients -> Asks] /\ ask[c].pc = "search"
      /\ idle \in [Records(subject) -> 0..IdleCap] /\ DOMAIN reg = Records(subject)
      /\ UNCHANGED <<subject, reg, idle, held>>
  BY DEF LookupInv, LookupTypeOK, SearchRecords
<1>2. ask' = [ask EXCEPT ![c] = [ask[c] EXCEPT !.pc = "reply", !.granted = g]]
  BY <1>1 DEF SearchRecords
<1>3. g \in BOOLEAN
  BY Zenon
<1>4. found \subseteq Records(subject) /\ ask[c].waited \in 0..Wait
  BY <1>1, SearchShape DEF Asks
<1> HIDE DEF g
<1>5. /\ ask' \in [Clients -> Asks] /\ \A d \in Clients \ {c} : ask'[d] = ask[d]
      /\ ask'[c] = [ask[c] EXCEPT !.pc = "reply", !.granted = g]
  <2>1. ask[c] \in Asks
    BY <1>1
  <2>2. [ask[c] EXCEPT !.pc = "reply", !.granted = g] \in Asks
    BY <1>3, <2>1 DEF Asks
  <2> QED BY <1>1, <1>2, <2>2
<1>6. /\ ask'[c].pc = "reply" /\ ask'[c].granted = g /\ ask'[c].stage = ask[c].stage
      /\ ask'[c].waited = ask[c].waited /\ ask'[c].clean = ask[c].clean
      /\ ask'[c].verdict = ask[c].verdict /\ ask'[c].late = ask[c].late
  BY <1>1, <1>5 DEF Asks
<1>7. Recent(c) /\ Clean(c) /\ Windowed(c) /\ Current(c)
  BY DEF LookupInv
<1>8. Recent(c)'
  <2>1. ASSUME g, NEW r \in found PROVE idle[r] <= ask[c].waited
    <3>1. idle[r] = 0
      BY <1>4, <2>1 DEF LookupInv, PermittedIsFresh, g
    <3> QED BY <1>4, <3>1
  <2> QED BY <1>1, <1>6, <1>7, <2>1 DEF Recent
<1>9. Clean(c)'
  <2>1. Usable => g
    BY <1>1, <1>4, Zenon DEF Usable, g
  <2> QED BY <1>1, <1>6, <1>7, <2>1 DEF Clean, Usable
<1>10. Windowed(c)' /\ Current(c)'
  BY <1>1, <1>6, <1>7 DEF Windowed, Current, Window, Cacheable
<1> QED BY <1>1, <1>5, <1>8, <1>9, <1>10, OneCall, HeldStands

LEMMA SearchFailsStep ==
    ASSUME LookupInv, NEW c \in Clients, SearchFails(c)
    PROVE  LookupInv'
<1>1. UNCHANGED <<subject, reg, idle, held>> /\ Answer(c, "failed")
  BY DEF SearchFails
<1>2. /\ ask' \in [Clients -> Asks] /\ \A d \in Clients \ {c} : ask'[d] = ask[d]
      /\ ask'[c].pc = "idle" /\ ask'[c].verdict = "failed"
  BY <1>1, AnswerTyped
<1>3. Recent(c)' /\ Clean(c)' /\ Windowed(c)' /\ Current(c)'
  BY <1>2 DEF Recent, Clean, Windowed, Current
<1> QED BY <1>1, <1>2, <1>3, OneCall, HeldStands

\* The only step that fills the cache.
LEMMA JudgeStep ==
    ASSUME LookupInv, NEW c \in Clients, Judge(c)
    PROVE  LookupInv'
<1> USE LookupAssumption
<1>1. /\ subject \in Subjects /\ ask \in [Clients -> Asks] /\ ask[c] \in Asks
      /\ ask[c].pc = "reply" /\ idle \in [Records(subject) -> 0..IdleCap]
      /\ held \in [left : 0..KeyTTL, wellFormed : BOOLEAN]
      /\ UNCHANGED <<subject, reg, idle>>
  BY DEF LookupInv, LookupTypeOK, Judge
<1>2. Recent(c) /\ Clean(c) /\ Windowed(c) /\ Current(c)
  BY DEF LookupInv
<1>3. /\ N \in {1, 2} /\ ask[c].stage \in 1..N /\ ask[c].waited \in 0..Wait
      /\ ask[c].granted \in BOOLEAN /\ ask[c].clean \in BOOLEAN
  BY <1>1, SearchShape DEF Asks, N
<1>4. CASE ask[c].granted /\ ask[c].stage < Len(Searches(subject))
  <2>1. /\ ask' = [ask EXCEPT ![c] = [ask[c] EXCEPT !.pc = "search", !.stage = ask[c].stage + 1, !.waited = 0]]
        /\ UNCHANGED held
    BY <1>1, <1>4 DEF Judge
  <2>2. ask[c].stage = 1 /\ N = 2
    <3>1. ask[c].stage < N
      BY <1>4 DEF N
    <3> QED BY <1>3, <3>1
  <2>3. [ask[c] EXCEPT !.pc = "search", !.stage = ask[c].stage + 1, !.waited = 0] \in Asks
    <3>1. ask[c].stage + 1 \in 1..Len(Searches(subject)) /\ 0 \in 0..Wait
      BY <2>2 DEF N
    <3> QED BY <1>1, <3>1 DEF Asks
  <2>4. /\ ask' \in [Clients -> Asks] /\ \A d \in Clients \ {c} : ask'[d] = ask[d]
        /\ ask'[c] = [ask[c] EXCEPT !.pc = "search", !.stage = ask[c].stage + 1, !.waited = 0]
    BY <1>1, <2>1, <2>3
  <2>5. /\ ask'[c].pc = "search" /\ ask'[c].stage = 2 /\ ask'[c].waited = 0
        /\ ask'[c].clean = ask[c].clean
        /\ ask'[c].verdict = ask[c].verdict /\ ask'[c].late = ask[c].late
    BY <1>1, <2>2, <2>4 DEF Asks
  <2>6. ASSUME NEW i \in 1..(2 - 1), NEW r \in Searches(subject)[i]
        PROVE  idle[r] <= (2 - 1) * Wait + 0
    <3>1. i = ask[c].stage
      BY <2>2
    <3>2. idle[r] <= ask[c].waited
      BY <1>1, <1>2, <1>4, <3>1 DEF Recent
    <3>3. idle[r] \in Int
      <4>1. r \in Records(subject)
        BY <1>1, <1>3, <3>1, SearchShape DEF N
      <4> QED BY <1>1, <4>1 DEF IdleCap
    <3> QED BY <1>3, <3>2, <3>3
  <2>7. Recent(c)'
    BY <1>1, <2>5, <2>6 DEF Recent
  <2>8. Clean(c)'
    BY <1>1, <1>2, <2>5 DEF Clean, Usable
  <2>9. Windowed(c)' /\ Current(c)'
    BY <1>1, <1>2, <2>5 DEF Windowed, Current, Window, Cacheable
  <2> QED BY <1>1, <2>1, <2>4, <2>7, <2>8, <2>9, OneCall, HeldStands
<1>5. CASE ~(ask[c].granted /\ ask[c].stage < Len(Searches(subject)))
  <2> DEFINE v == IF ask[c].granted THEN "served" ELSE "refused"
  <2>1. Answer(c, v) /\ CacheResult(ask[c].granted)
    BY <1>5 DEF Judge
  <2>2. v \in {"served", "refused", "failed"}
    OBVIOUS
  <2>3. /\ ask' \in [Clients -> Asks] /\ \A d \in Clients \ {c} : ask'[d] = ask[d]
        /\ ask'[c].pc = "idle" /\ ask'[c].verdict = v
        /\ ask'[c].late = idle /\ ask'[c].clean = ask[c].clean
    BY <2>1, <2>2, AnswerTyped
  <2>4. ask[c].granted => \A r \in Records(subject) : idle[r] <= N * Wait
    BY <1>1, <1>5, GrantedRecent
  <2>5. \A r \in Records(subject) : idle[r] \in Int
    BY <1>1 DEF IdleCap
  <2>6. Windowed(c)'
    <3>1. N * Wait \in Nat /\ Window \in Nat /\ N * Wait <= Window
      BY <1>1, WindowBound
    <3>2. ask[c].granted => \A r \in Records(subject) : idle[r] <= Window
      BY <2>4, <2>5, <3>1
    <3> QED BY <1>1, <2>3, <3>2 DEF Windowed, Window, Cacheable
  <2>7. Recent(c)' /\ Clean(c)'
    BY <2>3 DEF Recent, Clean
  <2>8. Current(c)'
    BY <1>1, <1>2, <2>3 DEF Clean, Current
  <2>9. CASE UNCHANGED held
    BY <1>1, <2>3, <2>6, <2>7, <2>8, <2>9, OneCall, HeldStands
  <2>10. CASE ask[c].granted /\ held' = [left |-> KeyTTL, wellFormed |-> TRUE]
    <3>1. held' \in [left : 0..KeyTTL, wellFormed : BOOLEAN]
      <4>1. KeyTTL \in 0..KeyTTL
        OBVIOUS
      <4> QED BY <2>10, <4>1, Zenon
    <3>2. held'.left = KeyTTL
      BY <2>10
    <3>3. HeldRecent'
      <4>1. N' = N /\ Records(subject)' = Records(subject) /\ N * Wait \in Nat
        BY <1>1, WindowBound DEF N
      <4>2. \A r \in Records(subject) : idle[r] <= KeyTTL - KeyTTL + N * Wait
        BY <2>4, <2>5, <2>10, <4>1
      <4> QED BY <1>1, <3>2, <4>1, <4>2 DEF HeldRecent
    <3> QED BY <1>1, <2>3, <2>6, <2>7, <2>8, <3>1, <3>3, OneCall
  <2> QED BY <2>1, <2>9, <2>10 DEF CacheResult
<1> QED BY <1>4, <1>5

\* The registry changing only ever makes a record less idle.
LEMMA OperateStep ==
    ASSUME LookupInv, NEW r \in DOMAIN reg, NEW s, Operate(r, s)
    PROVE  LookupInv'
<1> USE LookupAssumption
<1>1. /\ subject \in Subjects /\ ask \in [Clients -> Asks] /\ DOMAIN reg = Records(subject)
      /\ idle \in [Records(subject) -> 0..IdleCap] /\ IdleCap \in Nat
      /\ held \in [left : 0..KeyTTL, wellFormed : BOOLEAN]
      /\ UNCHANGED <<subject, held>>
  BY DEF LookupInv, LookupTypeOK, Operate, IdleCap
<1>2. /\ DOMAIN reg' = Records(subject) /\ reg'[r] = s
      /\ \A q \in Records(subject) : q # r => reg'[q] = reg[q]
  BY <1>1 DEF Operate
<1>3. /\ idle' \in [Records(subject) -> 0..IdleCap]
      /\ \A q \in Records(subject) : idle'[q] <= idle[q]
      /\ \A q \in Records(subject) : q # r => idle'[q] = idle[q]
      /\ Permits(r, s) => idle'[r] = 0
  BY <1>1 DEF Operate
<1>4. \A q \in Records(subject) : idle[q] \in Nat /\ idle'[q] \in Nat
  BY <1>1, <1>3
<1>5. ASSUME NEW d \in Clients
      PROVE  /\ ask'[d] \in Asks
             /\ ask'[d].pc = ask[d].pc /\ ask'[d].stage = ask[d].stage
             /\ ask'[d].waited = ask[d].waited /\ ask'[d].granted = ask[d].granted
             /\ ask'[d].verdict = ask[d].verdict /\ ask'[d].late = ask[d].late
             /\ ask'[d].clean => ask[d].clean /\ (ask[d].pc = "idle" \/ Permits(r, s))
  <2> DEFINE b == ask[d].clean /\ (ask[d].pc = "idle" \/ Permits(r, s))
  <2>1. ask'[d] = [ask[d] EXCEPT !.clean = b]
    BY DEF Operate
  <2>2. b \in BOOLEAN
    BY Zenon
  <2>3. ask[d] \in Asks
    BY <1>1
  <2> HIDE DEF b
  <2>4. ask'[d] \in Asks
    BY <2>1, <2>2, <2>3 DEF Asks
  <2>5. /\ ask'[d].pc = ask[d].pc /\ ask'[d].stage = ask[d].stage
        /\ ask'[d].waited = ask[d].waited /\ ask'[d].granted = ask[d].granted
        /\ ask'[d].verdict = ask[d].verdict /\ ask'[d].late = ask[d].late
        /\ ask'[d].clean = b
    BY <2>1, <2>3 DEF Asks
  <2> QED BY <2>4, <2>5 DEF b
<1>6. ask' \in [Clients -> Asks]
  BY <1>5 DEF Operate
<1>7. LookupTypeOK'
  BY <1>1, <1>2, <1>3, <1>6 DEF LookupTypeOK, Asks, IdleCap
<1>8. PermittedIsFresh'
  BY <1>1, <1>2, <1>3 DEF LookupInv, PermittedIsFresh
<1>9. HeldRecent'
  <2>1. N' = N /\ N * Wait \in Nat /\ held.left \in Nat
    BY <1>1, WindowBound DEF N
  <2> QED BY <1>1, <1>3, <1>4, <2>1 DEF LookupInv, HeldRecent
<1>10. ASSUME NEW d \in Clients PROVE (Recent(d) /\ Clean(d) /\ Windowed(d) /\ Current(d))'
  <2>1. Recent(d) /\ Clean(d) /\ Windowed(d) /\ Current(d)
    BY DEF LookupInv
  <2>2. /\ Len(Searches(subject)) \in {1, 2} /\ ask[d].stage \in 1..Len(Searches(subject))
        /\ ask[d].waited \in Nat
    BY <1>1, SearchShape DEF Asks
  <2>3. \A i \in 1..Len(Searches(subject)) : \A q \in Searches(subject)[i] :
           idle'[q] <= idle[q] /\ idle[q] \in Nat /\ idle'[q] \in Nat
    BY <1>1, <1>3, <1>4, SearchShape
  <2>4. Recent(d)'
    <3>1. ASSUME NEW i \in 1..(ask[d].stage - 1), NEW q \in Searches(subject)[i], ask[d].pc # "idle"
          PROVE  idle'[q] <= (ask[d].stage - 1) * Wait + ask[d].waited
      <4>1. idle[q] <= (ask[d].stage - 1) * Wait + ask[d].waited
        BY <2>1, <3>1 DEF Recent
      <4>2. (ask[d].stage - 1) * Wait \in Nat
        BY <2>2
      <4>3. idle'[q] <= idle[q] /\ idle[q] \in Nat /\ idle'[q] \in Nat
        BY <2>2, <2>3
      <4> DEFINE m == (ask[d].stage - 1) * Wait
      <4>4. m \in Nat /\ idle[q] <= m + ask[d].waited
        BY <4>1, <4>2
      <4> HIDE DEF m
      <4>5. idle'[q] <= m + ask[d].waited
        BY <2>2, <4>3, <4>4
      <4> QED BY <4>5 DEF m
    <3>2. ASSUME ask[d].pc = "reply", ask[d].granted, NEW q \in Searches(subject)[ask[d].stage]
          PROVE  idle'[q] <= ask[d].waited
      <4>1. idle[q] <= ask[d].waited
        BY <2>1, <3>2 DEF Recent
      <4> QED BY <2>2, <2>3, <4>1
    <3> QED BY <1>1, <1>5, <3>1, <3>2 DEF Recent
  <2>5. Clean(d)'
    <3>1. ask[d].clean /\ ask[d].pc # "idle" /\ Permits(r, s) => Usable'
      BY <1>1, <1>2, <2>1 DEF Clean, Usable
    <3> QED BY <1>5, <2>1, <3>1 DEF Clean
  <2>6. Windowed(d)' /\ Current(d)'
    BY <1>1, <1>5, <2>1 DEF Windowed, Current, Window, Cacheable
  <2> QED BY <2>4, <2>5, <2>6
<1> QED BY <1>7, <1>8, <1>9, <1>10 DEF LookupInv

\* One unit of time ages every denied record by one, and with it every search
\* under way and the cache entry.
LEMMA TickStep ==
    ASSUME LookupInv, LookupTick
    PROVE  LookupInv'
<1> USE LookupAssumption
<1>1. /\ subject \in Subjects /\ ask \in [Clients -> Asks] /\ DOMAIN reg = Records(subject)
      /\ idle \in [Records(subject) -> 0..IdleCap] /\ IdleCap \in Nat
      /\ held \in [left : 0..KeyTTL, wellFormed : BOOLEAN]
      /\ UNCHANGED <<subject, reg>>
  BY DEF LookupInv, LookupTypeOK, LookupTick, IdleCap
<1>2. /\ idle' \in [Records(subject) -> 0..IdleCap]
      /\ \A q \in Records(subject) : idle'[q] <= idle[q] + 1
      /\ \A q \in Records(subject) : Permits(q, reg[q]) => idle'[q] = 0
  BY <1>1 DEF LookupTick
<1>3. \A q \in Records(subject) : idle[q] \in Nat /\ idle'[q] \in Nat
  BY <1>1, <1>2
<1>4. /\ held' \in [left : 0..KeyTTL, wellFormed : BOOLEAN]
      /\ held'.wellFormed = held.wellFormed
      /\ held'.left > 0 => held.left = held'.left + 1
  <2>1. held' = [held EXCEPT !.left = IF held.left > 0 THEN held.left - 1 ELSE 0]
    BY DEF LookupTick
  <2>2. (IF held.left > 0 THEN held.left - 1 ELSE 0) \in 0..KeyTTL
    BY <1>1
  <2>3. held' \in [left : 0..KeyTTL, wellFormed : BOOLEAN]
    BY <1>1, <2>1, <2>2
  <2>4. /\ held'.left = IF held.left > 0 THEN held.left - 1 ELSE 0
        /\ held'.wellFormed = held.wellFormed
    BY <1>1, <2>1
  <2> QED BY <1>1, <2>3, <2>4
<1>5. ASSUME NEW d \in Clients, ask[d].pc = "idle" PROVE ask'[d] = Unasked /\ Unasked \in Asks
  <2>1. Never \in [Records(subject) -> 0..IdleCap]
    BY <1>1 DEF Never
  <2>2. Unasked \in Asks
    BY <1>1, <2>1, CallTyped DEF Unasked
  <2> QED BY <1>5, <2>2 DEF LookupTick
<1>6. ASSUME NEW d \in Clients, ask[d].pc # "idle"
      PROVE  /\ ask'[d] \in Asks
             /\ ask'[d].pc = ask[d].pc /\ ask'[d].stage = ask[d].stage
             /\ ask'[d].waited = ask[d].waited + 1 /\ ask'[d].granted = ask[d].granted
             /\ ask'[d].verdict = ask[d].verdict /\ ask'[d].late = ask[d].late
             /\ ask'[d].clean = ask[d].clean
  <2>1. ask'[d] = [ask[d] EXCEPT !.waited = ask[d].waited + 1] /\ ask[d].waited < Wait
    BY <1>6 DEF LookupTick
  <2>2. ask[d] \in Asks
    BY <1>1
  <2>3. ask[d].waited + 1 \in 0..Wait
    BY <2>1, <2>2 DEF Asks
  <2> QED BY <2>1, <2>2, <2>3 DEF Asks
<1>7. ask' \in [Clients -> Asks]
  BY <1>5, <1>6 DEF LookupTick
<1>8. LookupTypeOK'
  BY <1>1, <1>2, <1>4, <1>7 DEF LookupTypeOK, Asks, IdleCap
<1>9. PermittedIsFresh'
  BY <1>1, <1>2 DEF PermittedIsFresh
<1>10. HeldRecent'
  <2> DEFINE m == N * Wait
  <2>1. N' = N /\ m \in Nat /\ held.left \in Nat /\ held'.left \in Nat
    BY <1>1, <1>4, WindowBound DEF N
  <2>2. held.left > 0 /\ held.wellFormed =>
           \A q \in Records(subject) : idle[q] <= KeyTTL - held.left + m
    BY DEF LookupInv, HeldRecent
  <2> HIDE DEF m
  <2>3. held'.left > 0 /\ held'.wellFormed =>
           \A q \in Records(subject) : idle'[q] <= KeyTTL - held'.left + m
    BY <1>2, <1>3, <1>4, <2>1, <2>2
  <2> QED BY <1>1, <2>1, <2>3 DEF HeldRecent, m
<1>11. ASSUME NEW d \in Clients PROVE (Recent(d) /\ Clean(d) /\ Windowed(d) /\ Current(d))'
  <2>1. CASE ask[d].pc = "idle"
    <3>1. Unasked.pc = "idle" /\ Unasked.verdict = "none"
      BY DEF Unasked, Call
    <3>2. ask'[d].pc = "idle" /\ ask'[d].verdict = "none"
      BY <1>5, <2>1, <3>1
    <3> QED BY <3>2 DEF Recent, Clean, Windowed, Current
  <2>2. CASE ask[d].pc # "idle"
    <3>1. Recent(d) /\ Clean(d) /\ Windowed(d) /\ Current(d)
      BY DEF LookupInv
    <3>2. /\ Len(Searches(subject)) \in {1, 2} /\ ask[d].stage \in 1..Len(Searches(subject))
          /\ ask[d].waited \in Nat
      BY <1>1, SearchShape DEF Asks
    <3>3. \A i \in 1..Len(Searches(subject)) : \A q \in Searches(subject)[i] :
             idle'[q] <= idle[q] + 1 /\ idle[q] \in Nat /\ idle'[q] \in Nat
      BY <1>1, <1>2, <1>3, SearchShape
    <3>4. Recent(d)'
      <4> DEFINE m == (ask[d].stage - 1) * Wait
      <4>1. ASSUME NEW i \in 1..(ask[d].stage - 1), NEW q \in Searches(subject)[i]
            PROVE  idle'[q] <= m + (ask[d].waited + 1)
        <5>1. idle[q] <= m + ask[d].waited
          BY <2>2, <3>1 DEF Recent
        <5>3. m \in Nat
          BY <3>2
        <5>2. idle'[q] <= idle[q] + 1 /\ idle[q] \in Nat /\ idle'[q] \in Nat
          BY <3>2, <3>3
        <5> HIDE DEF m
        <5> QED BY <3>2, <5>1, <5>2, <5>3
      <4>2. ASSUME ask[d].pc = "reply", ask[d].granted, NEW q \in Searches(subject)[ask[d].stage]
            PROVE  idle'[q] <= ask[d].waited + 1
        <5>1. idle[q] <= ask[d].waited
          BY <3>1, <4>2 DEF Recent
        <5> QED BY <3>2, <3>3, <5>1
      <4> QED BY <1>1, <1>6, <2>2, <4>1, <4>2 DEF Recent
    <3>5. Clean(d)'
      BY <1>1, <1>6, <2>2, <3>1 DEF Clean, Usable
    <3>6. Windowed(d)' /\ Current(d)'
      BY <1>1, <1>6, <2>2, <3>1 DEF Windowed, Current, Window, Cacheable
    <3> QED BY <3>4, <3>5, <3>6
  <2> QED BY <2>1, <2>2
<1> QED BY <1>8, <1>9, <1>10, <1>11 DEF LookupInv

LEMMA StutterInv ==
    ASSUME LookupInv, UNCHANGED lookupVars
    PROVE  LookupInv'
<1>1. UNCHANGED <<subject, reg, idle, held, ask>>
  BY DEF lookupVars
<1>2. LookupTypeOK' /\ PermittedIsFresh' /\ HeldRecent'
  BY <1>1 DEF LookupInv, LookupTypeOK, Asks, IdleCap, PermittedIsFresh, HeldRecent, N
<1>3. ASSUME NEW d \in Clients PROVE (Recent(d) /\ Clean(d) /\ Windowed(d) /\ Current(d))'
  <2>1. Recent(d) /\ Clean(d) /\ Windowed(d) /\ Current(d)
    BY DEF LookupInv
  <2> QED BY <1>1, <2>1 DEF Recent, Clean, Windowed, Current, Usable, Window, Cacheable
<1> QED BY <1>2, <1>3 DEF LookupInv

\* The inductive invariant holds throughout.
THEOREM LookupInvariant == LookupSpec => []LookupInv
<1>1. LookupInit => LookupInv
  BY InitInv
<1>2. LookupInv /\ [LookupNext]_lookupVars => LookupInv'
  <2> SUFFICES ASSUME LookupInv, [LookupNext]_lookupVars PROVE LookupInv'
    OBVIOUS
  <2>1. ASSUME NEW c \in Clients, Lookup(c) \/ SearchRecords(c) \/ SearchFails(c) \/ Judge(c)
        PROVE  LookupInv'
    BY <2>1, LookupStep, SearchRecordsStep, SearchFailsStep, JudgeStep
  <2>2. ASSUME NEW r \in DOMAIN reg, NEW s \in States[r], Operate(r, s) PROVE LookupInv'
    BY <2>2, OperateStep
  <2>3. CASE LookupTick
    BY <2>3, TickStep
  <2>4. CASE UNCHANGED lookupVars
    BY <2>4, StutterInv
  <2> QED BY <2>1, <2>2, <2>3, <2>4 DEF LookupNext
<1> QED BY <1>1, <1>2, PTL DEF LookupSpec

\* validateSign alone runs the registry client, whatever else the handler's
\* configuration lists.
LEMMA PluginsLookUp == Spec => LookupSpec
<1>1. Init => LookupInit
  BY DEF Init
<1>2. [Next]_vars => [LookupNext]_lookupVars
  BY DEF Next, ValidateSign, CheckPolicy, MediateSchema, vars
<1> QED BY <1>1, <1>2, PTL DEF Spec, LookupSpec

\* cached and cacheResult: nothing is served on the strength of a record that
\* has not permitted use for longer than the TTL and the searches' own time.
THEOREM SuspensionWindowHolds == Spec => []SuspensionWindow
<1>1. LookupInv => SuspensionWindow
  BY DEF LookupInv, SuspensionWindow, Windowed
<1> QED BY <1>1, PluginsLookUp, LookupInvariant, PTL

\* Judge and SearchFails: a refusal always rests on a record that denied use
\* during that very call.
THEOREM RefusalIsCurrentHolds == Spec => []RefusalIsCurrent
<1>1. LookupInv => RefusalIsCurrent
  BY DEF LookupInv, RefusalIsCurrent, Current
<1> QED BY <1>1, PluginsLookUp, LookupInvariant, PTL

-----------------------------------------------------------------------------
(* The manifest loader.                                                    *)

Docs == [v : Nat, verified : BOOLEAN, age : Nat, old : BOOLEAN]
Loads == [pc : {"idle", "call", "registry", "body", "signature", "keep", "got", "failed"},
          bypass : BOOLEAN, body : Nat, doc : Docs]

LoaderTypeOK ==
    /\ manifest \in [body : Nat, sig : Nat]
    /\ entry \in [Keys -> [doc : Docs, left : 0 .. DocTTL]]
    /\ load \in [Readers -> Loads]

\* A document under the metadata key is as old as its entry at most; one under
\* the name was younger than a TTL when its entry was made.
EntryAge ==
    /\ entry["metadata"].left > 0 =>
          entry["metadata"].doc.age + entry["metadata"].left <= DocTTL
    /\ entry["name"].left > 0 => entry["name"].doc.age + entry["name"].left <= 2 * DocTTL

LoadAge(c) ==
    /\ load[c].pc = "keep" => load[c].doc.age < DocTTL
    /\ load[c].pc = "got" => load[c].doc.age < 2 * DocTTL

LoaderInv == LoaderTypeOK /\ EntryAge /\ \A c \in Readers : LoadAge(c)

-----------------------------------------------------------------------------
(* The policy checker.                                                     *)

\* Unless the forced refresh was missed, nothing older than the process.
NotOld(gone, doc) == ForceRefreshOnStart /\ ~gone => ~doc.old

\* What a reload has so far.
Gathered ==
    /\ reload.pc \in {"idle", "load", "manifest"} /\ DOMAIN reload.got = Names
    /\ reload.pc # "idle" => \A n \in Names \ reload.todo : reload.got[n].kind = reload.from[n]
    /\ \A n \in Names : Sound(reload.got[n]) /\ NotOld(missed, reload.got[n].doc)
    /\ reload.pc # "manifest" => load[Reloader].pc = "idle"

\* What the loader hands to the reload.
HandedOut ==
    /\ load[Reloader].bypass => load[Reloader].pc \in {"registry", "body", "signature"}
    /\ load[Reloader].pc \in {"keep", "got"} =>
          load[Reloader].doc.verified /\ NotOld(missed, load[Reloader].doc)

\* A forced refresh still under way.
Refreshing == load[Reloader].bypass \/ load[Reloader].pc = "keep"

\* Once the refresh is done the name's entry is new, and what may be left of the
\* old process under the metadata key runs out first.
Renewed ==
    ForceRefreshOnStart /\ refreshed /\ ~missed /\ ~Refreshing =>
        /\ ~entry["name"].doc.old
        /\ entry["metadata"].doc.old => /\ entry["metadata"].left <= entry["name"].left
                                        /\ entry["name"].doc.verified

\* So a load that goes on to the metadata key finds nothing old there.
MetadataNew ==
    load[Reloader].pc = "registry" /\ ~load[Reloader].bypass
        /\ ForceRefreshOnStart /\ ~missed =>
            ~(entry["metadata"].left > 0 /\ entry["metadata"].doc.old)

InForce ==
    policies.up => \A n \in Names :
        /\ policies.set[n].kind = policies.from[n]
        /\ Sound(policies.set[n]) /\ NotOld(missed, policies.set[n].doc)

ChecksSound == DOMAIN check = Requests /\ \A m \in Requests : check[m].sound

PolicyParts ==
    /\ Gathered /\ HandedOut /\ Renewed /\ MetadataNew /\ InForce /\ ChecksSound
    /\ refreshed \in BOOLEAN /\ missed \in BOOLEAN

\* A handler without the step has no policies.
PolicyInv ==
    \/ step # "checkPolicy" /\ ~policies.up
    \/ step = "checkPolicy" /\ PolicyParts

-----------------------------------------------------------------------------
(* The mediator.                                                           *)

Fields == {"pc", "carries", "named", "version", "todo", "fetched", "translated", "rewritten",
           "trouble"}
Wanted(r) == Needs(r.carries, r.version)
AsItCame(r) == r.translated = {} /\ ~r.rewritten

\* MediatedWhole, of one message.
Whole(r) ==
    \/ AsItCame(r) /\ ~r.named
    \/ AsItCame(r) /\ r.trouble /\ policy.onFailure = "passThrough"
    \/ /\ r.named /\ ~r.trouble
       /\ r.translated = Wanted(r) \ Outside /\ (r.rewritten <=> Wanted(r) \cap Outside # {})

\* A message's mediation, phase by phase: without trouble, every need has been
\* fetched or is still to be.
Phases(r) ==
    /\ DOMAIN r = Fields
    /\ r.pc \in {"arrived", "manifest", "fetch"} => AsItCame(r)
    /\ r.pc = "arrived" => ~r.named
    /\ r.pc \in {"manifest", "fetch"} => r.named
    /\ r.pc \in {"arrived", "manifest"} => r.fetched = {} /\ ~r.trouble
    /\ r.pc = "fetch" /\ ~r.trouble => r.fetched \cup r.todo = Wanted(r)
    /\ r.pc = "forwarded" => Whole(r)

Mediating(m) == Phases(mediation[m])

\* Every artifact that is kept has a slot.
Slotted ==
    /\ slots \in Seq(Objects) /\ Len(slots) <= MaxEntries
    /\ \A o \in DOMAIN artifacts : \E i \in 1 .. Len(slots) : slots[i] = o

MediationInv ==
    /\ DOMAIN mediation = Messages /\ \A m \in Messages : Mediating(m)
    /\ Slotted

-----------------------------------------------------------------------------
(* The age of documents.                                                   *)

LEMMA DocTypes ==
    /\ NoDoc \in Docs /\ NoDoc.age = 0 /\ NoDoc.old = FALSE /\ NoDoc.verified = FALSE
    /\ \A v \in Nat, b \in BOOLEAN :
          Fresh(v, b) \in Docs /\ Fresh(v, b).age = 0 /\ Fresh(v, b).verified = b
             /\ Fresh(v, b).old = FALSE
    /\ \A d \in Docs, b \in BOOLEAN :
          Inherited(d, b) \in Docs /\ Inherited(d, b).age = d.age
             /\ Inherited(d, b).verified = d.verified /\ Inherited(d, b).old = b
    /\ \A d \in Docs : /\ Older(d) \in Docs /\ Older(d).verified = d.verified /\ Older(d).old = d.old
                       /\ Older(d).age <= d.age + 1
<1>1. NoDoc \in Docs /\ NoDoc.age = 0 /\ NoDoc.old = FALSE /\ NoDoc.verified = FALSE
  BY DEF NoDoc, Docs
<1>2. ASSUME NEW v \in Nat, NEW b \in BOOLEAN
      PROVE  Fresh(v, b) \in Docs /\ Fresh(v, b).age = 0 /\ Fresh(v, b).verified = b
                /\ Fresh(v, b).old = FALSE
  BY DEF Fresh, Docs
<1>3. ASSUME NEW d \in Docs, NEW b \in BOOLEAN
      PROVE  Inherited(d, b) \in Docs /\ Inherited(d, b).age = d.age
                /\ Inherited(d, b).verified = d.verified /\ Inherited(d, b).old = b
  BY DEF Inherited, Docs
<1>4. ASSUME NEW d \in Docs
      PROVE  /\ Older(d) \in Docs /\ Older(d).verified = d.verified /\ Older(d).old = d.old
             /\ Older(d).age <= d.age + 1
  <2>1. AgeCap \in Nat /\ d.age \in Nat
    BY LoaderAssumption DEF AgeCap, Docs
  <2> DEFINE a == IF d.age < AgeCap THEN d.age + 1 ELSE AgeCap
  <2>2. a \in Nat /\ a <= d.age + 1
    BY <2>1
  <2>3. Older(d) = [d EXCEPT !.age = a]
    BY DEF Older
  <2> HIDE DEF a
  <2> QED BY <2>2, <2>3 DEF Docs
<1> QED BY <1>1, <1>2, <1>3, <1>4

LEMMA LoadAtTyped ==
    ASSUME NEW pc \in {"idle", "call", "registry", "body", "signature", "keep", "got", "failed"},
           NEW b \in BOOLEAN, NEW d \in Docs
    PROVE  /\ LoadAt(pc, b, d) \in Loads /\ LoadAt(pc, b, d).pc = pc
           /\ LoadAt(pc, b, d).bypass = b /\ LoadAt(pc, b, d).doc = d
    BY DEF LoadAt, Loads

\* One reader's load moves to another place.
LEMMA LoadMoves ==
    ASSUME LoaderTypeOK, NEW c \in Readers, NEW x \in Loads, load' = [load EXCEPT ![c] = x]
    PROVE  /\ load' \in [Readers -> Loads] /\ load'[c] = x
           /\ \A d \in Readers : d # c => load'[d] = load[d]
    BY DEF LoaderTypeOK

\* The cache is written, or the write fails.
LEMMA StoreTyped ==
    ASSUME LoaderTypeOK, NEW k \in Keys, NEW d \in Docs, Store(k, d)
    PROVE  /\ entry' \in [Keys -> [doc : Docs, left : 0 .. DocTTL]]
           /\ \/ entry'[k].doc = d /\ entry'[k].left = DocTTL /\ missed' = missed
              \/ entry'[k] = entry[k] /\ missed' = (missed \/ k = "name")
           /\ \A j \in Keys : j # k => entry'[j] = entry[j]
<1>1. entry \in [Keys -> [doc : Docs, left : 0 .. DocTTL]] /\ DocTTL \in 0 .. DocTTL
  BY LoaderAssumption DEF LoaderTypeOK
<1>2. CASE entry' = [entry EXCEPT ![k] = [doc |-> d, left |-> DocTTL]] /\ UNCHANGED missed
  BY <1>1, <1>2
<1>3. CASE UNCHANGED entry /\ missed' = (missed \/ k = "name")
  BY <1>1, <1>3
<1> QED BY <1>2, <1>3 DEF Store

\* What a step of a plugin does to the loader.
Reassigned ==
    /\ load' \in [Readers -> Loads]
    /\ \A c \in Readers : load'[c] \in {load[c], NoLoad, LoadAt("call", FALSE, NoDoc)}

LoaderStep ==
    \/ \E c \in Readers : Loading(c) \/ LoadFails(c)
    \/ Release \/ SignRelease \/ Peer \/ LoaderTick
    \/ /\ Reassigned /\ UNCHANGED manifest
       /\ UNCHANGED <<entry, refreshed, missed>> \/ NewProcess

LEMMA IdleLoads ==
    /\ NoLoad \in Loads /\ NoLoad.pc = "idle" /\ NoLoad.bypass = FALSE
    /\ LoadAt("call", FALSE, NoDoc) \in Loads /\ LoadAt("call", FALSE, NoDoc).pc = "call"
    /\ LoadAt("call", FALSE, NoDoc).bypass = FALSE
<1>1. NoDoc \in Docs
  BY DocTypes
<1> QED BY <1>1 DEF NoLoad, LoadAt, Loads

\* One reader's own steps.
LEMMA LoadingKeeps ==
    ASSUME LoaderInv, NEW c \in Readers, Loading(c) \/ LoadFails(c)
    PROVE  LoaderInv'
<1> DEFINE Entries == [Keys -> [doc : Docs, left : 0 .. DocTTL]]
<1>0. /\ DocTTL \in Nat /\ DocTTL > 0 /\ LoaderTypeOK /\ EntryAge
      /\ \A d \in Readers : LoadAge(d)
      /\ entry \in Entries /\ load \in [Readers -> Loads] /\ load[c] \in Loads
      /\ entry["name"].doc \in Docs /\ entry["metadata"].doc \in Docs
      /\ load[c].doc \in Docs /\ load[c].body \in Nat /\ load[c].bypass \in BOOLEAN
      /\ load[c].pc \in {"idle", "call", "registry", "body", "signature", "keep", "got", "failed"}
  BY LoaderAssumption DEF LoaderInv, LoaderTypeOK, Loads, Keys
<1>m. manifest' = manifest /\ manifest \in [body : Nat, sig : Nat]
  BY <1>0 DEF LoaderTypeOK, Loading, Get, LookupMetadata, FetchManifest, Verify, Keep, LoadFails
\* It suffices to say where the load is and how old what it holds.
<1>s. ASSUME NEW x \in Loads, load' = [load EXCEPT ![c] = x], entry' \in Entries, EntryAge',
             x.pc = "keep" => x.doc.age < DocTTL, x.pc = "got" => x.doc.age < 2 * DocTTL
      PROVE  LoaderInv'
  <2>1. /\ load' \in [Readers -> Loads] /\ load'[c] = x
        /\ \A d \in Readers : d # c => load'[d] = load[d]
    BY <1>0, <1>s, LoadMoves
  <2>2. LoaderTypeOK'
    BY <1>m, <1>s, <2>1 DEF LoaderTypeOK
  <2>3. \A d \in Readers : LoadAge(d)'
    BY <1>0, <1>s, <2>1 DEF LoadAge
  <2> QED BY <1>s, <2>2, <2>3 DEF LoaderInv
<1>e. ASSUME UNCHANGED entry PROVE entry' \in Entries /\ EntryAge'
  BY <1>0, <1>e DEF EntryAge
<1>n. NoDoc \in Docs
  BY DocTypes
<1>1. CASE Get(c)
  <2>1. UNCHANGED entry
    BY <1>1 DEF Get
  <2>2. CASE Cached("name") /\ load' = [load EXCEPT ![c] = LoadAt("got", FALSE, entry["name"].doc)]
    <3>1. entry["name"].doc.age < 2 * DocTTL
      BY <1>0, <2>2 DEF Cached, EntryAge, Docs, Keys
    <3>2. LoadAt("got", FALSE, entry["name"].doc) \in Loads
          /\ LoadAt("got", FALSE, entry["name"].doc).pc = "got"
          /\ LoadAt("got", FALSE, entry["name"].doc).doc = entry["name"].doc
      <4>1. entry["name"].doc \in Docs
        BY <1>0
      <4> QED BY <4>1, LoadAtTyped
    <3> QED BY <1>e, <1>s, <2>1, <2>2, <3>1, <3>2
  <2>3. ASSUME NEW b \in BOOLEAN, load' = [load EXCEPT ![c] = LoadAt("registry", b, NoDoc)]
        PROVE  LoaderInv'
    <3>1. LoadAt("registry", b, NoDoc) \in Loads /\ LoadAt("registry", b, NoDoc).pc = "registry"
      BY <1>n, LoadAtTyped
    <3> QED BY <1>e, <1>s, <2>1, <2>3, <3>1
  <2>4. (ForceRefreshOnStart /\ ~refreshed) \in BOOLEAN
    BY Zenon
  <2> QED BY <1>1, <2>2, <2>3, <2>4 DEF Get
<1>2. CASE LookupMetadata(c)
  <2>1. UNCHANGED entry
    BY <1>2 DEF LookupMetadata
  <2>2. CASE /\ Cached("metadata")
             /\ load' = [load EXCEPT ![c] = LoadAt("keep", FALSE, entry["metadata"].doc)]
    <3>1. entry["metadata"].doc.age < DocTTL
      BY <1>0, <2>2 DEF Cached, EntryAge, Docs, Keys
    <3>2. LoadAt("keep", FALSE, entry["metadata"].doc) \in Loads
          /\ LoadAt("keep", FALSE, entry["metadata"].doc).pc = "keep"
          /\ LoadAt("keep", FALSE, entry["metadata"].doc).doc = entry["metadata"].doc
      <4>1. entry["metadata"].doc \in Docs
        BY <1>0
      <4> QED BY <4>1, LoadAtTyped
    <3> QED BY <1>e, <1>s, <2>1, <2>2, <3>1, <3>2
  <2>3. CASE load' = [load EXCEPT ![c] = LoadAt("body", load[c].bypass, NoDoc)]
    <3>1. /\ LoadAt("body", load[c].bypass, NoDoc) \in Loads
          /\ LoadAt("body", load[c].bypass, NoDoc).pc = "body"
      BY <1>0, <1>n, LoadAtTyped
    <3> QED BY <1>e, <1>s, <2>1, <2>3, <3>1
  <2> QED BY <1>2, <2>2, <2>3 DEF LookupMetadata
<1>3. CASE FetchManifest(c)
  <2> DEFINE x == [load[c] EXCEPT !.pc = "signature", !.body = manifest.body]
  <2>1. UNCHANGED entry /\ load' = [load EXCEPT ![c] = x]
    BY <1>3 DEF FetchManifest
  <2>2. x \in Loads /\ x.pc = "signature"
    BY <1>0, <1>m DEF Loads
  <2> QED BY <1>e, <1>s, <2>1, <2>2
\* A load that ends without a document.
<1>f. ASSUME Ends(c, "failed", NoDoc), UNCHANGED entry PROVE LoaderInv'
  <2>1. LoadAt("failed", FALSE, NoDoc) \in Loads /\ LoadAt("failed", FALSE, NoDoc).pc = "failed"
    BY <1>n, LoadAtTyped
  <2> QED BY <1>e, <1>f, <1>s, <2>1 DEF Ends
<1>4. CASE Verify(c)
  <2> DEFINE doc == Fresh(load[c].body, TRUE)
  <2>1. CASE Ends(c, "keep", doc) /\ Store("metadata", doc)
    <3>1. doc \in Docs /\ doc.age = 0
      BY <1>0, DocTypes
    <3>2. LoadAt("keep", FALSE, doc) \in Loads /\ LoadAt("keep", FALSE, doc).pc = "keep"
          /\ LoadAt("keep", FALSE, doc).doc = doc
      BY <3>1, LoadAtTyped
    <3> HIDE DEF doc
    <3>3. /\ entry' \in Entries /\ entry'["name"] = entry["name"]
          /\ \/ entry'["metadata"].doc = doc /\ entry'["metadata"].left = DocTTL
             \/ entry'["metadata"] = entry["metadata"]
      BY <1>0, <2>1, <3>1, StoreTyped DEF Keys
    <3>4. EntryAge'
      BY <1>0, <3>1, <3>3 DEF EntryAge
    <3> QED BY <1>0, <1>s, <2>1, <3>1, <3>2, <3>3, <3>4 DEF Ends
  <2> QED BY <1>4, <1>f, <2>1 DEF Verify
<1>5. CASE Keep(c)
  <2> DEFINE doc == load[c].doc
  <2>1. load[c].pc = "keep" /\ Ends(c, "got", doc) /\ Store("name", doc)
    BY <1>5 DEF Keep
  <2>2. doc \in Docs /\ doc.age < DocTTL /\ doc.age \in Nat
    BY <1>0, <2>1 DEF LoadAge, Docs
  <2>3. LoadAt("got", FALSE, doc) \in Loads /\ LoadAt("got", FALSE, doc).pc = "got"
        /\ LoadAt("got", FALSE, doc).doc = doc
    BY <2>2, LoadAtTyped
  <2> HIDE DEF doc
  <2>4. /\ entry' \in Entries /\ entry'["metadata"] = entry["metadata"]
        /\ \/ entry'["name"].doc = doc /\ entry'["name"].left = DocTTL
           \/ entry'["name"] = entry["name"]
    BY <1>0, <2>1, <2>2, StoreTyped DEF Keys
  <2>5. EntryAge'
    BY <1>0, <2>2, <2>4 DEF EntryAge
  <2>6. doc.age < 2 * DocTTL
    BY <1>0, <2>2
  <2> QED BY <1>s, <2>1, <2>3, <2>4, <2>5, <2>6 DEF Ends
<1>6. CASE LoadFails(c)
  BY <1>6, <1>f DEF LoadFails
<1> QED BY <1>1, <1>2, <1>3, <1>4, <1>5, <1>6 DEF Loading

\* One entry, as time passes.
LEMMA TickEntry ==
    ASSUME LoaderTypeOK, LoaderTick, NEW k \in Keys
    PROVE  /\ entry'[k] \in [doc : Docs, left : 0 .. DocTTL]
           /\ \/ entry'[k] = NoEntry /\ entry[k].left <= 1 /\ entry'[k].left = 0
                 /\ entry'[k].doc.age = 0 /\ entry'[k].doc.old = FALSE
              \/ /\ entry[k].left > 1 /\ entry'[k].left = entry[k].left - 1
                 /\ entry'[k].doc.age <= entry[k].doc.age + 1
                 /\ entry'[k].doc.old = entry[k].doc.old
                 /\ entry'[k].doc.verified = entry[k].doc.verified
<1>0. /\ entry[k] \in [doc : Docs, left : 0 .. DocTTL] /\ DocTTL \in Nat
      /\ entry[k].doc \in Docs /\ entry[k].left \in 0 .. DocTTL
  BY LoaderAssumption DEF LoaderTypeOK
<1>1. CASE entry[k].left > 1
  <2>1. entry'[k] = [doc |-> Older(entry[k].doc), left |-> entry[k].left - 1]
    BY <1>1 DEF LoaderTick
  <2>2. entry[k].left - 1 \in 0 .. DocTTL
    BY <1>0, <1>1
  <2>3. /\ Older(entry[k].doc) \in Docs /\ Older(entry[k].doc).verified = entry[k].doc.verified
        /\ Older(entry[k].doc).old = entry[k].doc.old
        /\ Older(entry[k].doc).age <= entry[k].doc.age + 1
    BY <1>0, DocTypes
  <2> QED BY <1>1, <2>1, <2>2, <2>3
<1>2. CASE ~(entry[k].left > 1)
  <2>1. entry'[k] = NoEntry
    BY <1>2 DEF LoaderTick
  <2>2. /\ NoEntry.doc = NoDoc /\ NoEntry.left = 0
        /\ NoEntry \in [doc : Docs, left : 0 .. DocTTL]
    BY <1>0, DocTypes DEF NoEntry
  <2>3. entry[k].left <= 1
    BY <1>0, <1>2
  <2> QED BY <2>1, <2>2, <2>3, DocTypes
<1> QED BY <1>1, <1>2

\* The cache a new process finds.
LEMMA NewProcessEntry ==
    ASSUME LoaderTypeOK, UNCHANGED <<entry, refreshed, missed>> \/ NewProcess
    PROVE  /\ entry' \in [Keys -> [doc : Docs, left : 0 .. DocTTL]]
           /\ \A k \in Keys : entry'[k].doc.age = entry[k].doc.age /\ entry'[k].left = entry[k].left
<1>0. entry \in [Keys -> [doc : Docs, left : 0 .. DocTTL]]
  BY DEF LoaderTypeOK
<1>1. CASE NewProcess
  <2>1. ASSUME NEW k \in Keys
        PROVE  /\ entry'[k] = [doc |-> Inherited(entry[k].doc, entry[k].left > 0), left |-> entry[k].left]
               /\ entry'[k] \in [doc : Docs, left : 0 .. DocTTL]
               /\ entry'[k].doc.age = entry[k].doc.age /\ entry'[k].left = entry[k].left
    <3> DEFINE d == Inherited(entry[k].doc, entry[k].left > 0)
    <3>1. entry'[k] = [doc |-> d, left |-> entry[k].left]
      BY <1>1 DEF NewProcess
    <3>2. (entry[k].left > 0) \in BOOLEAN
      OBVIOUS
    <3>3. entry[k].doc \in Docs /\ entry[k].left \in 0 .. DocTTL
      BY <1>0
    <3>4. d \in Docs /\ d.age = entry[k].doc.age
      BY <3>2, <3>3, DocTypes, Zenon
    <3> HIDE DEF d
    <3>5. entry'[k] \in [doc : Docs, left : 0 .. DocTTL] /\ entry'[k].doc = d
          /\ entry'[k].left = entry[k].left
      BY <3>1, <3>3, <3>4
    <3> QED BY <3>1, <3>4, <3>5 DEF d
  <2>2. entry' = [k \in Keys |-> entry'[k]]
    BY <1>1 DEF NewProcess
  <2> QED BY <2>1, <2>2
<1>2. CASE UNCHANGED entry
  BY <1>0, <1>2
<1> QED BY <1>1, <1>2

LEMMA LoaderKeeps ==
    ASSUME LoaderInv, LoaderStep
    PROVE  LoaderInv'
<1>0. /\ DocTTL \in Nat /\ DocTTL > 0 /\ LoaderTypeOK /\ EntryAge
      /\ \A d \in Readers : LoadAge(d)
      /\ entry \in [Keys -> [doc : Docs, left : 0 .. DocTTL]]
      /\ manifest \in [body : Nat, sig : Nat]
  BY LoaderAssumption DEF LoaderInv, LoaderTypeOK
<1>1. ASSUME NEW c \in Readers, Loading(c) \/ LoadFails(c) PROVE LoaderInv'
  BY <1>1, LoadingKeeps
<1>2. CASE Release \/ SignRelease
  <2>1. UNCHANGED <<entry, load>>
    BY <1>2 DEF Release, SignRelease
  <2>2. manifest' \in [body : Nat, sig : Nat]
    BY <1>0, <1>2 DEF Release, SignRelease
  <2> QED BY <1>0, <2>1, <2>2 DEF LoaderInv, LoaderTypeOK, EntryAge, LoadAge
\* Both entries become new ones, or each is the older of what it was.
<1>3. ASSUME UNCHANGED <<manifest, load>>, entry' \in [Keys -> [doc : Docs, left : 0 .. DocTTL]],
             \A k \in Keys : \/ entry'[k].doc.age = 0 /\ entry'[k].left <= DocTTL
                             \/ /\ entry[k].left > entry'[k].left
                                /\ entry'[k].doc.age <= entry[k].doc.age + 1
      PROVE  LoaderInv'
  <2>1. LoaderTypeOK' /\ \A d \in Readers : LoadAge(d)'
    BY <1>0, <1>3 DEF LoaderTypeOK, LoadAge
  <2>2. \A k \in Keys : /\ entry[k].doc.age \in Nat /\ entry'[k].doc.age \in Nat
                        /\ entry[k].left \in Nat /\ entry'[k].left \in Nat
    BY <1>0, <1>3 DEF Docs
  <2>3. EntryAge'
    BY <1>0, <1>3, <2>2 DEF EntryAge, Keys
  <2> QED BY <2>1, <2>3 DEF LoaderInv
<1>4. CASE Peer
  <2> DEFINE doc == Fresh(manifest.body, FALSE)
  <2>1. doc \in Docs /\ doc.age = 0
    BY <1>0, DocTypes
  <2>2. entry' = [k \in Keys |-> [doc |-> doc, left |-> DocTTL]] /\ UNCHANGED <<manifest, load>>
    BY <1>4 DEF Peer
  <2> HIDE DEF doc
  <2>3. /\ entry' \in [Keys -> [doc : Docs, left : 0 .. DocTTL]]
        /\ \A k \in Keys : entry'[k].doc.age = 0 /\ entry'[k].left <= DocTTL
    BY <1>0, <2>1, <2>2
  <2> QED BY <1>3, <2>2, <2>3
<1>5. CASE LoaderTick
  <2>1. UNCHANGED <<manifest, load>>
    BY <1>5 DEF LoaderTick
  <2>2. ASSUME NEW k \in Keys
        PROVE  /\ entry'[k] \in [doc : Docs, left : 0 .. DocTTL]
               /\ \/ entry'[k].doc.age = 0 /\ entry'[k].left <= DocTTL
                  \/ entry[k].left > entry'[k].left /\ entry'[k].doc.age <= entry[k].doc.age + 1
    <3>1. entry[k].left \in 0 .. DocTTL
      BY <1>0
    <3>2. /\ entry'[k] \in [doc : Docs, left : 0 .. DocTTL]
          /\ \/ entry'[k].left = 0 /\ entry'[k].doc.age = 0
             \/ entry'[k].left = entry[k].left - 1 /\ entry'[k].doc.age <= entry[k].doc.age + 1
      BY <1>0, <1>5, TickEntry
    <3> QED BY <1>0, <3>1, <3>2
  <2>3. entry' \in [Keys -> [doc : Docs, left : 0 .. DocTTL]]
    BY <1>5, <2>2 DEF LoaderTick
  <2> QED BY <1>3, <2>1, <2>2, <2>3
<1>6. CASE Reassigned /\ UNCHANGED manifest /\ (UNCHANGED <<entry, refreshed, missed>> \/ NewProcess)
  <2>1. ASSUME NEW d \in Readers PROVE LoadAge(d)'
    BY <1>0, <1>6, IdleLoads DEF Reassigned, LoadAge
  <2>2. /\ entry' \in [Keys -> [doc : Docs, left : 0 .. DocTTL]]
        /\ \A k \in Keys : entry'[k].doc.age = entry[k].doc.age /\ entry'[k].left = entry[k].left
    BY <1>0, <1>6, NewProcessEntry
  <2>3. LoaderTypeOK'
    BY <1>0, <1>6, <2>2 DEF LoaderTypeOK, Reassigned
  <2>4. EntryAge'
    BY <1>0, <2>2 DEF EntryAge, Keys
  <2> QED BY <2>1, <2>3, <2>4 DEF LoaderInv
<1> QED BY <1>1, <1>2, <1>4, <1>5, <1>6 DEF LoaderStep

\* Every step of StepPlugins is one of these for the loader.
LEMMA PluginStep ==
    ASSUME LoaderTypeOK, [Next]_vars
    PROVE  LoaderStep
<1>0. /\ NoLoad \in Loads /\ LoadAt("call", FALSE, NoDoc) \in Loads /\ load \in [Readers -> Loads]
      /\ Reloader \in Readers /\ Messages \subseteq Readers
  BY IdleLoads, PolicyAssumption, MediationAssumption DEF LoaderTypeOK
<1>a. ASSUME NEW c \in Readers, NEW x \in {NoLoad, LoadAt("call", FALSE, NoDoc)},
             load' = [load EXCEPT ![c] = x]
      PROVE  Reassigned
  BY <1>0, <1>a DEF Reassigned
<1>b. ASSUME UNCHANGED load PROVE Reassigned
  BY <1>0, <1>b DEF Reassigned
<1>c. ASSUME UNCHANGED loaderVars PROVE LoaderStep
  BY <1>b, <1>c DEF loaderVars, LoaderStep
<1>1. CASE ValidateSign \/ UNCHANGED vars
  BY <1>1, <1>c DEF ValidateSign, vars
<1>2. CASE CheckPolicy
  <2>1. ASSUME Loading(Reloader) \/ LoadFails(Reloader) PROVE LoaderStep
    BY <1>0, <2>1 DEF LoaderStep
  <2>2. CASE PolicyTick \/ Release \/ SignRelease \/ Peer
    BY <2>2 DEF PolicyTick, LoaderStep
  <2>3. ASSUME NEW n \in Names, LoadPolicy(n) PROVE LoaderStep
    BY <1>0, <1>a, <1>b, <2>3 DEF LoadPolicy, loaderVars, LoaderStep
  <2>4. ASSUME NEW n \in Names, ResolveManifest(n) PROVE LoaderStep
    <3>1. UNCHANGED <<entry, refreshed, missed>> \/ NewProcess
      BY <2>4 DEF ResolveManifest, Abandon
    <3> QED BY <1>0, <1>a, <2>4, <3>1 DEF ResolveManifest, LoaderStep
  <2>5. CASE EvaluatorFails
    <3>1. UNCHANGED <<entry, refreshed, missed>> \/ NewProcess
      BY <2>5 DEF EvaluatorFails, Abandon
    <3> QED BY <1>0, <1>a, <2>5, <3>1 DEF EvaluatorFails, LoaderStep
  <2>6. CASE PolicyRestart
    <3>1. Reassigned
      BY <1>0, <2>6 DEF PolicyRestart, Reassigned
    <3> QED BY <2>6, <3>1 DEF PolicyRestart, LoaderStep
  <2>7. CASE \/ StartReload \/ Swap \/ EditFile
             \/ (\E m \in Requests : SelectPolicy(m) \/ Evaluate(m))
             \/ \E v \in MayLapse : Lapse(v)
    BY <1>c, <2>7 DEF StartReload, Swap, EditFile, SelectPolicy, Evaluate, Lapse
  <2> QED BY <1>2, <2>1, <2>2, <2>3, <2>4, <2>5, <2>6, <2>7 DEF CheckPolicy, PolicyNext, Reloading
<1>3. CASE MediateSchema
  <2>1. ASSUME NEW m \in Messages, Loading(m) \/ LoadFails(m) PROVE LoaderStep
    BY <1>0, <2>1 DEF LoaderStep
  <2>2. CASE MediationTick \/ Release \/ SignRelease
    BY <2>2 DEF MediationTick, LoaderStep
  <2>3. ASSUME NEW m \in Messages, Mediate(m) \/ CheckCompatibility(m) PROVE LoaderStep
    <3>1. m \in Readers
      BY <1>0
    <3>2. CASE UNCHANGED load /\ Mediate(m)
      BY <1>c, <3>2 DEF Mediate, loaderVars
    <3> QED BY <1>a, <2>3, <3>1, <3>2 DEF Mediate, CheckCompatibility, LoaderStep
  <2>4. ASSUME NEW m \in Messages, Translate(m) \/ NextMessage(m) PROVE LoaderStep
    BY <1>c, <2>4 DEF Translate, NextMessage
  <2>5. ASSUME NEW m \in Messages, TranslateFails(m) \/ \E o \in Objects : FetchFails(m, o)
        PROVE  LoaderStep
    BY <1>b, <2>5 DEF TranslateFails, FetchFails, LoaderStep
  <2>6. ASSUME NEW m \in Messages, NEW o \in Objects, FetchArtifact(m, o) \/ PublishArtifact(o)
        PROVE  LoaderStep
    BY <1>c, <2>6 DEF FetchArtifact, PublishArtifact
  <2>7. ASSUME NEW o \in Objects, PublishArtifact(o) PROVE LoaderStep
    BY <1>c, <2>7 DEF PublishArtifact
  <2> QED BY <1>3, <2>1, <2>2, <2>3, <2>4, <2>5, <2>6, <2>7
          DEF MediateSchema, MediationNext, MediationStep
<1> QED BY <1>1, <1>2, <1>3 DEF Next

LEMMA LoaderInitInv == LoaderInit => LoaderInv
<1> SUFFICES ASSUME LoaderInit PROVE LoaderInv
  OBVIOUS
<1>0. DocTTL \in Nat /\ DocTTL > 0
  BY LoaderAssumption
<1>1. ASSUME NEW k \in Keys
      PROVE  entry[k] \in [doc : Docs, left : 0 .. DocTTL] /\ entry[k].doc.age = 0
  <2> DEFINE d == Inherited(Fresh(1, TRUE), TRUE)
  <2>0. d \in Docs /\ d.age = 0
    BY DEF Inherited, Fresh, Docs
  <2>1. d \in Docs /\ d.age = 0 /\ NoDoc \in Docs /\ NoDoc.age = 0
    BY <2>0, DocTypes
  <2>2. entry[k] = [doc |-> NoDoc, left |-> 0] \/ entry[k] = [doc |-> d, left |-> DocTTL]
    BY <1>1 DEF LoaderInit, NoEntry
  <2> HIDE DEF d
  <2> QED BY <1>0, <2>1, <2>2
<1>2. DOMAIN entry = Keys /\ entry = [k \in Keys |-> entry[k]]
  BY DEF LoaderInit
<1>3. \A c \in Readers : load[c] = NoLoad
  BY DEF LoaderInit
<1>4. load \in [Readers -> Loads] /\ \A c \in Readers : load[c].pc = "idle"
  BY <1>3, IdleLoads DEF LoaderInit
<1>5. LoaderTypeOK
  BY <1>1, <1>2, <1>4 DEF LoaderInit, LoaderTypeOK
<1>6. EntryAge
  BY <1>0, <1>1 DEF EntryAge, Keys
<1> QED BY <1>4, <1>5, <1>6 DEF LoaderInv, LoadAge

\* Whoever reads the manifest, and however loads, restarts and releases fall, no
\* reader is handed a document two TTLs old (getByMetadata and store in the
\* manifest loader).
THEOREM DocumentAgeHolds == Spec => []DocumentAge
<1>1. Init => LoaderInv
  BY LoaderInitInv DEF Init
<1>2. LoaderInv /\ [Next]_vars => LoaderInv'
  BY LoaderKeeps, PluginStep DEF LoaderInv
<1>3. LoaderInv => DocumentAge
  BY DEF LoaderInv, LoadAge, DocumentAge
<1> QED BY <1>1, <1>2, <1>3, PTL DEF Spec

-----------------------------------------------------------------------------
(* The policies in force.                                                  *)

\* What the loader's steps leave alone.
LEMMA PolicyHeld ==
    ASSUME PolicyParts, UNCHANGED policyVars, missed => missed',
           reload.pc # "manifest" => load'[Reloader].pc = "idle"
    PROVE  Gathered' /\ InForce' /\ ChecksSound'
<1>1. \A d : NotOld(missed, d) => NotOld(missed', d)
  BY DEF NotOld
<1>2. Gathered'
  BY <1>1 DEF PolicyParts, Gathered, policyVars
<1>3. InForce'
  BY <1>1 DEF PolicyParts, InForce, policyVars
<1>4. ChecksSound'
  BY DEF PolicyParts, ChecksSound, policyVars
<1> QED BY <1>2, <1>3, <1>4

\* The reload's own load.
LEMMA ReloaderLoads ==
    ASSUME LoaderInv, PolicyParts, Loading(Reloader) \/ LoadFails(Reloader), UNCHANGED policyVars
    PROVE  PolicyParts'
<1> DEFINE R == Reloader
<1>0. /\ R \in Readers /\ LoaderTypeOK /\ load[R] \in Loads /\ load \in [Readers -> Loads]
      /\ load[R].bypass \in BOOLEAN /\ load[R].doc \in Docs /\ load[R].body \in Nat
      /\ entry["name"].doc \in Docs /\ entry["metadata"].doc \in Docs
      /\ entry["name"].left \in 0 .. DocTTL /\ entry["metadata"].left \in 0 .. DocTTL
      /\ DocTTL \in Nat /\ DocTTL > 0 /\ NoDoc \in Docs
      /\ refreshed \in BOOLEAN /\ missed \in BOOLEAN /\ ForceRefreshOnStart \in BOOLEAN
  <2>1. /\ R \in Readers /\ LoaderTypeOK /\ load[R] \in Loads /\ load \in [Readers -> Loads]
        /\ load[R].bypass \in BOOLEAN /\ load[R].doc \in Docs /\ load[R].body \in Nat
    BY PolicyAssumption DEF LoaderInv, LoaderTypeOK, Loads
  <2>2. /\ entry["name"].doc \in Docs /\ entry["metadata"].doc \in Docs
        /\ entry["name"].left \in 0 .. DocTTL /\ entry["metadata"].left \in 0 .. DocTTL
    BY <2>1 DEF LoaderTypeOK, Keys
  <2>3. DocTTL \in Nat /\ DocTTL > 0 /\ NoDoc \in Docs
    BY LoaderAssumption, DocTypes
  <2>4. refreshed \in BOOLEAN /\ missed \in BOOLEAN /\ ForceRefreshOnStart \in BOOLEAN
    BY LoaderAssumption, Zenon DEF PolicyParts
  <2> QED BY <2>1, <2>2, <2>3, <2>4, Zenon
<1>1. load[R].pc # "idle" /\ reload.pc = "manifest"
  BY DEF Loading, Get, LookupMetadata, FetchManifest, Verify, Keep, LoadFails, PolicyParts, Gathered
<1>2. ASSUME missed => missed' PROVE Gathered' /\ InForce' /\ ChecksSound'
  BY <1>1, <1>2, PolicyHeld
<1>3. ASSUME NEW x \in Loads, load' = [load EXCEPT ![R] = x] PROVE load'[R] = x
  BY <1>0, <1>3
<1>h. HandedOut /\ Renewed /\ MetadataNew
  BY DEF PolicyParts
<1>4. CASE Get(R)
  <2>0. /\ UNCHANGED <<entry, missed>> /\ refreshed' = (refreshed \/ ForceRefreshOnStart)
        /\ load[R].pc = "call"
    BY <1>4 DEF Get
  <2>1. refreshed' \in BOOLEAN /\ missed' \in BOOLEAN
    BY <1>0, <2>0
  <2>2. CASE /\ ~(ForceRefreshOnStart /\ ~refreshed) /\ Cached("name")
             /\ load' = [load EXCEPT ![R] = LoadAt("got", FALSE, entry["name"].doc)]
    <3>1. /\ load'[R].pc = "got" /\ load'[R].bypass = FALSE /\ load'[R].doc = entry["name"].doc
      <4>1. /\ LoadAt("got", FALSE, entry["name"].doc) \in Loads
            /\ LoadAt("got", FALSE, entry["name"].doc).pc = "got"
            /\ LoadAt("got", FALSE, entry["name"].doc).bypass = FALSE
            /\ LoadAt("got", FALSE, entry["name"].doc).doc = entry["name"].doc
        BY <1>0, LoadAtTyped
      <4> QED BY <1>3, <2>2, <4>1
    <3>2. NotOld(missed, entry["name"].doc) /\ entry["name"].doc.verified
      BY <1>h, <2>0, <2>2 DEF HandedOut, Renewed, Refreshing, NotOld, Cached
    <3>3. HandedOut' /\ MetadataNew'
      BY <2>0, <3>1, <3>2 DEF HandedOut, MetadataNew
    <3>4. Renewed'
      BY <1>h, <2>0, <2>2, <3>1 DEF Renewed, Refreshing, HandedOut
    <3> QED BY <1>2, <2>0, <2>1, <3>3, <3>4 DEF PolicyParts
  <2>3. CASE /\ ForceRefreshOnStart /\ ~refreshed
             /\ load' = [load EXCEPT ![R] = LoadAt("registry", TRUE, NoDoc)]
    <3>1. load'[R].pc = "registry" /\ load'[R].bypass = TRUE
      <4>1. /\ LoadAt("registry", TRUE, NoDoc) \in Loads
            /\ LoadAt("registry", TRUE, NoDoc).pc = "registry"
            /\ LoadAt("registry", TRUE, NoDoc).bypass = TRUE
        BY <1>0 DEF LoadAt, Loads
      <4> QED BY <1>3, <2>3, <4>1
    <3>2. HandedOut' /\ MetadataNew' /\ Renewed'
      BY <3>1 DEF HandedOut, MetadataNew, Renewed, Refreshing
    <3> QED BY <1>2, <2>0, <2>1, <3>2 DEF PolicyParts
  <2>4. CASE /\ ~(ForceRefreshOnStart /\ ~refreshed) /\ ~Cached("name")
             /\ load' = [load EXCEPT ![R] = LoadAt("registry", FALSE, NoDoc)]
    <3>1. load'[R].pc = "registry" /\ load'[R].bypass = FALSE
      <4>1. /\ LoadAt("registry", FALSE, NoDoc) \in Loads
            /\ LoadAt("registry", FALSE, NoDoc).pc = "registry"
            /\ LoadAt("registry", FALSE, NoDoc).bypass = FALSE
        BY <1>0 DEF LoadAt, Loads
      <4> QED BY <1>3, <2>4, <4>1
    <3>2. HandedOut'
      BY <3>1 DEF HandedOut
    <3>3. Renewed'
      BY <1>h, <2>0, <2>4, <3>1 DEF Renewed, Refreshing, HandedOut
    <3>4. MetadataNew'
      BY <1>0, <1>h, <2>0, <2>4, <3>1 DEF Renewed, Refreshing, HandedOut, MetadataNew, Cached
    <3> QED BY <1>2, <2>0, <2>1, <3>2, <3>3, <3>4 DEF PolicyParts
  <2>5. (ForceRefreshOnStart /\ ~refreshed) \in BOOLEAN
    OBVIOUS
  <2>6. PICK b \in BOOLEAN : b = (ForceRefreshOnStart /\ ~refreshed)
    BY <2>5
  <2>7. load' = [load EXCEPT ![R] = IF ~b /\ Cached("name")
                                   THEN LoadAt("got", FALSE, entry["name"].doc)
                                   ELSE LoadAt("registry", b, NoDoc)]
    BY <1>4, <2>6 DEF Get
  <2> QED BY <2>2, <2>3, <2>4, <2>6, <2>7
<1>5. CASE LookupMetadata(R)
  <2>0. /\ UNCHANGED <<entry, missed, refreshed>> /\ load[R].pc = "registry"
    BY <1>5 DEF LookupMetadata
  <2>1. CASE /\ ~load[R].bypass /\ Cached("metadata")
             /\ load' = [load EXCEPT ![R] = LoadAt("keep", FALSE, entry["metadata"].doc)]
    <3>1. /\ load'[R].pc = "keep" /\ load'[R].bypass = FALSE /\ load'[R].doc = entry["metadata"].doc
      <4>1. /\ LoadAt("keep", FALSE, entry["metadata"].doc) \in Loads
            /\ LoadAt("keep", FALSE, entry["metadata"].doc).pc = "keep"
            /\ LoadAt("keep", FALSE, entry["metadata"].doc).bypass = FALSE
            /\ LoadAt("keep", FALSE, entry["metadata"].doc).doc = entry["metadata"].doc
        BY <1>0, LoadAtTyped
      <4> QED BY <1>3, <2>1, <4>1
    <3>2. NotOld(missed, entry["metadata"].doc) /\ entry["metadata"].doc.verified
      BY <1>h, <2>0, <2>1 DEF MetadataNew, NotOld, Cached
    <3>3. HandedOut' /\ MetadataNew' /\ Renewed'
      BY <2>0, <3>1, <3>2 DEF HandedOut, MetadataNew, Renewed, Refreshing
    <3> QED BY <1>0, <1>2, <2>0, <3>3 DEF PolicyParts
  <2>2. CASE load' = [load EXCEPT ![R] = LoadAt("body", load[R].bypass, NoDoc)]
    <3>1. load'[R].pc = "body" /\ load'[R].bypass = load[R].bypass
      <4>1. /\ LoadAt("body", load[R].bypass, NoDoc) \in Loads
            /\ LoadAt("body", load[R].bypass, NoDoc).pc = "body"
            /\ LoadAt("body", load[R].bypass, NoDoc).bypass = load[R].bypass
        BY <1>0, LoadAtTyped
      <4> QED BY <1>3, <2>2, <4>1
    <3>2. HandedOut' /\ MetadataNew'
      BY <3>1 DEF HandedOut, MetadataNew
    <3>3. Renewed'
      BY <1>h, <2>0, <3>1 DEF Renewed, Refreshing
    <3> QED BY <1>0, <1>2, <2>0, <3>2, <3>3 DEF PolicyParts
  <2> QED BY <1>5, <2>1, <2>2 DEF LookupMetadata
<1>6. CASE FetchManifest(R)
  <2> DEFINE x == [load[R] EXCEPT !.pc = "signature", !.body = manifest.body]
  <2>1. UNCHANGED <<entry, missed, refreshed>> /\ load[R].pc = "body" /\ load' = [load EXCEPT ![R] = x]
    BY <1>6 DEF FetchManifest
  <2>2. x \in Loads /\ x.pc = "signature" /\ x.bypass = load[R].bypass
    BY <1>0 DEF Loads, LoaderTypeOK
  <2>3. load'[R].pc = "signature" /\ load'[R].bypass = load[R].bypass
    BY <1>3, <2>1, <2>2
  <2>4. HandedOut' /\ MetadataNew'
    BY <2>3 DEF HandedOut, MetadataNew
  <2>5. Renewed'
    BY <1>h, <2>1, <2>3 DEF Renewed, Refreshing
  <2> QED BY <1>0, <1>2, <2>1, <2>4, <2>5 DEF PolicyParts
\* A load that fails: with a forced refresh, that one is missed.
<1>f. ASSUME load[R].pc \in {"registry", "body", "signature"}, Ends(R, "failed", NoDoc),
             missed' = (missed \/ load[R].bypass), UNCHANGED <<entry, refreshed>>
      PROVE  PolicyParts'
  <2>1. load'[R].pc = "failed" /\ load'[R].bypass = FALSE
    <3>1. /\ LoadAt("failed", FALSE, NoDoc) \in Loads /\ LoadAt("failed", FALSE, NoDoc).pc = "failed"
          /\ LoadAt("failed", FALSE, NoDoc).bypass = FALSE
      BY <1>0 DEF LoadAt, Loads
    <3> QED BY <1>3, <1>f, <3>1 DEF Ends
  <2>2. HandedOut' /\ MetadataNew'
    BY <2>1 DEF HandedOut, MetadataNew
  <2>3. Renewed'
    BY <1>h, <1>f, <2>1 DEF Renewed, Refreshing
  <2>4. missed' \in BOOLEAN /\ refreshed' \in BOOLEAN
    BY <1>0, <1>f
  <2> QED BY <1>2, <1>f, <2>2, <2>3, <2>4 DEF PolicyParts
<1>7. CASE Verify(R)
  <2> DEFINE doc == Fresh(load[R].body, TRUE)
  <2>0. load[R].pc = "signature" /\ UNCHANGED refreshed
    BY <1>7 DEF Verify
  <2>1. CASE Ends(R, "keep", doc) /\ Store("metadata", doc)
    <3>1. doc \in Docs /\ doc.verified = TRUE /\ doc.old = FALSE
      BY <1>0 DEF Fresh, Docs
    <3>2. missed' = missed
      BY <1>0, <2>1 DEF Store
    <3> HIDE DEF doc
    <3>3. load'[R].pc = "keep" /\ load'[R].bypass = FALSE /\ load'[R].doc = doc
      <4>1. /\ LoadAt("keep", FALSE, doc) \in Loads /\ LoadAt("keep", FALSE, doc).pc = "keep"
            /\ LoadAt("keep", FALSE, doc).bypass = FALSE /\ LoadAt("keep", FALSE, doc).doc = doc
        BY <3>1, LoadAtTyped
      <4> QED BY <1>3, <2>1, <4>1 DEF Ends
    <3>4. HandedOut' /\ MetadataNew' /\ Renewed'
      BY <3>1, <3>3 DEF HandedOut, MetadataNew, Renewed, Refreshing, NotOld
    <3> QED BY <1>0, <1>2, <2>0, <3>2, <3>4 DEF PolicyParts
  <2> QED BY <1>7, <1>f, <2>0, <2>1 DEF Verify
<1>8. CASE Keep(R)
  <2> DEFINE doc == load[R].doc
  <2>1. load[R].pc = "keep" /\ Ends(R, "got", doc) /\ Store("name", doc) /\ UNCHANGED refreshed
    BY <1>8 DEF Keep
  <2>2. doc \in Docs /\ doc.verified /\ NotOld(missed, doc)
    BY <1>0, <1>h, <2>1 DEF HandedOut
  <2>3. load'[R].pc = "got" /\ load'[R].bypass = FALSE /\ load'[R].doc = doc
    <3>1. /\ LoadAt("got", FALSE, doc) \in Loads /\ LoadAt("got", FALSE, doc).pc = "got"
          /\ LoadAt("got", FALSE, doc).bypass = FALSE /\ LoadAt("got", FALSE, doc).doc = doc
      BY <2>2, LoadAtTyped
    <3> QED BY <1>3, <2>1, <3>1 DEF Ends
  <2> HIDE DEF doc
  <2>4. /\ entry'["metadata"] = entry["metadata"]
        /\ \/ entry'["name"].doc = doc /\ entry'["name"].left = DocTTL /\ missed' = missed
           \/ missed' = TRUE
    BY <1>0, <2>1, <2>2, StoreTyped DEF Keys
  <2>5. HandedOut' /\ MetadataNew'
    BY <2>2, <2>3, <2>4 DEF HandedOut, MetadataNew, NotOld
  <2>6. Renewed'
    BY <1>0, <2>2, <2>4 DEF Renewed, NotOld
  <2>7. (missed => missed') /\ missed' \in BOOLEAN
    BY <1>0, <2>4
  <2> QED BY <1>0, <1>2, <2>1, <2>5, <2>6, <2>7 DEF PolicyParts
<1>9. CASE LoadFails(R)
  BY <1>9, <1>f DEF LoadFails
<1> QED BY <1>4, <1>5, <1>6, <1>7, <1>8, <1>9 DEF Loading

\* The cache and the publisher move on by themselves.
LEMMA AroundReloader ==
    ASSUME LoaderInv, PolicyParts, LoaderTick \/ Release \/ SignRelease \/ Peer, UNCHANGED policyVars
    PROVE  PolicyParts'
<1> DEFINE R == Reloader
<1>0. UNCHANGED <<refreshed, load, missed>> /\ HandedOut /\ Renewed /\ MetadataNew /\ LoaderTypeOK
  BY DEF LoaderTick, Release, SignRelease, Peer, PolicyParts, LoaderInv
<1>1. Gathered' /\ InForce' /\ ChecksSound'
  <2>1. reload.pc # "manifest" => load[R].pc = "idle"
    BY DEF PolicyParts, Gathered
  <2> QED BY <1>0, <2>1, PolicyHeld
<1>2. HandedOut'
  BY <1>0 DEF HandedOut
<1>3. Renewed' /\ MetadataNew'
  <2>1. CASE Release \/ SignRelease
    <3>1. UNCHANGED entry
      BY <2>1 DEF Release, SignRelease
    <3> QED BY <1>0, <3>1 DEF Renewed, Refreshing, MetadataNew
  <2>2. CASE Peer
    <3> DEFINE doc == Fresh(manifest.body, FALSE)
    <3>1. doc.old = FALSE
      BY DEF Fresh
    <3>2. entry'["name"].doc = doc /\ entry'["metadata"].doc = doc
      BY <2>2 DEF Peer, Keys
    <3> HIDE DEF doc
    <3> QED BY <3>1, <3>2 DEF Renewed, MetadataNew
  <2>3. CASE LoaderTick
    <3>1. \A k \in Keys :
             /\ entry[k].left \in Nat
             /\ \/ entry[k].left <= 1 /\ entry'[k].left = 0 /\ entry'[k].doc.old = FALSE
                \/ /\ entry[k].left > 1 /\ entry'[k].left = entry[k].left - 1
                   /\ entry'[k].doc.old = entry[k].doc.old
                   /\ entry'[k].doc.verified = entry[k].doc.verified
      <4> TAKE k \in Keys
      <4>1. entry[k].left \in Nat
        BY <1>0, LoaderAssumption DEF LoaderTypeOK
      <4> QED BY <1>0, <2>3, <4>1, TickEntry
    <3>2. /\ entry["name"].left \in Nat /\ entry["metadata"].left \in Nat
          /\ \/ entry["name"].left <= 1 /\ entry'["name"].left = 0 /\ entry'["name"].doc.old = FALSE
             \/ /\ entry["name"].left > 1 /\ entry'["name"].left = entry["name"].left - 1
                /\ entry'["name"].doc.old = entry["name"].doc.old
                /\ entry'["name"].doc.verified = entry["name"].doc.verified
          /\ \/ /\ entry["metadata"].left <= 1 /\ entry'["metadata"].left = 0
                /\ entry'["metadata"].doc.old = FALSE
             \/ /\ entry["metadata"].left > 1
                /\ entry'["metadata"].left = entry["metadata"].left - 1
                /\ entry'["metadata"].doc.old = entry["metadata"].doc.old
      BY <3>1 DEF Keys
    <3>3. Renewed'
      BY <1>0, <3>2 DEF Renewed, Refreshing
    <3>4. MetadataNew'
      BY <1>0, <3>2 DEF MetadataNew
    <3> QED BY <3>3, <3>4
  <2> QED BY <2>1, <2>2, <2>3
<1>4. refreshed' \in BOOLEAN /\ missed' \in BOOLEAN
  BY <1>0 DEF PolicyParts
<1> QED BY <1>1, <1>2, <1>3, <1>4 DEF PolicyParts

\* Nothing is gathered when a reload begins or ends.
LEMMA NothingGathered ==
    /\ DOMAIN Nothing = Names
    /\ \A n \in Names : Nothing[n] = Unset
    /\ Unset.kind = "none" /\ Sound(Unset) /\ \A gone : NotOld(gone, Unset.doc)
<1>1. Unset.kind = "none" /\ Unset.doc = NoDoc
  BY DEF Unset
<1>2. NoDoc.old = FALSE
  BY DocTypes
<1>3. DOMAIN Nothing = Names /\ \A n \in Names : Nothing[n] = Unset
  BY DEF Nothing
<1> QED BY <1>1, <1>2, <1>3 DEF Sound, NotOld

LEMMA RestGathers ==
    ASSUME Rest, load'[Reloader].pc = "idle"
    PROVE  Gathered'
<1>1. reload'.pc = "idle" /\ reload'.got = Nothing
  BY DEF Rest, AtRest
<1> QED BY <1>1, NothingGathered DEF Gathered

\* A new process begins without policies and without a load.
LEMMA NewProcessParts ==
    ASSUME NewProcess, Rest, load'[Reloader] = NoLoad, ~policies'.up, ChecksSound'
    PROVE  PolicyParts'
<1>1. refreshed' = FALSE /\ missed' = FALSE
  BY DEF NewProcess
<1>2. load'[Reloader].pc = "idle" /\ load'[Reloader].bypass = FALSE
  BY IdleLoads
<1>3. Gathered'
  BY <1>2, RestGathers
<1>4. HandedOut' /\ Renewed' /\ MetadataNew' /\ InForce'
  BY <1>1, <1>2 DEF HandedOut, Renewed, MetadataNew, InForce
<1>5. refreshed' \in BOOLEAN /\ missed' \in BOOLEAN
  BY <1>1
<1> QED BY <1>3, <1>4, <1>5 DEF PolicyParts

\* Steps that end the reload's load, and leave the loader alone otherwise.
LEMMA LoadEnds ==
    ASSUME PolicyParts, load[Reloader].pc \in {"idle", "call", "got", "failed"},
           load'[Reloader].pc \in {"idle", "call"}, load'[Reloader].bypass = FALSE,
           UNCHANGED <<entry, refreshed, missed>>
    PROVE  HandedOut' /\ Renewed' /\ MetadataNew' /\ refreshed' \in BOOLEAN /\ missed' \in BOOLEAN
<1>1. HandedOut' /\ MetadataNew'
  BY DEF HandedOut, MetadataNew
<1>2. Renewed'
  BY DEF PolicyParts, HandedOut, Renewed, Refreshing
<1> QED BY <1>1, <1>2 DEF PolicyParts

\* A policy is loaded.
LEMMA LoadedGathers ==
    ASSUME PolicyParts, NEW n \in Names, NEW doc \in Docs, Loaded(n, doc), missed' = missed,
           reload.pc # "idle", load'[Reloader].pc = "idle",
           reload.from[n] = "manifest" => doc.verified, NotOld(missed, doc)
    PROVE  Gathered'
<1> DEFINE fresh == [doc EXCEPT !.age = 0]
           new == [kind |-> reload.from[n], doc |-> fresh]
<1>1. fresh.verified = doc.verified /\ fresh.old = doc.old
  BY DEF Docs
<1>2. new.kind = reload.from[n] /\ new.doc = fresh
  OBVIOUS
<1>3. Sound(new) /\ NotOld(missed, new.doc)
  BY <1>1, <1>2 DEF Sound, NotOld
<1>4. /\ reload'.pc = "load" /\ reload'.todo = reload.todo \ {n} /\ reload'.from = reload.from
      /\ reload'.got = [reload.got EXCEPT ![n] = new]
  BY DEF Loaded
<1> HIDE DEF new
<1>5. Gathered
  BY DEF PolicyParts
<1>6. /\ DOMAIN reload'.got = Names /\ reload'.got[n] = new
      /\ \A k \in Names : k # n => reload'.got[k] = reload.got[k]
  BY <1>4, <1>5 DEF Gathered
<1> QED BY <1>2, <1>3, <1>4, <1>5, <1>6 DEF Gathered

LEMMA CheckPolicyKeeps ==
    ASSUME LoaderInv, PolicyParts, PolicyNext
    PROVE  PolicyParts'
<1> DEFINE R == Reloader
<1>0. /\ Gathered /\ HandedOut /\ Renewed /\ MetadataNew /\ InForce /\ ChecksSound
      /\ R \in Readers /\ load \in [Readers -> Loads] /\ load[R] \in Loads
      /\ refreshed \in BOOLEAN /\ missed \in BOOLEAN
  BY PolicyAssumption DEF PolicyParts, LoaderInv, LoaderTypeOK
<1>i. NoLoad \in Loads /\ NoLoad.pc = "idle" /\ NoLoad.bypass = FALSE
  BY IdleLoads
<1>r. ASSUME load' = [load EXCEPT ![R] = NoLoad] PROVE load'[R] = NoLoad
  BY <1>0, <1>r
\* The loader's part is as it was.
<1>l. ASSUME UNCHANGED loaderVars
      PROVE  HandedOut' /\ Renewed' /\ MetadataNew' /\ refreshed' \in BOOLEAN /\ missed' \in BOOLEAN
  BY <1>0, <1>l DEF loaderVars, HandedOut, Renewed, Refreshing, MetadataNew
<1>1. CASE Loading(R) /\ UNCHANGED policyVars
  BY <1>1, ReloaderLoads
<1>2. CASE LoadFails(R) /\ UNCHANGED policyVars
  BY <1>2, ReloaderLoads
<1>3. CASE PolicyTick \/ ((Release \/ SignRelease \/ Peer) /\ UNCHANGED policyVars)
  BY <1>3, AroundReloader DEF PolicyTick
<1>4. CASE StartReload
  <2>1. UNCHANGED <<loaderVars, policies, check>> /\ reload.pc = "idle"
    BY <1>4 DEF StartReload
  <2>2. /\ reload'.pc = "load" /\ reload'.todo = {n \in Names : file[n] # "none"}
        /\ reload'.got = Nothing /\ reload'.from = file
    BY <1>4 DEF StartReload
  <2>3. Gathered'
    <3>1. load'[R].pc = "idle"
      BY <1>0, <2>1 DEF Gathered, loaderVars
    <3> QED BY <2>2, <3>1, NothingGathered DEF Gathered
  <2>4. InForce' /\ ChecksSound'
    BY <1>0, <2>1 DEF InForce, ChecksSound, loaderVars
  <2> QED BY <1>l, <2>1, <2>3, <2>4 DEF PolicyParts
<1>5. CASE Swap
  <2>1. UNCHANGED <<loaderVars, check>> /\ Rest /\ reload.pc = "load" /\ reload.todo = {}
    BY <1>5 DEF Swap
  <2>2. policies'.set = reload.got /\ policies'.from = reload.from
    BY <1>5 DEF Swap
  <2>3. \A n \in Names : /\ reload.got[n].kind = reload.from[n]
                         /\ Sound(reload.got[n]) /\ NotOld(missed, reload.got[n].doc)
    BY <1>0, <2>1 DEF Gathered
  <2>4. InForce' /\ ChecksSound'
    BY <1>0, <2>1, <2>2, <2>3 DEF InForce, ChecksSound, loaderVars
  <2>5. load'[R].pc = "idle"
    BY <1>0, <2>1 DEF Gathered, loaderVars
  <2> QED BY <1>l, <2>1, <2>4, <2>5, RestGathers DEF PolicyParts
<1>6. ASSUME NEW n \in Names, LoadPolicy(n) PROVE PolicyParts'
  <2>1. /\ reload.pc = "load" /\ UNCHANGED <<policies, check>> /\ load[R].pc = "idle"
    BY <1>0, <1>6 DEF LoadPolicy, Gathered
  <2>2. CASE reload.from[n] \in {"disabled", "rego"} /\ Loaded(n, NoDoc) /\ UNCHANGED loaderVars
    <3>1. missed' = missed /\ load'[R].pc = "idle"
      BY <2>1, <2>2 DEF loaderVars
    <3>2. NoDoc \in Docs /\ NotOld(missed, NoDoc)
      BY DocTypes DEF NotOld
    <3>3. Gathered'
      BY <2>1, <2>2, <3>1, <3>2, LoadedGathers
    <3>4. InForce' /\ ChecksSound'
      BY <1>0, <2>1, <3>1 DEF InForce, ChecksSound
    <3> QED BY <1>l, <2>2, <3>3, <3>4 DEF PolicyParts
  <2>3. CASE /\ reload' = [reload EXCEPT !.pc = "manifest"]
             /\ load' = [load EXCEPT ![R] = LoadAt("call", FALSE, NoDoc)]
             /\ UNCHANGED <<entry, refreshed, missed>>
    <3>1. load'[R].pc = "call" /\ load'[R].bypass = FALSE
      BY <1>0, <2>3, IdleLoads
    <3>2. HandedOut' /\ Renewed' /\ MetadataNew' /\ refreshed' \in BOOLEAN /\ missed' \in BOOLEAN
      BY <2>1, <2>3, <3>1, LoadEnds
    <3>3. InForce' /\ ChecksSound'
      BY <1>0, <2>1, <2>3 DEF InForce, ChecksSound
    <3>4. Gathered'
      BY <1>0, <2>1, <2>3 DEF Gathered
    <3> QED BY <3>2, <3>3, <3>4 DEF PolicyParts
  <2> QED BY <1>6, <2>2, <2>3 DEF LoadPolicy
\* The reload is given up: without policies the process ends.
<1>a. ASSUME Abandon, load' = [load EXCEPT ![R] = NoLoad], UNCHANGED <<policies, check>>,
             load[R].pc \in {"idle", "call", "got", "failed"}
      PROVE  PolicyParts'
  <2>1. load'[R].pc = "idle" /\ load'[R].bypass = FALSE /\ load'[R] = NoLoad
    BY <1>a, <1>i, <1>r
  <2>2. ChecksSound'
    BY <1>0, <1>a DEF ChecksSound
  <2>3. CASE policies.up
    <3>1. UNCHANGED <<entry, refreshed, missed>>
      BY <1>a, <2>3 DEF Abandon
    <3>2. HandedOut' /\ Renewed' /\ MetadataNew' /\ refreshed' \in BOOLEAN /\ missed' \in BOOLEAN
      BY <1>a, <2>1, <3>1, LoadEnds
    <3>3. Gathered'
      BY <1>a, <2>1, RestGathers DEF Abandon
    <3>4. InForce'
      BY <1>0, <1>a, <3>1 DEF InForce
    <3> QED BY <2>2, <3>2, <3>3, <3>4 DEF PolicyParts
  <2>4. CASE ~policies.up
    BY <1>a, <2>1, <2>2, <2>4, NewProcessParts DEF Abandon
  <2> QED BY <2>3, <2>4
<1>7. ASSUME NEW n \in Names, ResolveManifest(n) PROVE PolicyParts'
  <2>1. /\ reload.pc = "manifest" /\ load[R].pc \in {"got", "failed"} /\ reload.from[n] = "manifest"
        /\ load' = [load EXCEPT ![R] = NoLoad] /\ UNCHANGED <<policies, check>>
    BY <1>7 DEF ResolveManifest
  <2>2. CASE load[R].pc = "got" /\ Loaded(n, load[R].doc) /\ UNCHANGED <<entry, refreshed, missed>>
    <3>1. load'[R].pc = "idle" /\ load'[R].bypass = FALSE
      BY <1>i, <1>r, <2>1
    <3>2. HandedOut' /\ Renewed' /\ MetadataNew' /\ refreshed' \in BOOLEAN /\ missed' \in BOOLEAN
      BY <2>1, <2>2, <3>1, LoadEnds
    <3>3. load[R].doc \in Docs /\ load[R].doc.verified /\ NotOld(missed, load[R].doc)
      BY <1>0, <2>2 DEF HandedOut, Loads
    <3>4. Gathered'
      BY <2>1, <2>2, <3>1, <3>3, LoadedGathers
    <3>5. InForce' /\ ChecksSound'
      BY <1>0, <2>1, <2>2 DEF InForce, ChecksSound
    <3> QED BY <3>2, <3>4, <3>5 DEF PolicyParts
  <2>3. CASE Abandon
    BY <1>a, <2>1, <2>3
  <2> QED BY <1>7, <2>2, <2>3 DEF ResolveManifest
<1>8. CASE EvaluatorFails
  <2>1. load[R].pc \in {"idle", "got"}
    BY <1>0, <1>8 DEF EvaluatorFails, Gathered
  <2> QED BY <1>8, <1>a, <2>1 DEF EvaluatorFails
<1>9. ASSUME NEW m \in Requests, SelectPolicy(m) PROVE PolicyParts'
  <2>1. UNCHANGED <<loaderVars, policies, reload>> /\ policies.up
    BY <1>9 DEF SelectPolicy
  <2>2. PICK id \in Names :
          LET own == policies.set[id]
              chosen == IF own # Unset THEN own ELSE policies.set["default"]
          IN  check' = [check EXCEPT ![m] =
                         IF chosen.kind \in {"none", "disabled"} THEN NewCheck
                         ELSE [pc |-> "evaluate", sound |-> Sound(chosen)]]
    BY <1>9 DEF SelectPolicy
  <2> DEFINE chosen == IF policies.set[id] # Unset THEN policies.set[id] ELSE policies.set["default"]
  <2>3. Sound(chosen)
    BY <1>0, <2>1 DEF InForce, Names
  <2>4. \E x : check' = [check EXCEPT ![m] = x] /\ x.sound
    <3>1. NewCheck.sound
      BY DEF NewCheck
    <3>2. [pc |-> "evaluate", sound |-> Sound(chosen)].sound
      BY <2>3
    <3>3. check' = [check EXCEPT ![m] = IF chosen.kind \in {"none", "disabled"} THEN NewCheck
                                        ELSE [pc |-> "evaluate", sound |-> Sound(chosen)]]
      BY <2>2
    <3> HIDE DEF chosen
    <3>4. CASE chosen.kind \in {"none", "disabled"}
      BY <3>1, <3>3, <3>4, Zenon
    <3>5. CASE chosen.kind \notin {"none", "disabled"}
      BY <3>2, <3>3, <3>5, Zenon
    <3> QED BY <3>4, <3>5
  <2>5. ChecksSound'
    BY <1>0, <2>4 DEF ChecksSound
  <2>6. Gathered' /\ InForce'
    BY <1>0, <2>1 DEF Gathered, InForce, loaderVars
  <2> QED BY <1>l, <2>1, <2>5, <2>6 DEF PolicyParts
<1>10. ASSUME NEW m \in Requests, Evaluate(m) PROVE PolicyParts'
  <2>1. UNCHANGED <<loaderVars, policies, reload>> /\ check' = [check EXCEPT ![m] = NewCheck]
    BY <1>10 DEF Evaluate
  <2>2. NewCheck.sound
    BY DEF NewCheck
  <2>3. ChecksSound'
    BY <1>0, <2>1, <2>2 DEF ChecksSound
  <2>4. Gathered' /\ InForce'
    BY <1>0, <2>1 DEF Gathered, InForce, loaderVars
  <2> QED BY <1>l, <2>1, <2>3, <2>4 DEF PolicyParts
<1>11. CASE EditFile \/ \E v \in MayLapse : Lapse(v)
  <2>1. UNCHANGED <<loaderVars, policies, reload, check>>
    BY <1>11 DEF EditFile, Lapse
  <2>2. Gathered' /\ InForce' /\ ChecksSound'
    BY <1>0, <2>1 DEF Gathered, InForce, ChecksSound, loaderVars
  <2> QED BY <1>l, <2>1, <2>2 DEF PolicyParts
<1>12. CASE PolicyRestart
  <2>1. NewProcess /\ Rest /\ load'[R] = NoLoad /\ ~policies'.up
    BY <1>0, <1>12 DEF PolicyRestart
  <2>2. NewCheck.sound
    BY DEF NewCheck
  <2>3. ChecksSound'
    BY <1>12, <2>2 DEF PolicyRestart, ChecksSound
  <2> QED BY <2>1, <2>3, NewProcessParts
<1> QED BY <1>1, <1>2, <1>3, <1>4, <1>5, <1>6, <1>7, <1>8, <1>9, <1>10, <1>11, <1>12
        DEF PolicyNext, Reloading

LEMMA PolicyStutters ==
    ASSUME PolicyParts, UNCHANGED <<loaderVars, policyVars>>
    PROVE  PolicyParts'
<1>1. HandedOut' /\ Renewed' /\ MetadataNew' /\ refreshed' \in BOOLEAN /\ missed' \in BOOLEAN
  BY DEF PolicyParts, loaderVars, HandedOut, Renewed, Refreshing, MetadataNew
<1>2. Gathered' /\ InForce' /\ ChecksSound'
  BY DEF PolicyParts, loaderVars, policyVars, Gathered, InForce, ChecksSound
<1> QED BY <1>1, <1>2 DEF PolicyParts

LEMMA PolicyInvStep == LoaderInv /\ PolicyInv /\ [Next]_vars => PolicyInv'
<1> SUFFICES ASSUME LoaderInv, PolicyInv, [Next]_vars PROVE PolicyInv'
  OBVIOUS
<1>1. step' = step
  BY DEF Next, ValidateSign, CheckPolicy, MediateSchema, vars
<1>2. CASE step # "checkPolicy" /\ ~policies.up
  <2>1. UNCHANGED policyVars
    BY <1>2 DEF Next, ValidateSign, CheckPolicy, MediateSchema, vars
  <2> QED BY <1>1, <1>2, <2>1 DEF PolicyInv, policyVars
<1>3. CASE step = "checkPolicy"
  <2>1. PolicyParts
    BY <1>3 DEF PolicyInv
  <2>2. CASE CheckPolicy
    <3>1. PolicyParts'
      BY <2>1, <2>2, CheckPolicyKeeps DEF CheckPolicy
    <3> QED BY <1>1, <1>3, <3>1 DEF PolicyInv
  <2>3. CASE UNCHANGED vars
    <3>1. UNCHANGED <<loaderVars, policyVars>>
      BY <2>3 DEF vars
    <3>2. PolicyParts'
      BY <2>1, <3>1, PolicyStutters
    <3> QED BY <1>1, <1>3, <3>2 DEF PolicyInv
  <2> QED BY <1>3, <2>2, <2>3 DEF Next, ValidateSign, MediateSchema
<1> QED BY <1>2, <1>3 DEF PolicyInv

LEMMA PolicyInvInit == Init => PolicyInv
<1> SUFFICES ASSUME Init PROVE PolicyInv
  OBVIOUS
<1>1. /\ ~policies.up /\ reload = AtRest /\ check = [m \in Requests |-> NewCheck]
      /\ refreshed = FALSE /\ missed = FALSE /\ load[Reloader] = NoLoad
  BY PolicyAssumption DEF Init, PolicyInit, LoaderInit
<1>2. load[Reloader].pc = "idle" /\ load[Reloader].bypass = FALSE
  BY <1>1, IdleLoads
<1>3. Gathered
  <2>1. reload.pc = "idle" /\ reload.got = Nothing
    BY <1>1 DEF AtRest
  <2> QED BY <1>2, <2>1, NothingGathered DEF Gathered
<1>4. HandedOut /\ Renewed /\ MetadataNew /\ InForce
  BY <1>1, <1>2 DEF HandedOut, Renewed, MetadataNew, InForce
<1>5. ChecksSound
  <2>1. NewCheck.sound
    BY DEF NewCheck
  <2> QED BY <1>1, <2>1 DEF ChecksSound
<1>6. refreshed \in BOOLEAN /\ missed \in BOOLEAN
  BY <1>1
<1> QED BY <1>1, <1>3, <1>4, <1>5, <1>6 DEF PolicyInv, PolicyParts

\* However reloads fail half way, race with requests and share the cache with an
\* adapter that does not verify, the policies in force are one reload's complete
\* result and rest on verified documents, none older than the process after a
\* forced refresh (reloadNetworkPolicies, loadPolicy and shouldBypassCache).
THEOREM PolicySetSound == Spec => []SoundPolicySet
<1>1. Init => LoaderInv /\ PolicyInv
  BY LoaderInitInv, PolicyInvInit DEF Init
<1>2. (LoaderInv /\ PolicyInv) /\ [Next]_vars => (LoaderInv /\ PolicyInv)'
  BY LoaderKeeps, PluginStep, PolicyInvStep DEF LoaderInv
<1>3. PolicyInv => SoundPolicySet
  <2> SUFFICES ASSUME PolicyInv, policies.up PROVE SoundPolicySet
    BY DEF SoundPolicySet
  <2>1. InForce /\ ChecksSound
    BY DEF PolicyInv, PolicyParts
  <2> QED BY <2>1 DEF InForce, ChecksSound, NotOld, SoundPolicySet
<1> QED BY <1>1, <1>2, <1>3, PTL DEF Spec

-----------------------------------------------------------------------------
(* Messages are mediated whole.                                            *)

\* One message is mediated, the others are not.
LEMMA OneMessage ==
    ASSUME MediationInv, NEW m \in Messages, NEW x, mediation' = [mediation EXCEPT ![m] = x],
           UNCHANGED policy, Phases(x)
    PROVE  DOMAIN mediation' = Messages /\ \A q \in Messages : Mediating(q)'
<1>1. /\ DOMAIN mediation' = Messages /\ mediation'[m] = x
      /\ \A q \in Messages : q # m => mediation'[q] = mediation[q]
  BY DEF MediationInv
<1>0. ASSUME NEW r, Phases(r) PROVE Phases(r)'
  BY <1>0 DEF Phases, Whole, AsItCame, Wanted, Needs
<1>2. Mediating(m)'
  BY <1>1, <1>0 DEF Mediating
<1>3. ASSUME NEW q \in Messages, q # m PROVE Mediating(q)'
  <2>1. Phases(mediation[q])
    BY DEF MediationInv, Mediating
  <2> QED BY <1>1, <1>3, <1>0, <2>1 DEF Mediating
<1> QED BY <1>1, <1>2, <1>3

\* The cache of artifacts keeps to its slots.
LEMMA RememberSlots ==
    ASSUME Slotted, NEW o \in Objects, NEW found, Remember(o, found)
    PROVE  Slotted'
<1> DEFINE kept == IF o \in DOMAIN artifacts /\ artifacts[o].left = 0
                   THEN Without(artifacts, o) ELSE artifacts
           full == Len(slots) >= MaxEntries
           news == [found |-> found, left |-> IF found THEN PositiveTTL ELSE NegativeTTL]
<1>0. /\ slots \in Seq(Objects) /\ Len(slots) \in Nat /\ Len(slots) <= MaxEntries
      /\ MaxEntries \in Nat /\ MaxEntries > 0
  BY MediationAssumption DEF Slotted
<1>1. DOMAIN kept \subseteq DOMAIN artifacts
  BY DEF Without
<1>2. \A y \in DOMAIN kept : \E i \in 1 .. Len(slots) : slots[i] = y
  BY <1>1 DEF Slotted
<1>r. IF o \in DOMAIN kept
      THEN artifacts' = With(kept, o, news) /\ UNCHANGED slots
      ELSE /\ artifacts' = With(IF full THEN Without(kept, Head(slots)) ELSE kept, o, news)
           /\ slots' = Append(IF full THEN Tail(slots) ELSE slots, o)
  BY DEF Remember
<1> HIDE DEF kept, news
<1>3. CASE o \in DOMAIN kept
  <2>1. DOMAIN artifacts' = DOMAIN kept /\ UNCHANGED slots
    BY <1>3, <1>r DEF With
  <2> QED BY <1>0, <1>2, <2>1 DEF Slotted
<1>4. CASE o \notin DOMAIN kept /\ ~full
  <2>1. slots' = Append(slots, o) /\ DOMAIN artifacts' = DOMAIN kept \cup {o}
    BY <1>4, <1>r DEF With
  <2>2. /\ slots' \in Seq(Objects) /\ Len(slots') = Len(slots) + 1 /\ slots'[Len(slots) + 1] = o
        /\ \A i \in 1 .. Len(slots) : slots'[i] = slots[i]
    BY <1>0, <2>1
  <2>3. Len(slots') <= MaxEntries
    BY <1>0, <1>4, <2>2
  <2>4. \A y \in DOMAIN kept \cup {o} : \E i \in 1 .. Len(slots') : slots'[i] = y
    BY <1>0, <1>2, <2>2
  <2> QED BY <2>1, <2>2, <2>3, <2>4 DEF Slotted
<1>5. CASE o \notin DOMAIN kept /\ full
  <2> DEFINE rest == Tail(slots)
  <2>0. slots # << >> /\ Len(slots) >= 1
    BY <1>0, <1>5
  <2>1. slots' = Append(rest, o) /\ DOMAIN artifacts' = (DOMAIN kept \ {Head(slots)}) \cup {o}
    BY <1>5, <1>r DEF With, Without
  <2>2. /\ rest \in Seq(Objects) /\ Len(rest) = Len(slots) - 1 /\ Head(slots) = slots[1]
        /\ \A i \in 1 .. Len(rest) : rest[i] = slots[i + 1]
    BY <1>0, <2>0
  <2> HIDE DEF rest
  <2>3. /\ slots' \in Seq(Objects) /\ Len(slots') = Len(slots) /\ slots'[Len(slots)] = o
        /\ \A i \in 1 .. Len(rest) : slots'[i] = rest[i]
    BY <1>0, <2>0, <2>1, <2>2
  <2>4. ASSUME NEW y \in DOMAIN kept, y # Head(slots)
        PROVE  \E i \in 1 .. Len(slots') : slots'[i] = y
    <3>1. PICK i \in 1 .. Len(slots) : slots[i] = y
      BY <1>2, <2>4
    <3>2. i # 1
      BY <2>2, <2>4, <3>1
    <3>3. i - 1 \in 1 .. Len(rest) /\ i - 1 \in 1 .. Len(slots')
      BY <1>0, <2>2, <2>3, <3>1, <3>2
    <3>4. slots'[i - 1] = y
      BY <1>0, <2>2, <2>3, <3>1, <3>3
    <3> QED BY <3>3, <3>4
  <2>5. \E i \in 1 .. Len(slots') : slots'[i] = o
    BY <1>0, <2>0, <2>3
  <2>6. Len(slots') <= MaxEntries
    BY <1>0, <2>3
  <2> QED BY <2>1, <2>3, <2>4, <2>5, <2>6 DEF Slotted
<1> QED BY <1>3, <1>4, <1>5

\* A message that has just arrived.
LEMMA FreshMediation == Phases(NoMediation)
<1>1. /\ DOMAIN NoMediation = Fields /\ NoMediation.pc = "arrived" /\ NoMediation.fetched = {}
      /\ NoMediation.translated = {}
  BY DEF NoMediation, Fields
<1>2. ~NoMediation.trouble /\ ~NoMediation.rewritten /\ ~NoMediation.named
  BY DEF NoMediation
<1> QED BY <1>1, <1>2 DEF Phases, AsItCame

\* applyOnFailure ends a mediation whose message has not been touched.
LEMMA FailureWhole ==
    ASSUME MediationInv, NEW m \in Messages, OnFailure(m), AsItCame(mediation[m]),
           UNCHANGED policy
    PROVE  DOMAIN mediation' = Messages /\ \A q \in Messages : Mediating(q)'
<1> DEFINE end == IF policy.onFailure = "passThrough" THEN "forwarded" ELSE "refused"
           x == [mediation[m] EXCEPT !.trouble = TRUE, !.pc = end]
<1>0. DOMAIN mediation = Messages /\ DOMAIN mediation[m] = Fields
  BY DEF MediationInv, Mediating, Phases
<1>1. mediation' = [mediation EXCEPT ![m] = x]
  BY <1>0 DEF OnFailure
<1>2. end \in {"forwarded", "refused"} /\ (end = "forwarded" => policy.onFailure = "passThrough")
  OBVIOUS
<1> HIDE DEF end
<1>3. DOMAIN x = Fields /\ x.pc = end /\ x.translated = {}
  BY <1>0 DEF Fields, AsItCame
<1>4. x.trouble /\ ~x.rewritten
  BY <1>0 DEF Fields, AsItCame
<1> HIDE DEF x
<1>5. Phases(x)
  BY <1>2, <1>3, <1>4 DEF Phases, Whole, AsItCame
<1> QED BY <1>1, <1>5, OneMessage

\* One need has been tried: it was fetched, or there is trouble.
LEMMA FetchedWhole ==
    ASSUME MediationInv, NEW m \in Messages, NEW o \in mediation[m].todo, NEW found,
           Fetched(m, o, found), mediation[m].pc = "fetch", UNCHANGED policy
    PROVE  DOMAIN mediation' = Messages /\ \A q \in Messages : Mediating(q)'
<1> DEFINE r == mediation[m]
           got == IF found THEN r.fetched \cup {o} ELSE r.fetched
           bad == r.trouble \/ ~found
           x == [r EXCEPT !.todo = r.todo \ {o}, !.fetched = got, !.trouble = bad]
<1>0. /\ DOMAIN mediation = Messages /\ DOMAIN r = Fields
      /\ r.named /\ r.translated = {} /\ ~r.rewritten
      /\ ~r.trouble => r.fetched \cup r.todo = Wanted(r)
  BY DEF MediationInv, Mediating, Phases, AsItCame
<1>1. mediation' = [mediation EXCEPT ![m] = x]
  BY <1>0, Zenon DEF Fetched
<1>2. /\ DOMAIN x = Fields /\ x.pc = "fetch" /\ x.translated = {}
      /\ x.todo = r.todo \ {o} /\ x.carries = r.carries /\ x.version = r.version
      /\ x.fetched = got
  BY <1>0 DEF Fields
<1>3. x.named /\ ~x.rewritten
  BY <1>0 DEF Fields
<1>4. x.trouble = bad
  BY <1>0 DEF Fields
<1>5. ASSUME ~x.trouble PROVE x.fetched \cup x.todo = Wanted(x)
  <2>1. found /\ ~r.trouble
    BY <1>4, <1>5, Zenon
  <2>2. got = r.fetched \cup {o}
    BY <2>1
  <2>3. r.fetched \cup r.todo = Wanted(r)
    BY <1>0, <2>1
  <2>4. Wanted(x) = Wanted(r)
    BY <1>2, Zenon DEF Wanted
  <2> HIDE DEF x, r, got, bad
  <2> QED BY <1>2, <2>2, <2>3, <2>4
<1> HIDE DEF x
<1>6. Phases(x)
  BY <1>2, <1>3, <1>5 DEF Phases, AsItCame
<1> QED BY <1>1, <1>6, OneMessage

\* What the mediation's steps do to the cache of artifacts.
LEMMA CacheStep ==
    ASSUME Slotted, UNCHANGED slots, DOMAIN artifacts' \subseteq DOMAIN artifacts
    PROVE  Slotted'
  BY DEF Slotted

LEMMA MediationKeeps ==
    ASSUME MediationInv, MediationNext
    PROVE  MediationInv'
<1>0. /\ DOMAIN mediation = Messages /\ Slotted
      /\ \A m \in Messages : Mediating(m)
  BY DEF MediationInv
<1>s. ASSUME UNCHANGED <<artifacts, slots>> PROVE Slotted'
  BY <1>0, <1>s, CacheStep
<1>u. ASSUME UNCHANGED <<policy, mediation>>
      PROVE  DOMAIN mediation' = Messages /\ \A q \in Messages : Mediating(q)'
  BY <1>0, <1>u DEF Mediating, Phases, Whole, AsItCame, Wanted, Needs
<1>v. ASSUME UNCHANGED mediationVars PROVE MediationInv'
  BY <1>s, <1>u, <1>v DEF mediationVars, MediationInv
<1>1. ASSUME NEW m \in Messages, Mediate(m) PROVE MediationInv'
  <2> DEFINE r == mediation[m]
  <2>1. r.pc = "arrived" /\ UNCHANGED <<policy, artifacts, slots>>
    BY <1>1 DEF Mediate
  <2>2. /\ DOMAIN r = Fields /\ r.translated = {} /\ r.fetched = {}
        /\ ~r.rewritten /\ ~r.trouble /\ ~r.named
    BY <1>0, <2>1 DEF Mediating, Phases, AsItCame
  <2>3. DOMAIN mediation' = Messages /\ \A q \in Messages : Mediating(q)'
    <3>1. ASSUME NEW end \in {"refused", "forwarded"}, mediation' = [mediation EXCEPT ![m].pc = end]
          PROVE  DOMAIN mediation' = Messages /\ \A q \in Messages : Mediating(q)'
      <4> DEFINE x == [r EXCEPT !.pc = end]
      <4>1. mediation' = [mediation EXCEPT ![m] = x]
        BY <3>1, Zenon
      <4>2. DOMAIN x = Fields /\ x.pc = end /\ x.translated = {}
        BY <2>2 DEF Fields
      <4>3. ~x.rewritten /\ ~x.named
        BY <2>2 DEF Fields
      <4> HIDE DEF x
      <4>4. Phases(x)
        BY <4>2, <4>3, <3>1 DEF Phases, Whole, AsItCame
      <4> QED BY <2>1, <4>1, <4>4, OneMessage
    <3>2. ASSUME NEW p \in Payloads,
                 mediation' = [mediation EXCEPT ![m].pc = "manifest", ![m].named = TRUE,
                                                ![m].carries = p]
          PROVE  DOMAIN mediation' = Messages /\ \A q \in Messages : Mediating(q)'
      <4> DEFINE x == [r EXCEPT !.pc = "manifest", !.named = TRUE, !.carries = p]
      <4>1. mediation' = [mediation EXCEPT ![m] = x]
        BY <1>0, <3>2
      <4>2. DOMAIN x = Fields /\ x.pc = "manifest" /\ x.translated = {} /\ x.fetched = {}
        BY <2>2 DEF Fields
      <4>3. ~x.rewritten /\ x.named /\ ~x.trouble
        BY <2>2 DEF Fields
      <4> HIDE DEF x
      <4>4. Phases(x)
        BY <4>2, <4>3 DEF Phases, AsItCame
      <4> QED BY <2>1, <4>1, <4>4, OneMessage
    <3> QED BY <1>1, <3>1, <3>2 DEF Mediate
  <2> QED BY <1>s, <2>1, <2>3 DEF MediationInv
<1>2. ASSUME NEW m \in Messages, CheckCompatibility(m) PROVE MediationInv'
  <2> DEFINE r == mediation[m]
  <2>1. r.pc = "manifest" /\ UNCHANGED <<policy, artifacts, slots>>
    BY <1>2 DEF CheckCompatibility
  <2>2. /\ DOMAIN r = Fields /\ r.translated = {} /\ r.fetched = {} /\ AsItCame(r)
        /\ ~r.rewritten /\ ~r.trouble /\ r.named
    BY <1>0, <2>1 DEF Mediating, Phases, AsItCame
  <2>3. DOMAIN mediation' = Messages /\ \A q \in Messages : Mediating(q)'
    <3>1. CASE OnFailure(m)
      BY <2>1, <2>2, <3>1, FailureWhole
    <3> DEFINE v == load[m].doc.v
               needs == Needs(r.carries, v)
               end == CASE needs = {} -> "forwarded"
                        [] needs # {} /\ policy.action = "reject" -> "refused"
                        [] OTHER -> "fetch"
               x == [r EXCEPT !.version = v, !.todo = needs, !.pc = end]
    <3>2. CASE mediation' = [mediation EXCEPT ![m].version = v, ![m].todo = needs, ![m].pc = end]
      <4>1. end \in {"forwarded", "refused", "fetch"} /\ (end = "forwarded" => needs = {})
        OBVIOUS
      <4> HIDE DEF needs, end, v
      <4>2. mediation' = [mediation EXCEPT ![m] = x]
        BY <1>0, <3>2
      <4>3. /\ DOMAIN x = Fields /\ x.translated = {} /\ x.fetched = {} /\ x.pc = end
            /\ x.todo = needs /\ x.version = v /\ x.carries = r.carries
        BY <2>2 DEF Fields
      <4>4. ~x.rewritten /\ x.named /\ ~x.trouble
        BY <2>2 DEF Fields
      <4>5. Wanted(x) = needs
        BY <4>3, Zenon DEF Wanted, needs
      <4> HIDE DEF x
      <4>6. Phases(x)
        BY <4>1, <4>3, <4>4, <4>5 DEF Phases, Whole, AsItCame
      <4> QED BY <2>1, <4>2, <4>6, OneMessage
    <3> QED BY <1>2, <3>1, <3>2 DEF CheckCompatibility
  <2> QED BY <1>s, <2>1, <2>3 DEF MediationInv
<1>3. ASSUME NEW m \in Messages, Translate(m) PROVE MediationInv'
  <2> DEFINE r == mediation[m]
  <2>1. r.pc = "fetch" /\ r.todo = {} /\ UNCHANGED <<policy, artifacts, slots>>
    BY <1>3 DEF Translate
  <2>2. DOMAIN r = Fields /\ AsItCame(r) /\ r.named
    BY <1>0, <2>1 DEF Mediating, Phases
  <2>3. DOMAIN mediation' = Messages /\ \A q \in Messages : Mediating(q)'
    <3>1. CASE OnFailure(m)
      BY <2>1, <2>2, <3>1, FailureWhole
    <3> DEFINE whole == r.fetched \cap Outside # {}
               x == [r EXCEPT !.pc = "forwarded", !.translated = r.fetched \ Outside,
                              !.rewritten = whole]
    <3>2. CASE /\ ~r.trouble
               /\ mediation' = [mediation EXCEPT ![m].pc = "forwarded",
                                                 ![m].translated = r.fetched \ Outside,
                                                 ![m].rewritten = whole]
      <4>1. r.fetched = Wanted(r)
        <5>1. r.fetched \cup r.todo = Wanted(r)
          BY <1>0, <2>1, <3>2 DEF Mediating, Phases
        <5> QED BY <2>1, <5>1
      <4>2. mediation' = [mediation EXCEPT ![m] = x]
        BY <1>0, <3>2, Zenon
      <4>3. /\ DOMAIN x = Fields /\ x.translated = r.fetched \ Outside /\ x.pc = "forwarded"
            /\ x.carries = r.carries /\ x.version = r.version
        BY <2>2 DEF Fields
      <4>4. ~x.trouble /\ x.named
        BY <2>2, <3>2 DEF Fields
      <4>5. x.rewritten = whole
        BY <2>2 DEF Fields
      <4>6. Wanted(x) = Wanted(r)
        BY <4>3, Zenon DEF Wanted
      <4> HIDE DEF x, r
      <4>7. x.translated = Wanted(x) \ Outside /\ (x.rewritten <=> Wanted(x) \cap Outside # {})
        BY <4>1, <4>3, <4>5, <4>6
      <4>8. Phases(x)
        BY <4>3, <4>4, <4>7 DEF Phases, Whole
      <4> QED BY <2>1, <4>2, <4>8, OneMessage
    <3> QED BY <1>3, <3>1, <3>2 DEF Translate
  <2> QED BY <1>s, <2>1, <2>3 DEF MediationInv
<1>4. ASSUME NEW m \in Messages, NEW o \in Objects, FetchArtifact(m, o) PROVE MediationInv'
  <2>1. mediation[m].pc = "fetch" /\ o \in mediation[m].todo /\ UNCHANGED policy
    BY <1>4 DEF FetchArtifact
  <2>2. ASSUME NEW found, Fetched(m, o, found), UNCHANGED <<artifacts, slots>> PROVE MediationInv'
    <3>1. DOMAIN mediation' = Messages /\ \A q \in Messages : Mediating(q)'
      BY <2>1, <2>2, FetchedWhole
    <3> QED BY <1>s, <2>2, <3>1 DEF MediationInv
  <2>3. CASE Fetched(m, o, o \in published) /\ Remember(o, o \in published)
    <3>1. DOMAIN mediation' = Messages /\ \A q \in Messages : Mediating(q)'
      BY <2>1, <2>3, FetchedWhole
    <3>2. Slotted'
      BY <1>0, <2>3, RememberSlots
    <3> QED BY <3>1, <3>2 DEF MediationInv
  <2> QED BY <1>4, <2>2, <2>3 DEF FetchArtifact
<1>5. ASSUME NEW m \in Messages, NEW o \in Objects, FetchFails(m, o) PROVE MediationInv'
  <2>1. /\ mediation[m].pc = "fetch" /\ o \in mediation[m].todo /\ UNCHANGED <<policy, slots>>
        /\ Fetched(m, o, FALSE) /\ artifacts' = Without(artifacts, o)
    BY <1>5 DEF FetchFails
  <2>2. DOMAIN mediation' = Messages /\ \A q \in Messages : Mediating(q)'
    BY <2>1, FetchedWhole
  <2>3. DOMAIN artifacts' \subseteq DOMAIN artifacts
    BY <2>1 DEF Without
  <2> QED BY <1>0, <2>1, <2>2, <2>3, CacheStep DEF MediationInv
<1>6. ASSUME NEW m \in Messages, TranslateFails(m) PROVE MediationInv'
  <2> DEFINE x == [mediation[m] EXCEPT !.pc = "refused"]
  <2>1. UNCHANGED <<policy, artifacts, slots>>
    BY <1>6 DEF TranslateFails
  <2>2. mediation' = [mediation EXCEPT ![m] = x]
    BY <1>6, Zenon DEF TranslateFails
  <2>3. DOMAIN x = Fields /\ x.pc = "refused"
    BY <1>0 DEF Mediating, Phases, Fields
  <2> HIDE DEF x
  <2>4. DOMAIN mediation' = Messages /\ \A q \in Messages : Mediating(q)'
    BY <2>1, <2>2, <2>3, OneMessage DEF Phases
  <2> QED BY <1>s, <2>1, <2>4 DEF MediationInv
<1>7. ASSUME NEW m \in Messages, NextMessage(m) PROVE MediationInv'
  <2>1. mediation' = [mediation EXCEPT ![m] = NoMediation] /\ UNCHANGED <<policy, artifacts, slots>>
    BY <1>7 DEF NextMessage
  <2>2. DOMAIN mediation' = Messages /\ \A q \in Messages : Mediating(q)'
    BY <2>1, FreshMediation, OneMessage
  <2> QED BY <1>s, <2>1, <2>2 DEF MediationInv
<1>8. ASSUME NEW o \in Objects, PublishArtifact(o) PROVE MediationInv'
  BY <1>s, <1>u, <1>8 DEF PublishArtifact, MediationInv
<1>9. CASE MediationTick
  <2>1. UNCHANGED <<policy, slots, mediation>> /\ DOMAIN artifacts' = DOMAIN artifacts
    BY <1>9 DEF MediationTick
  <2> QED BY <1>0, <1>u, <2>1, CacheStep DEF MediationInv
<1> QED BY <1>1, <1>2, <1>3, <1>4, <1>5, <1>6, <1>7, <1>8, <1>9, <1>v
        DEF MediationNext, MediationStep

LEMMA MediationInitInv == MediationInit => MediationInv
<1> SUFFICES ASSUME MediationInit PROVE MediationInv
  OBVIOUS
<1>1. DOMAIN mediation = Messages /\ \A m \in Messages : mediation[m] = NoMediation
  BY DEF MediationInit
<1>2. ASSUME NEW m \in Messages PROVE Mediating(m)
  BY <1>1, <1>2, FreshMediation DEF Mediating
<1>3. slots = << >> /\ artifacts = << >>
  BY DEF MediationInit
<1>4. slots \in Seq(Objects) /\ Len(slots) = 0 /\ DOMAIN artifacts = {}
  BY <1>3
<1>5. Slotted
  BY <1>4, MediationAssumption DEF Slotted
<1> QED BY <1>1, <1>2, <1>5 DEF MediationInv

\* Whatever artifacts are missing, appear, expire or are evicted while messages
\* are mediated side by side, and whatever the manifests say, a message to a named
\* counterparty leaves with exactly the objects in it translated whose type the
\* manifest declares but not in that version, or untouched where the operator
\* allows that; one to nobody in particular leaves untouched.  The objects that
\* CheckCompatibility skips, and those outside the message, are not promised
\* anything.  The cache of artifacts keeps to its capacity (Mediate,
\* CheckCompatibility, fetchAllArtifacts, applyOnFailure and the cache's set).
THEOREM MediatedWholeHolds == Spec => []MediatedWhole
<1>1. Init => MediationInv
  BY MediationInitInv DEF Init
<1>2. MediationInv /\ [Next]_vars => MediationInv'
  <2> SUFFICES ASSUME MediationInv, [Next]_vars PROVE MediationInv'
    OBVIOUS
  <2>1. CASE MediateSchema
    BY <2>1, MediationKeeps DEF MediateSchema
  <2>2. CASE UNCHANGED mediationVars
    <3>1. Slotted'
      BY <2>2, CacheStep DEF MediationInv, mediationVars
    <3>2. DOMAIN mediation' = Messages /\ \A q \in Messages : Mediating(q)'
      BY <2>2 DEF MediationInv, mediationVars, Mediating, Phases, Whole, AsItCame, Wanted, Needs
    <3> QED BY <3>1, <3>2 DEF MediationInv
  <2> QED BY <2>1, <2>2 DEF Next, ValidateSign, CheckPolicy, vars
<1>3. MediationInv => MediatedWhole
  <2> SUFFICES ASSUME MediationInv PROVE MediatedWhole
    OBVIOUS
  <2>1. \A m \in Messages : mediation[m].pc = "forwarded" => Whole(mediation[m])
    BY DEF MediationInv, Mediating, Phases
  <2>2. /\ Len(slots) <= MaxEntries /\ DOMAIN slots = 1 .. Len(slots)
        /\ \A o \in DOMAIN artifacts : \E i \in 1 .. Len(slots) : slots[i] = o
    BY DEF MediationInv, Slotted
  <2> QED BY <2>1, <2>2 DEF Whole, AsItCame, Wanted, Untouched, MediatedWhole
<1> QED BY <1>1, <1>2, <1>3, PTL DEF Spec
=============================================================================
