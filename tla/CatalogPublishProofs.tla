------------------------ MODULE CatalogPublishProofs ------------------------
(***************************************************************************)
(* Machine-checked proofs about CatalogPublish, for any requests, catalogs, *)
(* bodies, keys and bounds.                                                 *)
(*                                                                         *)
(* What an answer says adds up whatever requests run at the same time       *)
(* (Booked).  That a version names one content rests on Held: what a request *)
(* has loaded of a catalog is still what is stored, unless another request  *)
(* has stored that catalog meanwhile, which puts it in raced.               *)
(***************************************************************************)
EXTENDS CatalogPublish, TLAPS

Working(r) == pc[r] \notin {"idle", "done"}

\* A function of the requests.
PerRequest(f) == f = [r \in Requests |-> f[r]]

\* Every request has its own slot in every variable.
Slots ==
    /\ PerRequest(pc) /\ PerRequest(tries)
    /\ DOMAIN pc = Requests /\ DOMAIN body = Requests /\ DOMAIN signer = Requests
    /\ DOMAIN prior = Requests /\ DOMAIN plan = Requests /\ DOMAIN errs = Requests
    /\ DOMAIN fatal = Requests /\ DOMAIN tries = Requests /\ DOMAIN answer = Requests
    /\ DOMAIN left = Requests /\ DOMAIN shown = Requests
    /\ \A r \in Requests : body[r] \in Bodies[r]

\* An entry of the index.
Entry(e) == e.base \in Nat /\ e.version \in Nat /\ e.base <= e.version /\ e.live \in BOOLEAN

\* A log holds this content of catalog c.
Logged(entries, c, content) == \E x \in entries : x.catalog = c /\ x.live /\ x.content = content

\* What is on the index is an entry, and what is live there was published.
Index ==
    /\ DOMAIN index = Catalogs
    /\ \A c \in Catalogs : Entry(index[c]) /\ (index[c].live => Logged(log, c, index[c].content))

\* Where a request is, and the catalogs it is about.
InPhase(r) ==
    /\ pc[r] \in {"idle", "load", "sign", "store", "fetch", "wait", "answer", "done"}
    /\ tries[r] \in 0 .. Attempts
    /\ pc[r] \notin {"answer", "done"} => tries[r] < Attempts
    /\ Working(r) => ValidBody(body[r])
    /\ DOMAIN plan[r] \subseteq Touched(body[r]) /\ errs[r] \subseteq Touched(body[r])
    /\ pc[r] # "done" => answer[r].status = ""

\* What it has loaded was published.
HasLoaded(r) ==
    pc[r] \in {"sign", "store"} => \A c \in Touched(body[r]) :
        Entry(prior[r][c]) /\ (prior[r][c].live => Logged(log, c, prior[r][c].content))

\* What it plans is what was submitted, or a tombstone.
HasPlanned(r) ==
    \A c \in DOMAIN plan[r] :
        /\ Entry(plan[r][c])
        /\ c \in Submitted(body[r]) =>
              plan[r][c].live /\ plan[r][c].content = Submission(body[r], c).content
        /\ c \notin Submitted(body[r]) => ~plan[r][c].live

\* What it has stored is logged.
HasStored(r) ==
    pc[r] \in {"fetch", "wait", "answer"} => \A c \in DOMAIN plan[r] : Record(r, c, plan[r][c]) \in log

\* What it neither rejects nor publishes is a submission that had been published
\* as it is.
HasLeft(r) ==
    pc[r] \in {"store", "fetch", "wait", "answer"} =>
        \A c \in Touched(body[r]) \ (errs[r] \cup DOMAIN plan[r]) :
            c \in Submitted(body[r]) /\ Logged(log, c, Submission(body[r], c).content)

\* What a request has in hand, phase by phase.
Booked(r) == InPhase(r) /\ HasLoaded(r) /\ HasPlanned(r) /\ HasStored(r) /\ HasLeft(r)

\* AnswersAddUp, of one request.
AddsUp(r) ==
    answer[r].status = "COMPLETED" =>
        /\ AcceptedIds(r) \cup answer[r].rejected \cup RetiredIds(r) = Touched(body[r])
        /\ AcceptedIds(r) \cap answer[r].rejected = {} /\ RetiredIds(r) \cap answer[r].rejected = {}
        /\ \A i, j \in answer[r].accepted : body[r].catalogs[i].id = body[r].catalogs[j].id => i = j
        /\ \A i \in DOMAIN body[r].retire \ answer[r].retired :
              body[r].retire[i] \in AcceptedIds(r) \cup answer[r].rejected
        /\ \A c \in AcceptedIds(r) : Logged(log, c, Submission(body[r], c).content)
        /\ \A c \in RetiredIds(r) : \E x \in log : x.catalog = c /\ ~x.live /\ x.by = r

BInv == Slots /\ Index /\ \A r \in Requests : Booked(r) /\ AddsUp(r)

-----------------------------------------------------------------------------
(* Versions, and what is served.                                           *)

\* What a request has loaded is what is stored, of the catalogs nobody has
\* stored meanwhile.
Held(r) ==
    pc[r] \in {"sign", "store"} => \A c \in Touched(body[r]) \ raced : prior[r][c] = index[c]

\* What it plans comes of what it has loaded.
PlannedFrom(r) ==
    pc[r] = "store" => \A c \in DOMAIN plan[r] :
        plan[r][c] = NextEntry(body[r], c, prior[r][c], signer[r])

\* What AcceptedChangeIsServed says of one catalog.
Shows(r, c) ==
    LET e == plan[r][c]
        s == shown[r].index[c]
    IN  /\ s.version >= e.version /\ s.key = shown[r].registered
        /\ c \notin raced /\ s.version = e.version => s.content = e.content
        /\ s.live \/ \E x \in log : x.catalog = c /\ x.by # r /\ ~x.live

\* The changes it does not reject were on the index it was shown.
Verified(r) ==
    pc[r] \in {"wait", "answer"} => \A c \in DOMAIN plan[r] :
        c \in Submitted(body[r]) /\ c \notin errs[r] /\ IsChange(plan[r][c]) => Shows(r, c)

\* AcceptedChangeIsServed, of one request.
Accepted(r) ==
    /\ pc[r] # "done" => answer[r].accepted = {}
    /\ \A c \in AcceptedIds(r) \cap DOMAIN plan[r] : IsChange(plan[r][c]) => Shows(r, c)

\* Of a catalog nobody raced for, the newest version logged is the one on the
\* index.
Newest(x) ==
    /\ x.catalog \in Catalogs /\ x.version \in Nat
    /\ x.catalog \notin raced =>
          /\ x.version <= index[x.catalog].version
          /\ x.version = index[x.catalog].version => x.content = index[x.catalog].content

\* Nobody has logged a tombstone of a catalog it submitted.
Truthful(x) == x.by \in Requests /\ (x.catalog \in Submitted(body[x.by]) => x.live)

\* A log holds this entry of catalog c.
Recorded(entries, c, e) ==
    \E x \in entries : /\ x.catalog = c /\ x.version = e.version
                       /\ x.content = e.content /\ x.live = e.live

\* An index whose entries have been logged.
Published(idx) ==
    /\ DOMAIN idx = Catalogs
    /\ \A c \in Catalogs : Entry(idx[c]) /\ (idx[c].version > 0 => Recorded(log, c, idx[c]))

OInv ==
    /\ VersionNamesOneContent
    /\ \A x \in log : Newest(x) /\ Truthful(x)
    /\ Published(index) /\ Published(served)
    /\ \A r \in Requests : Held(r) /\ PlannedFrom(r) /\ Verified(r) /\ Accepted(r)

-----------------------------------------------------------------------------
(* Steps and slots.                                                        *)

LEMMA SetIs ==
    ASSUME NEW f, DOMAIN f = Requests, NEW r \in Requests, NEW v
    PROVE  /\ DOMAIN Set(f, r, v) = Requests /\ Set(f, r, v)[r] = v
           /\ \A q \in Requests : q # r => Set(f, r, v)[q] = f[q]
           /\ PerRequest(Set(f, r, v))
    BY DEF Set, PerRequest

\* An answer to a request that was refused or has failed.
LEMMA Refusal ==
    ASSUME NEW s
    PROVE  /\ [NoAnswer EXCEPT !.status = s].status = s
           /\ [NoAnswer EXCEPT !.status = s].accepted = {}
    BY DEF NoAnswer

\* A request a step does not touch.
Same(q) ==
    /\ pc'[q] = pc[q] /\ body'[q] = body[q] /\ signer'[q] = signer[q]
    /\ prior'[q] = prior[q] /\ plan'[q] = plan[q] /\ errs'[q] = errs[q]
    /\ fatal'[q] = fatal[q] /\ tries'[q] = tries[q] /\ answer'[q] = answer[q]
    /\ left'[q] = left[q] /\ shown'[q] = shown[q]

\* A request's step touches its own slots only.
LEMMA OwnSlots ==
    ASSUME Slots, NEW r \in Requests, Decode(r) \/ Handle(r) \/ Leave(r)
    PROVE  Slots' /\ body' = body /\ \A q \in Requests : q # r => Same(q)
<1>1. body' = body
  BY DEF Decode, Handle, Load, Sign, Store, Verify, Wait, Respond, Leave
<1>2. CASE Decode(r)
  BY <1>1, <1>2, SetIs DEF Decode, Slots, Same
<1>3. CASE Load(r)
  BY <1>1, <1>3, SetIs DEF Load, Fail, Slots, Same
<1>4. CASE Sign(r)
  <2>1. /\ (\E v : pc' = Set(pc, r, v)) /\ (\E v : errs' = Set(errs, r, v))
        /\ (\E v : fatal' = Set(fatal, r, v)) /\ (\E v : plan' = Set(plan, r, v))
    BY <1>4 DEF Sign
  <2>2. UNCHANGED <<signer, prior, tries, answer, left, shown>>
    BY <1>4 DEF Sign
  <2> QED BY <1>1, <2>1, <2>2, SetIs DEF Slots, Same
<1>5. CASE Store(r)
  BY <1>1, <1>5, SetIs DEF Store, Fail, Slots, Same
<1>6. CASE Verify(r)
  <2>1. /\ (\E v : pc' = Set(pc, r, v)) /\ (\E v : errs' = Set(errs, r, v))
        /\ (\E v : tries' = Set(tries, r, v)) /\ (\E v : shown' = Set(shown, r, v))
    BY <1>6 DEF Verify
  <2>2. UNCHANGED <<signer, prior, plan, fatal, answer, left>>
    BY <1>6 DEF Verify
  <2> QED BY <1>1, <2>1, <2>2, SetIs DEF Slots, Same
<1>7. CASE Wait(r)
  BY <1>1, <1>7, SetIs DEF Wait, Slots, Same
<1>8. CASE Respond(r)
  BY <1>1, <1>8, SetIs DEF Respond, Slots, Same
<1>9. CASE Leave(r)
  <2>1. \E v : left' = Set(left, r, v)
    BY <1>9, Zenon DEF Leave
  <2>2. UNCHANGED <<pc, signer, prior, plan, errs, fatal, tries, answer, shown>>
    BY <1>9 DEF Leave
  <2> QED BY <1>1, <2>1, <2>2, SetIs DEF Slots, Same
<1> QED BY <1>2, <1>3, <1>4, <1>5, <1>6, <1>7, <1>8, <1>9 DEF Handle

\* A request a step leaves alone keeps what it has in hand.
LEMMA KeepsBooked ==
    ASSUME NEW q \in Requests, Same(q), log \subseteq log', Booked(q), AddsUp(q)
    PROVE  Booked(q)' /\ AddsUp(q)'
<1>0. \A c, content : Logged(log, c, content) => Logged(log', c, content)
  BY DEF Logged
<1>1. Booked(q)'
  <2>1. InPhase(q)'
    BY DEF Same, Booked, InPhase, Working
  <2>2. HasLoaded(q)'
    BY <1>0 DEF Same, Booked, HasLoaded
  <2>3. HasPlanned(q)'
    BY DEF Same, Booked, HasPlanned
  <2>4. HasStored(q)'
    BY DEF Same, Booked, HasStored
  <2>5. HasLeft(q)'
    BY <1>0 DEF Same, Booked, HasLeft
  <2> QED BY <2>1, <2>2, <2>3, <2>4, <2>5 DEF Booked
<1>2. AddsUp(q)'
  <2>1. AcceptedIds(q)' = AcceptedIds(q) /\ RetiredIds(q)' = RetiredIds(q)
    BY DEF Same, AcceptedIds, RetiredIds
  <2>2. /\ answer'[q] = answer[q] /\ body'[q] = body[q]
        /\ \A c : (\E x \in log : x.catalog = c /\ ~x.live /\ x.by = q) =>
                   \E x \in log' : x.catalog = c /\ ~x.live /\ x.by = q
    BY DEF Same
  <2> QED BY <1>0, <2>1, <2>2 DEF AddsUp
<1> QED BY <1>1, <1>2

\* The entry a request plans for a catalog.
LEMMA NextEntryIs ==
    ASSUME NEW b, NEW c \in Touched(b), NEW was, Entry(was), NEW k
    PROVE  /\ Entry(NextEntry(b, c, was, k))
           /\ c \in Submitted(b) =>
                /\ NextEntry(b, c, was, k).content = Submission(b, c).content
                /\ NextEntry(b, c, was, k).version = was.version + 1
                /\ NextEntry(b, c, was, k).live
           /\ c \notin Submitted(b) =>
                /\ NextEntry(b, c, was, k).content = was.content
                /\ NextEntry(b, c, was, k).version = was.version
                /\ ~NextEntry(b, c, was, k).live
<1> DEFINE e == NextEntry(b, c, was, k)
<1>1. CASE c \in Retired(b)
  <2>1. e = [base |-> was.base, version |-> was.version, content |-> was.content,
             live |-> FALSE, key |-> k]
    BY <1>1 DEF NextEntry
  <2>2. c \notin Submitted(b)
    BY <1>1 DEF Retired, RetireOnly
  <2>3. e.base = was.base /\ e.version = was.version /\ e.content = was.content /\ e.live = FALSE
    BY <2>1
  <2> HIDE DEF e
  <2>4. Entry(e)
    BY <2>3 DEF Entry
  <2> QED BY <2>2, <2>3, <2>4 DEF e
<1>2. CASE c \notin Retired(b)
  <2>1. \E base \in {was.version + 1, was.base} :
           e = [base |-> base, version |-> was.version + 1, content |-> Submission(b, c).content,
                live |-> TRUE, key |-> k]
    BY <1>2 DEF NextEntry
  <2>2. /\ e.base \in {was.version + 1, was.base} /\ e.version = was.version + 1
        /\ e.content = Submission(b, c).content /\ e.live = TRUE
    BY <2>1
  <2> HIDE DEF e
  <2>a. was.base \in Nat /\ was.version \in Nat /\ was.base <= was.version
    BY DEF Entry
  <2>b. e.base \in Nat /\ e.version \in Nat /\ e.base <= e.version
    BY <2>2, <2>a
  <2>3. Entry(e)
    BY <2>2, <2>b DEF Entry
  <2>4. c \in Submitted(b)
    BY <1>2 DEF Touched
  <2> QED BY <2>2, <2>3, <2>4 DEF e
<1> QED BY <1>1, <1>2

\* One attempt at verification: what a request rejects of what it published
\* holds everything that is missing.
LEMMA VerifyIs ==
    ASSUME NEW r \in Requests, DOMAIN pc = Requests, DOMAIN errs = Requests, DOMAIN shown = Requests,
           Verify(r)
    PROVE  /\ pc'[r] \in {"answer", "wait"} /\ (pc'[r] = "wait" => ~LastTry(r))
           /\ shown'[r] = [index |-> served, registered |-> registered]
           /\ \E got \in SUBSET (DOMAIN plan[r]) :
                /\ errs'[r] = (errs[r] \ DOMAIN plan[r]) \cup got
                /\ \A c \in DOMAIN plan[r] : Missing(plan[r][c], c) => c \in got
<1> DEFINE mine == DOMAIN plan[r]
           missing == {c \in mine : Missing(plan[r][c], c)}
           others == errs[r] \ mine
           Goal(got) == /\ pc'[r] \in {"answer", "wait"} /\ (pc'[r] = "wait" => ~LastTry(r))
                        /\ errs'[r] = others \cup got /\ got \subseteq mine /\ missing \subseteq got
<1>1. CASE /\ errs' = Set(errs, r, others \cup mine)
           /\ pc' = Set(pc, r, IF LastTry(r) THEN "answer" ELSE "wait")
  <2>1. errs'[r] = others \cup mine /\ pc'[r] = IF LastTry(r) THEN "answer" ELSE "wait"
    BY <1>1, SetIs
  <2>2. Goal(mine)
    BY <2>1
  <2>3. shown'[r] = [index |-> served, registered |-> registered]
    BY SetIs DEF Verify
  <2> QED BY <2>2, <2>3
<1>2. ASSUME NEW broken \in SUBSET (mine \ missing), NEW permanent \in BOOLEAN,
             errs' = Set(errs, r, others \cup missing \cup broken),
             pc' = Set(pc, r,
                    IF LastTry(r) \/ missing \cup broken = {} \/ (permanent /\ missing = {})
                    THEN "answer" ELSE "wait")
      PROVE  \E got : Goal(got)
  <2>1. errs'[r] = others \cup missing \cup broken
    BY <1>2, SetIs
  <2>2. pc'[r] = IF LastTry(r) \/ missing \cup broken = {} \/ (permanent /\ missing = {})
                 THEN "answer" ELSE "wait"
    BY <1>2, SetIs
  <2>3. pc'[r] \in {"answer", "wait"} /\ (pc'[r] = "wait" => ~LastTry(r))
    BY <2>2
  <2>4. Goal(missing \cup broken)
    BY <2>1, <2>3
  <2> QED BY <2>4
<1>3. PICK got : Goal(got)
  BY <1>1, <1>2 DEF Verify
<1>4. shown'[r] = [index |-> served, registered |-> registered]
  BY SetIs DEF Verify
<1> QED BY <1>3, <1>4

\* The log only grows, and the index and the log change together.
LEMMA LogGrows ==
    ASSUME [Next]_vars
    PROVE  log \subseteq log'
    BY DEF Next, vars, Decode, Handle, Load, Sign, Store, Verify, Wait, Respond, Leave, Propagate,
           Rotate

LEMMA BInvStep == BInv /\ [Next]_vars => BInv'
<1> SUFFICES ASSUME BInv, [Next]_vars PROVE BInv'
  OBVIOUS
<1>0. Slots /\ Index /\ Attempts \in Nat /\ Attempts > 0 /\ log \subseteq log'
      /\ \A q \in Requests : Booked(q) /\ AddsUp(q)
  BY CatalogPublishAssumption, LogGrows DEF BInv
<1>1. CASE UNCHANGED vars \/ Propagate \/ Rotate
  <2>1. UNCHANGED <<reqVars, index, log, shown>>
    BY <1>1 DEF vars, Propagate, Rotate
  <2>2. \A q \in Requests : Same(q)
    BY <2>1 DEF reqVars, Same
  <2>3. Slots' /\ Index'
    BY <1>0, <2>1 DEF reqVars, Slots, Index
  <2> QED BY <1>0, <2>2, <2>3, KeepsBooked DEF BInv
<1>2. ASSUME NEW r \in Requests, Decode(r) \/ Handle(r) \/ Leave(r) PROVE BInv'
  <2> DEFINE b == body[r]
  <2>0. /\ Booked(r) /\ AddsUp(r) /\ b \in Bodies[r] /\ body' = body /\ Slots'
        /\ body'[r] = b
        /\ \A q \in Requests : q # r => Booked(q)' /\ AddsUp(q)'
    BY <1>0, <1>2, OwnSlots, KeepsBooked DEF Slots
  <2>a. SUFFICES Index' /\ Booked(r)' /\ AddsUp(r)'
    BY <2>0 DEF BInv
  <2>b. \A c, content : Logged(log, c, content) => Logged(log', c, content)
    BY <1>0 DEF Logged
  <2>c. ASSUME UNCHANGED <<index, log>> PROVE Index'
    BY <1>0, <2>c DEF Index
  <2>d. ASSUME answer'[r].status \in {"", "BAD_REQUEST", "FAILED"} PROVE AddsUp(r)'
    BY <2>d DEF AddsUp
  <2>e. ASSUME pc[r] # "done" PROVE answer[r].status = ""
    BY <2>0, <2>e DEF Booked, InPhase
  <2>i. \A v : /\ Set(pc, r, v)[r] = v /\ Set(answer, r, v)[r] = v /\ Set(prior, r, v)[r] = v
              /\ Set(tries, r, v)[r] = v
    BY <1>0, SetIs DEF Slots
  <2>h. ASSUME UNCHANGED plan PROVE HasPlanned(r)'
    BY <2>0, <2>h DEF Booked, HasPlanned
  \* A request that fails as a whole.
  <2>f. ASSUME pc'[r] = "done", answer'[r].status \in {"BAD_REQUEST", "FAILED"},
               UNCHANGED <<plan, errs, tries>>
        PROVE  Booked(r)' /\ AddsUp(r)'
    <3>1. InPhase(r)'
      BY <1>0, <2>0, <2>f DEF Booked, InPhase, Working
    <3>2. HasLoaded(r)' /\ HasStored(r)' /\ HasLeft(r)'
      BY <2>f DEF HasLoaded, HasStored, HasLeft
    <3> QED BY <2>d, <2>f, <2>h, <3>1, <3>2 DEF Booked
  <2>g. ASSUME Fail(r) PROVE pc'[r] = "done" /\ answer'[r].status = "FAILED"
    <3>1. pc'[r] = "done" /\ answer'[r] = [NoAnswer EXCEPT !.status = "FAILED"]
      BY <2>g, <2>i, Zenon DEF Fail
    <3> QED BY <3>1, Refusal, Zenon
  <2>1. CASE Decode(r)
    <3>1. pc[r] = "idle" /\ UNCHANGED <<index, log, plan, errs, tries, prior>>
      BY <2>1 DEF Decode
    <3>2. CASE ValidBody(b) /\ pc' = Set(pc, r, "load") /\ UNCHANGED answer
      <4>1. pc'[r] = "load" /\ answer'[r].status = ""
        BY <2>e, <2>i, <3>1, <3>2
      <4>2. InPhase(r)'
        BY <1>0, <2>0, <3>1, <3>2, <4>1 DEF Booked, InPhase, Working
      <4>3. HasLoaded(r)' /\ HasStored(r)' /\ HasLeft(r)'
        BY <4>1 DEF HasLoaded, HasStored, HasLeft
      <4> QED BY <2>c, <2>d, <2>h, <3>1, <4>1, <4>2, <4>3 DEF Booked
    <3>3. CASE /\ pc' = Set(pc, r, "done")
               /\ answer' = Set(answer, r, [NoAnswer EXCEPT !.status = "BAD_REQUEST"])
      <4>1. pc'[r] = "done" /\ answer'[r].status = "BAD_REQUEST"
        <5>1. pc'[r] = "done" /\ answer'[r] = [NoAnswer EXCEPT !.status = "BAD_REQUEST"]
          BY <2>i, <3>3, Zenon
        <5> QED BY <5>1, Refusal, Zenon
      <4> QED BY <2>c, <2>f, <3>1, <4>1
    <3> QED BY <2>1, <3>2, <3>3 DEF Decode
  <2>2. CASE Load(r)
    <3>1. pc[r] = "load" /\ UNCHANGED <<index, log, plan, errs, tries>>
      BY <2>2 DEF Load
    <3>2. CASE Fail(r)
      BY <2>c, <2>f, <2>g, <3>1, <3>2
    <3>3. CASE ~Fail(r)
      <4>1. /\ prior' = Set(prior, r, [c \in Touched(b) |-> index[c]])
            /\ pc' = Set(pc, r, "sign") /\ UNCHANGED answer
        BY <2>2, <3>3 DEF Load
      <4>2. pc'[r] = "sign" /\ prior'[r] = [c \in Touched(b) |-> index[c]] /\ answer'[r].status = ""
        BY <2>e, <2>i, <3>1, <4>1
      <4>3. \A c \in Touched(b) : Entry(prior'[r][c])
               /\ (prior'[r][c].live => Logged(log', c, prior'[r][c].content))
        BY <1>0, <2>0, <2>b, <4>2, BodiesAssumption DEF Index
      <4>4. InPhase(r)'
        BY <1>0, <2>0, <3>1, <4>2 DEF Booked, InPhase, Working
      <4>5. HasLoaded(r)' /\ HasStored(r)' /\ HasLeft(r)'
        BY <2>0, <4>2, <4>3 DEF HasLoaded, HasStored, HasLeft
      <4> QED BY <2>c, <2>d, <2>h, <3>1, <4>2, <4>4, <4>5 DEF Booked
    <3> QED BY <3>2, <3>3
  <2>3. CASE Sign(r)
    <3> DEFINE unknown == {c \in Retired(b) : prior[r][c].version = 0}
    <3>1. pc[r] = "sign" /\ UNCHANGED <<index, log, tries, answer, prior>>
      BY <2>3 DEF Sign
    <3>2. PICK bad \in SUBSET (Submitted(b)) :
              /\ errs' = Set(errs, r, bad \cup unknown)
              /\ plan' = Set(plan, r, [c \in {x \in Touched(b) \ (bad \cup unknown) :
                                               ~Unchanged(b, x, prior[r][x])} |->
                                          NextEntry(b, c, prior[r][c], signer[r])])
              /\ pc' = Set(pc, r, "store")
      BY <2>3 DEF Sign
    <3> DEFINE mine == {x \in Touched(b) \ (bad \cup unknown) : ~Unchanged(b, x, prior[r][x])}
    <3>3. /\ pc'[r] = "store" /\ errs'[r] = bad \cup unknown
          /\ plan'[r] = [c \in mine |-> NextEntry(b, c, prior[r][c], signer[r])]
      BY <1>0, <3>2, SetIs DEF Slots
    <3>4. \A c \in Touched(b) : Entry(prior[r][c])
             /\ (prior[r][c].live => Logged(log, c, prior[r][c].content))
      BY <2>0, <3>1 DEF Booked, HasLoaded
    <3>5. mine \subseteq Touched(b) /\ bad \cup unknown \subseteq Touched(b)
      BY DEF Touched
    <3>6. \A c \in mine : Entry(plan'[r][c])
             /\ (c \in Submitted(b) =>
                   plan'[r][c].live /\ plan'[r][c].content = Submission(b, c).content)
             /\ (c \notin Submitted(b) => ~plan'[r][c].live)
      BY <3>3, <3>4, <3>5, NextEntryIs
    <3>7. \A c \in Touched(b) \ (bad \cup unknown \cup mine) :
             c \in Submitted(b) /\ Logged(log, c, Submission(b, c).content)
      <4> TAKE c \in Touched(b) \ (bad \cup unknown \cup mine)
      <4>1. Unchanged(b, c, prior[r][c])
        OBVIOUS
      <4> QED BY <3>4, <4>1 DEF Unchanged
    <3> HIDE DEF mine, unknown
    <3>8. DOMAIN plan'[r] = mine /\ answer'[r].status = ""
      BY <2>e, <3>1, <3>3
    <3>9. InPhase(r)'
      BY <1>0, <2>0, <3>1, <3>3, <3>5, <3>8 DEF Booked, InPhase, Working
    <3>10. HasLoaded(r)'
      BY <2>0, <3>1, <3>4 DEF HasLoaded
    <3>11. HasPlanned(r)'
      BY <2>0, <3>6, <3>8 DEF HasPlanned
    <3>12. HasStored(r)' /\ HasLeft(r)'
      BY <2>0, <3>1, <3>3, <3>7, <3>8 DEF HasStored, HasLeft
    <3> QED BY <2>c, <2>d, <3>1, <3>8, <3>9, <3>10, <3>11, <3>12 DEF Booked
  <2>4. CASE Store(r)
    <3>1. pc[r] = "store" /\ UNCHANGED <<plan, errs, tries, prior>>
      BY <2>4 DEF Store
    <3>2. CASE Fail(r) /\ UNCHANGED <<index, log>>
      BY <2>c, <2>f, <2>g, <3>1, <3>2
    <3>3. CASE /\ index' = [c \in Catalogs |-> IF c \in DOMAIN plan[r] THEN plan[r][c] ELSE index[c]]
               /\ log' = log \cup {Record(r, c, plan[r][c]) : c \in DOMAIN plan[r]}
               /\ pc' = Set(pc, r, IF DOMAIN plan[r] = {} THEN "answer" ELSE "fetch")
               /\ UNCHANGED answer
      <4>1. pc'[r] \in {"answer", "fetch"} /\ answer'[r].status = ""
        BY <2>e, <2>i, <3>1, <3>3
      <4>2. \A c \in DOMAIN plan[r] : Record(r, c, plan[r][c]) \in log'
        BY <3>3
      <4>3. Booked(r)'
        <5>1. InPhase(r)'
          BY <1>0, <2>0, <3>1, <4>1 DEF Booked, InPhase, Working
        <5>2. HasLoaded(r)' /\ HasStored(r)'
          BY <3>1, <4>1, <4>2 DEF HasLoaded, HasStored
        <5>3. HasLeft(r)'
          BY <2>0, <2>b, <3>1 DEF Booked, HasLeft
        <5> QED BY <2>h, <3>1, <5>1, <5>2, <5>3 DEF Booked
      <4>4. DOMAIN plan[r] \subseteq Catalogs /\ DOMAIN index' = Catalogs
        BY <2>0, <3>3, BodiesAssumption DEF Booked, InPhase
      <4>5. \A c \in Catalogs : Entry(index'[c]) /\ (index'[c].live => Logged(log', c, index'[c].content))
        <5> TAKE c \in Catalogs
        <5>1. CASE c \in DOMAIN plan[r]
          <6>1. Entry(plan[r][c]) /\ index'[c] = plan[r][c] /\ Record(r, c, plan[r][c]) \in log'
            BY <2>0, <3>3, <4>2, <5>1 DEF Booked, HasPlanned
          <6>2. Logged(log', c, plan[r][c].content) \/ ~plan[r][c].live
            BY <6>1 DEF Logged, Record
          <6> QED BY <6>1, <6>2
        <5>2. CASE c \notin DOMAIN plan[r]
          BY <1>0, <2>b, <3>3, <5>2 DEF Index
        <5> QED BY <5>1, <5>2
      <4> QED BY <2>d, <4>1, <4>3, <4>4, <4>5 DEF Index
    <3> QED BY <2>4, <3>2, <3>3 DEF Store
  <2>5. CASE Verify(r)
    <3>1. pc[r] = "fetch" /\ UNCHANGED <<index, log, plan, answer, prior>>
      BY <2>5 DEF Verify
    <3>a. tries[r] \in 0 .. Attempts /\ tries[r] < Attempts
      BY <2>0, <3>1 DEF Booked, InPhase
    <3>b. tries' = Set(tries, r, tries[r] + 1)
      BY <2>5 DEF Verify
    <3>2. tries'[r] = tries[r] + 1 /\ tries[r] \in Nat /\ tries[r] < Attempts
      BY <1>0, <2>i, <3>a, <3>b
    <3>3. /\ pc'[r] \in {"answer", "wait"} /\ (pc'[r] = "wait" => ~LastTry(r))
          /\ \E got \in SUBSET (DOMAIN plan[r]) : errs'[r] = (errs[r] \ DOMAIN plan[r]) \cup got
      BY <1>0, <2>5, VerifyIs DEF Slots
    <3>4. errs'[r] \subseteq errs[r] \cup DOMAIN plan[r] /\ errs[r] \subseteq errs'[r] \cup DOMAIN plan[r]
      BY <3>3
    <3>5. tries'[r] \in 0 .. Attempts /\ (pc'[r] = "wait" => tries'[r] < Attempts)
      BY <1>0, <3>2, <3>3 DEF LastTry
    <3>6. InPhase(r)'
      BY <2>0, <2>e, <3>1, <3>3, <3>4, <3>5 DEF Booked, InPhase, Working
    <3>7. HasLoaded(r)' /\ HasStored(r)' /\ HasLeft(r)'
      BY <2>0, <3>1, <3>3, <3>4 DEF Booked, HasLoaded, HasStored, HasLeft
    <3> QED BY <2>c, <2>d, <2>e, <2>h, <3>1, <3>6, <3>7 DEF Booked
  <2>6. CASE Wait(r)
    <3>1. pc[r] = "wait" /\ UNCHANGED <<index, log, plan, answer, prior, errs, tries>>
      BY <2>6 DEF Wait
    <3>2. pc'[r] \in {"fetch", "answer"}
      BY <1>0, <2>6, SetIs DEF Wait, Slots
    <3>3. InPhase(r)'
      BY <1>0, <2>0, <2>e, <3>1, <3>2 DEF Booked, InPhase, Working
    <3>4. HasLoaded(r)' /\ HasStored(r)' /\ HasLeft(r)'
      BY <2>0, <3>1, <3>2 DEF Booked, HasLoaded, HasStored, HasLeft
    <3> QED BY <2>c, <2>d, <2>e, <2>h, <3>1, <3>3, <3>4 DEF Booked
  <2>7. CASE Respond(r)
    <3>1. pc[r] = "answer" /\ UNCHANGED <<index, log, plan, prior, errs, tries>>
      BY <2>7 DEF Respond
    <3>2. /\ pc'[r] = "done" /\ answer'[r].rejected = errs[r]
          /\ answer'[r].accepted = {i \in DOMAIN b.catalogs : b.catalogs[i].id \in Submitted(b) \ errs[r]}
          /\ answer'[r].retired = {i \in RetireOnly(b) : b.retire[i] \notin errs[r]}
      <4>1. /\ pc'[r] = "done"
            /\ answer'[r] =
                 [status |-> IF fatal[r] THEN "FAILED" ELSE "COMPLETED",
                  accepted |-> {i \in DOMAIN b.catalogs : b.catalogs[i].id \in Submitted(b) \ errs[r]},
                  retired |-> {i \in RetireOnly(b) : b.retire[i] \notin errs[r]},
                  rejected |-> errs[r]]
        BY <2>i, <2>7, Zenon DEF Respond
      <4> QED BY <4>1
    <3>3. InPhase(r)'
      BY <1>0, <2>0, <3>1, <3>2 DEF Booked, InPhase, Working
    <3>4. HasLoaded(r)' /\ HasStored(r)' /\ HasLeft(r)'
      BY <3>2 DEF HasLoaded, HasStored, HasLeft
    <3>5. errs[r] \subseteq Touched(b) /\ ValidBody(b)
      BY <2>0, <3>1 DEF Booked, InPhase, Working
    <3>6. AcceptedIds(r)' = Submitted(b) \ errs[r]
      BY <2>0, <3>2 DEF AcceptedIds, Submitted
    <3>7. RetiredIds(r)' = Retired(b) \ errs[r]
      BY <2>0, <3>2 DEF RetiredIds, Retired
    <3>8. ASSUME NEW c \in Touched(b) \ errs[r]
          PROVE  /\ c \in Submitted(b) => Logged(log, c, Submission(b, c).content)
                 /\ c \notin Submitted(b) => \E x \in log : x.catalog = c /\ ~x.live /\ x.by = r
      <4>1. CASE c \in DOMAIN plan[r]
        <5>1. /\ Record(r, c, plan[r][c]) \in log
              /\ c \in Submitted(b) => plan[r][c].live /\ plan[r][c].content = Submission(b, c).content
              /\ c \notin Submitted(b) => ~plan[r][c].live
          BY <2>0, <3>1, <4>1 DEF Booked, HasStored, HasPlanned
        <5>2. /\ Record(r, c, plan[r][c]).catalog = c /\ Record(r, c, plan[r][c]).by = r
              /\ Record(r, c, plan[r][c]).live = plan[r][c].live
              /\ Record(r, c, plan[r][c]).content = plan[r][c].content
          BY DEF Record
        <5> QED BY <5>1, <5>2 DEF Logged
      <4>2. CASE c \notin DOMAIN plan[r]
        BY <2>0, <3>1, <4>2 DEF Booked, HasLeft
      <4> QED BY <4>1, <4>2
    <3>9. \A i, j \in answer'[r].accepted : b.catalogs[i].id = b.catalogs[j].id => i = j
      BY <3>2, <3>5 DEF ValidBody, Submitted
    <3>10. \A i \in DOMAIN b.retire \ answer'[r].retired : b.retire[i] \in AcceptedIds(r)' \cup errs[r]
      BY <3>2, <3>6 DEF RetireOnly
    <3>11. Submitted(b) \subseteq Touched(b) /\ Retired(b) = Touched(b) \ Submitted(b)
      BY DEF Touched, Retired, RetireOnly
    <3>12. AddsUp(r)'
      BY <2>0, <3>1, <3>2, <3>5, <3>6, <3>7, <3>8, <3>9, <3>10, <3>11 DEF AddsUp
    <3> QED BY <2>c, <2>h, <3>1, <3>3, <3>4, <3>12 DEF Booked
  <2>8. CASE Leave(r)
    <3>1. UNCHANGED <<pc, index, log, plan, prior, errs, tries, answer>>
      BY <2>8 DEF Leave
    <3>2. InPhase(r)'
      BY <1>0, <2>0, <3>1 DEF Booked, InPhase, Working
    <3>3. HasLoaded(r)' /\ HasStored(r)' /\ HasLeft(r)'
      BY <2>0, <3>1 DEF Booked, HasLoaded, HasStored, HasLeft
    <3>4. AddsUp(r)'
      BY <2>0, <3>1 DEF AddsUp, AcceptedIds, RetiredIds
    <3> QED BY <2>c, <2>h, <3>1, <3>2, <3>3, <3>4 DEF Booked
  <2> QED BY <1>2, <2>1, <2>2, <2>3, <2>4, <2>5, <2>6, <2>7, <2>8 DEF Handle
<1> QED BY <1>1, <1>2 DEF Next

LEMMA BInvInit == Init => BInv
<1> SUFFICES ASSUME Init PROVE BInv
  OBVIOUS
<1>1. Slots
  BY DEF Init, Slots, PerRequest
<1>2. Index
  <2>1. Entry(None) /\ None.live = FALSE
    BY DEF None, Entry
  <2>2. DOMAIN index = Catalogs /\ \A c \in Catalogs : index[c] = None
    BY DEF Init
  <2> QED BY <2>1, <2>2 DEF Index
<1>3. ASSUME NEW r \in Requests PROVE Booked(r) /\ AddsUp(r)
  <2>1. /\ pc[r] = "idle" /\ plan[r] = NoPlan /\ errs[r] = {} /\ tries[r] = 0
        /\ answer[r] = NoAnswer
    BY <1>3, Zenon DEF Init
  <2>2. answer[r].status = "" /\ DOMAIN plan[r] = {}
    <3>1. NoAnswer.status = "" /\ DOMAIN NoPlan = {}
      BY DEF NoAnswer, NoPlan
    <3> QED BY <2>1, <3>1, Zenon
  <2>3. InPhase(r)
    <3>1. Attempts \in Nat /\ Attempts > 0
      BY CatalogPublishAssumption
    <3>2. tries[r] \in 0 .. Attempts /\ tries[r] < Attempts
      BY <2>1, <3>1
    <3> QED BY <2>1, <2>2, <3>2 DEF InPhase, Working
  <2>4. HasLoaded(r) /\ HasPlanned(r) /\ HasStored(r) /\ HasLeft(r)
    BY <2>1, <2>2 DEF HasLoaded, HasPlanned, HasStored, HasLeft
  <2>5. AddsUp(r)
    BY <2>2 DEF AddsUp
  <2> QED BY <2>3, <2>4, <2>5 DEF Booked
<1> QED BY <1>1, <1>2, <1>3 DEF BInv

\* A request's books are right whatever the others do.
THEOREM PublishInvariant == Spec => []BInv
<1> QED BY BInvInit, BInvStep, PTL DEF Spec

\* Requests go through the phases of verify.go and publish.go; an index entry's
\* baseline is never newer than the entry; a request publishes and rejects only
\* catalogs.
THEOREM PublishTypeCorrect == Spec => []TypeOK
<1>1. BInv => TypeOK
  <2> SUFFICES ASSUME BInv PROVE TypeOK
    OBVIOUS
  <2>0. Slots /\ Index /\ \A r \in Requests : InPhase(r)
    BY DEF BInv, Booked
  <2>1. /\ \A r \in Requests :
              pc[r] \in {"idle", "load", "sign", "store", "fetch", "wait", "answer", "done"}
        /\ \A r \in Requests : tries[r] \in 0 .. Attempts
    BY <2>0 DEF InPhase
  <2>2. \A c \in Catalogs : index[c].base <= index[c].version
    BY <2>0 DEF Index, Entry
  <2>3. \A r \in Requests : DOMAIN plan[r] \cup errs[r] \subseteq Catalogs
    BY <2>0, BodiesAssumption DEF InPhase, Slots
  <2> QED BY <2>0, <2>1, <2>2, <2>3 DEF TypeOK, Slots, PerRequest
<1> QED BY <1>1, PublishInvariant, PTL

\* Whatever other requests do meanwhile, a completed answer gives every submission
\* of the body and every listed retirement one outcome; what it calls accepted has
\* been published with the content submitted, and what it calls retired has been
\* stored as a tombstone by the request (Publish, and encode in handler.go).
THEOREM PublishAnswersAddUp == Spec => []AnswersAddUp
<1>1. BInv => AnswersAddUp
  BY DEF BInv, AddsUp, Logged, AnswersAddUp
<1> QED BY <1>1, PublishInvariant, PTL

-----------------------------------------------------------------------------
(* Versions, and what is served.                                           *)

\* A request has stored its entries.
Stores(r) ==
    /\ pc[r] = "store" /\ UNCHANGED plan /\ DOMAIN index' = Catalogs
    /\ \A c \in DOMAIN plan[r] : index'[c] = plan[r][c]
    /\ \A c \in Catalogs : c \notin DOMAIN plan[r] => index'[c] = index[c]
    /\ log' = log \cup {Record(r, c, plan[r][c]) : c \in DOMAIN plan[r]}
    /\ raced' = raced \cup (DOMAIN plan[r] \cap InHand(r))
    /\ served' = served \/ served' = index'
    /\ pc'[r] = IF DOMAIN plan[r] = {} THEN "answer" ELSE "fetch"
    /\ UNCHANGED answer

\* A request that has ended without being answered by the publisher.
Ends(r) == pc'[r] = "done" /\ answer'[r].accepted = {} /\ UNCHANGED <<index, served, log, raced, plan>>

LEMMA FailIs ==
    ASSUME Slots, NEW r \in Requests, Fail(r)
    PROVE  pc'[r] = "done" /\ answer'[r].accepted = {}
<1>1. \A v : Set(pc, r, v)[r] = v /\ Set(answer, r, v)[r] = v
  BY SetIs DEF Slots
<1>2. pc'[r] = "done" /\ answer'[r] = [NoAnswer EXCEPT !.status = "FAILED"]
  BY <1>1, Zenon DEF Fail
<1> QED BY <1>2, Refusal, Zenon

LEMMA StoreIs ==
    ASSUME Slots, Index, NEW r \in Requests, Booked(r), Store(r)
    PROVE  Stores(r) \/ Ends(r)
<1>0. pc[r] = "store" /\ UNCHANGED plan
  BY DEF Store
<1>a. CASE Fail(r) /\ UNCHANGED <<index, served, log, raced>>
  BY <1>0, <1>a, FailIs DEF Ends
<1>b. CASE
      /\ index' = [c \in Catalogs |-> IF c \in DOMAIN plan[r] THEN plan[r][c] ELSE index[c]]
      /\ served' \in IF Lag THEN {served, index'} ELSE {index'}
      /\ log' = log \cup {Record(r, c, plan[r][c]) : c \in DOMAIN plan[r]}
      /\ raced' = raced \cup (DOMAIN plan[r] \cap InHand(r))
      /\ pc' = Set(pc, r, IF DOMAIN plan[r] = {} THEN "answer" ELSE "fetch")
      /\ UNCHANGED answer
  <2>2. DOMAIN plan[r] \subseteq Catalogs /\ DOMAIN index = Catalogs
    BY BodiesAssumption DEF Booked, InPhase, Slots, Index
  <2>3. /\ DOMAIN index' = Catalogs
        /\ \A c \in DOMAIN plan[r] : index'[c] = plan[r][c]
        /\ \A c \in Catalogs : c \notin DOMAIN plan[r] => index'[c] = index[c]
    BY <1>b, <2>2
  <2>4. pc'[r] = IF DOMAIN plan[r] = {} THEN "answer" ELSE "fetch"
    BY <1>b, SetIs DEF Slots
  <2>5. served' = served \/ served' = index'
    BY <1>b
  <2> QED BY <1>0, <1>b, <2>3, <2>4, <2>5 DEF Stores
<1> QED BY <1>a, <1>b DEF Store

\* Only a request that stores changes what is stored, served or logged.
LEMMA OnlyStores ==
    ASSUME BInv, NEW r \in Requests, Decode(r) \/ Handle(r) \/ Leave(r)
    PROVE  Stores(r) \/ UNCHANGED <<index, served, log, raced>>
<1>1. CASE Store(r)
  BY <1>1, StoreIs DEF BInv, Ends
<1>2. CASE Decode(r) \/ Load(r) \/ Sign(r) \/ Verify(r) \/ Wait(r) \/ Respond(r) \/ Leave(r)
  BY <1>2 DEF Decode, Load, Sign, Verify, Wait, Respond, Leave
<1> QED BY <1>1, <1>2 DEF Handle

\* An entry that is stored of a catalog nobody raced for is the one there was, its
\* next version, or its tombstone.
LEMMA Advances ==
    ASSUME BInv, OInv, NEW r \in Requests, Stores(r), NEW c \in Catalogs, c \notin raced'
    PROVE  /\ Entry(index[c]) /\ Entry(index'[c]) /\ c \notin raced
           /\ \/ index'[c] = index[c]
              \/ index'[c].version = index[c].version + 1
              \/ index'[c].version = index[c].version /\ index'[c].content = index[c].content
<1>1. Entry(index[c]) /\ c \notin raced
  BY DEF BInv, Index, Stores
<1>2. CASE c \notin DOMAIN plan[r]
  BY <1>1, <1>2 DEF Stores
<1>3. CASE c \in DOMAIN plan[r]
  <2>1. c \in Touched(body[r])
    BY <1>3 DEF BInv, Booked, InPhase
  <2>2. prior[r][c] = index[c] /\ plan[r][c] = NextEntry(body[r], c, prior[r][c], signer[r])
    BY <1>1, <1>3, <2>1 DEF OInv, Held, PlannedFrom, Stores
  <2>3. index'[c] = NextEntry(body[r], c, index[c], signer[r])
    BY <1>3, <2>2 DEF Stores
  <2> QED BY <1>1, <2>1, <2>3, NextEntryIs
<1> QED BY <1>2, <1>3

\* What a record of the log says.
LEMMA RecordIs ==
    ASSUME NEW r, NEW c, NEW e
    PROVE  /\ Record(r, c, e).catalog = c /\ Record(r, c, e).version = e.version
           /\ Record(r, c, e).content = e.content /\ Record(r, c, e).live = e.live
           /\ Record(r, c, e).by = r
    BY DEF Record

\* What storing does to the index, the log and the public address.
LEMMA StoringKeeps ==
    ASSUME BInv, OInv, NEW r \in Requests, Stores(r), body' = body
    PROVE  /\ VersionNamesOneContent'
           /\ \A x \in log' : Newest(x)' /\ Truthful(x)'
           /\ Published(index)' /\ Published(served)'
<1>0. DOMAIN plan[r] \subseteq Catalogs /\ \A c \in DOMAIN plan[r] : Entry(plan[r][c])
  BY BodiesAssumption DEF BInv, Slots, Booked, InPhase, HasPlanned
<1>a. \A x \in log' : x \in log \/ \E c \in DOMAIN plan[r] : x = Record(r, c, plan[r][c])
  BY DEF Stores
<1>b. raced \subseteq raced' /\ log \subseteq log'
  BY DEF Stores
<1>c. \A c, e : Recorded(log, c, e) => Recorded(log', c, e)
  BY <1>b DEF Recorded
<1>1. ASSUME NEW x \in log' PROVE Newest(x)'
  <2>1. CASE x \in log
    <3>1. /\ x.catalog \in Catalogs /\ x.version \in Nat
          /\ x.catalog \notin raced =>
                /\ x.version <= index[x.catalog].version
                /\ x.version = index[x.catalog].version => x.content = index[x.catalog].content
      BY <2>1 DEF OInv, Newest
    <3> DEFINE c == x.catalog
    <3>2. ASSUME c \notin raced'
          PROVE  /\ x.version <= index'[c].version
                 /\ x.version = index'[c].version => x.content = index'[c].content
      <4>1. /\ Entry(index[c]) /\ Entry(index'[c]) /\ c \notin raced
            /\ \/ index'[c] = index[c]
               \/ index'[c].version = index[c].version + 1
               \/ index'[c].version = index[c].version /\ index'[c].content = index[c].content
        BY <3>1, <3>2, Advances
      <4>2. index[c].version \in Nat /\ index'[c].version \in Nat
        BY <4>1 DEF Entry
      <4> QED BY <3>1, <4>1, <4>2
    <3> QED BY <3>1, <3>2 DEF Newest
  <2>2. CASE x \notin log
    <3>1. PICK c \in DOMAIN plan[r] : x = Record(r, c, plan[r][c])
      BY <1>a, <2>2
    <3>2. x.catalog = c /\ x.version = plan[r][c].version /\ x.content = plan[r][c].content
      BY <3>1, RecordIs
    <3>3. c \in Catalogs /\ index'[c] = plan[r][c] /\ plan[r][c].version \in Nat
      BY <1>0 DEF Stores, Entry
    <3> QED BY <3>2, <3>3 DEF Newest
  <2> QED BY <2>1, <2>2
<1>2. VersionNamesOneContent'
  <2> SUFFICES ASSUME NEW x \in log', NEW y \in log', x.catalog = y.catalog,
                      x.catalog \notin raced', x.version = y.version
               PROVE  x.content = y.content
    BY DEF VersionNamesOneContent
  <2>1. CASE x \in log /\ y \in log
    BY <1>b, <2>1 DEF OInv, VersionNamesOneContent
  <2>2. ASSUME NEW z \in {x, y}, z \notin log PROVE x.content = y.content
    <3>1. PICK c \in DOMAIN plan[r] : z = Record(r, c, plan[r][c])
      BY <1>a, <2>2
    <3>2. z.catalog = c /\ z.version = plan[r][c].version
      BY <3>1, RecordIs
    <3>3. c \in Catalogs /\ index'[c] = plan[r][c]
      BY <1>0, <3>1 DEF Stores
    <3> QED BY <1>1, <3>2, <3>3 DEF Newest
  <2> QED BY <2>1, <2>2
<1>3. ASSUME NEW x \in log' PROVE Truthful(x)'
  <2>1. CASE x \in log
    BY <2>1 DEF OInv, Truthful
  <2>2. CASE x \notin log
    <3>1. PICK c \in DOMAIN plan[r] : x = Record(r, c, plan[r][c])
      BY <1>a, <2>2
    <3>2. x.catalog = c /\ x.live = plan[r][c].live /\ x.by = r
      BY <3>1, RecordIs
    <3>3. c \in Submitted(body[r]) => plan[r][c].live
      BY DEF BInv, Booked, HasPlanned
    <3> QED BY <3>2, <3>3 DEF Truthful
  <2> QED BY <2>1, <2>2
<1>4. Published(index)'
  <2>1. ASSUME NEW c \in Catalogs
        PROVE  Entry(index'[c]) /\ (index'[c].version > 0 => Recorded(log', c, index'[c]))
    <3>1. CASE c \in DOMAIN plan[r]
      <4>1. index'[c] = plan[r][c] /\ Record(r, c, plan[r][c]) \in log'
        BY <3>1 DEF Stores
      <4>2. Recorded(log', c, plan[r][c])
        BY <4>1, RecordIs DEF Recorded
      <4> QED BY <1>0, <3>1, <4>1, <4>2
    <3>2. CASE c \notin DOMAIN plan[r]
      <4>1. index'[c] = index[c]
        BY <3>2 DEF Stores
      <4> QED BY <1>c, <4>1 DEF OInv, Published
    <3> QED BY <3>1, <3>2
  <2>2. DOMAIN index' = Catalogs
    BY DEF Stores
  <2> QED BY <2>1, <2>2 DEF Published
<1>5. Published(served)'
  <2>1. CASE served' = index'
    BY <1>4, <2>1 DEF Published
  <2>2. CASE served' = served
    BY <1>c, <2>2 DEF OInv, Published
  <2> QED BY <2>1, <2>2 DEF Stores
<1> QED BY <1>1, <1>2, <1>3, <1>4, <1>5

\* What a request was shown stays what it was shown.
LEMMA ShowsStays ==
    ASSUME NEW q \in Requests, NEW c, plan'[q] = plan[q], shown'[q] = shown[q],
           log \subseteq log', raced \subseteq raced', Shows(q, c)
    PROVE  Shows(q, c)'
    BY DEF Shows

\* Another request at work finds its catalogs as they were, or raced for.
LEMMA OthersKeep ==
    ASSUME BInv, OInv, NEW r \in Requests, Decode(r) \/ Handle(r) \/ Leave(r),
           log \subseteq log', NEW q \in Requests, q # r
    PROVE  Held(q)' /\ PlannedFrom(q)' /\ Verified(q)' /\ Accepted(q)'
<1>0. Same(q) /\ body' = body
  BY OwnSlots DEF BInv
<1>a. raced \subseteq raced'
  BY OnlyStores DEF Stores
<1>1. ASSUME pc[q] \in {"sign", "store"}, NEW c \in Touched(body[q]), c \notin raced'
      PROVE  index'[c] = index[c]
  <2>1. CASE UNCHANGED index
    BY <2>1
  <2>2. CASE Stores(r)
    <3>1. c \in InHand(r)
      BY <1>1 DEF InHand
    <3>2. c \notin DOMAIN plan[r]
      BY <1>1, <2>2, <3>1 DEF Stores
    <3>3. c \in Catalogs
      BY <1>1, BodiesAssumption DEF BInv, Slots
    <3> QED BY <2>2, <3>2, <3>3 DEF Stores
  <2> QED BY <2>1, <2>2, OnlyStores
<1>2. Held(q)'
  BY <1>0, <1>a, <1>1 DEF OInv, Held, Same
<1>5. PlannedFrom(q)'
  BY <1>0 DEF OInv, PlannedFrom, Same
<1>6. Verified(q)'
  BY <1>0, <1>a, ShowsStays DEF OInv, Verified, Same
<1>7. Accepted(q)'
  BY <1>0, <1>a, ShowsStays DEF OInv, Accepted, AcceptedIds, Same
<1> QED BY <1>2, <1>5, <1>6, <1>7

\* A change that verification does not miss is on the index it looked at.
LEMMA FoundIsServed ==
    ASSUME BInv, OInv, NEW r \in Requests, pc[r] = "fetch", NEW c \in DOMAIN plan[r],
           c \in Submitted(body[r]), ~Missing(plan[r][c], c), IsChange(plan[r][c])
    PROVE  /\ served[c].version >= plan[r][c].version /\ served[c].key = registered
           /\ c \notin raced /\ served[c].version = plan[r][c].version =>
                 served[c].content = plan[r][c].content
           /\ served[c].live \/ \E x \in log : x.catalog = c /\ x.by # r /\ ~x.live
<1> DEFINE e == plan[r][c]
           s == served[c]
<1>1. c \in Catalogs
  BY BodiesAssumption DEF BInv, Slots, Booked, InPhase
<1>2. e.live /\ Entry(e) /\ Record(r, c, e) \in log
  BY DEF BInv, Booked, HasPlanned, HasStored
<1>3. Entry(s) /\ c \in Crawlable /\ e.version \in (s.base + 1) .. s.version
  <2>1. Entry(s)
    BY <1>1 DEF OInv, Published
  <2>2. c \in Crawlable /\ e.version \in (s.base + 1) .. s.version
    BY <1>2 DEF Missing
  <2> QED BY <2>1, <2>2
<1>4. s.key = registered /\ s.version > 0
  BY <1>3 DEF Crawlable
<1>5. e.version \in Nat /\ s.version \in Nat /\ s.version >= e.version
  BY <1>2, <1>3 DEF Entry
<1>6. PICK x \in log : /\ x.catalog = c /\ x.version = s.version
                       /\ x.content = s.content /\ x.live = s.live
  <2>1. Recorded(log, c, s)
    BY <1>1, <1>4 DEF OInv, Published
  <2> QED BY <2>1 DEF Recorded
<1>7. ASSUME c \notin raced, s.version = e.version PROVE s.content = e.content
  <2>1. /\ Record(r, c, e).catalog = c /\ Record(r, c, e).version = e.version
        /\ Record(r, c, e).content = e.content
    BY RecordIs
  <2> QED BY <1>2, <1>6, <1>7, <2>1 DEF OInv, VersionNamesOneContent
<1>8. s.live \/ x.by # r
  BY <1>6 DEF OInv, Truthful
<1> QED BY <1>4, <1>5, <1>6, <1>7, <1>8

LEMMA OInvStep == BInv /\ OInv /\ [Next]_vars => OInv'
<1> SUFFICES ASSUME BInv, OInv, [Next]_vars PROVE OInv'
  OBVIOUS
<1>0. Slots /\ Index /\ log \subseteq log' /\ \A q \in Requests : Booked(q)
  BY LogGrows DEF BInv
<1>1. CASE UNCHANGED vars \/ Propagate \/ Rotate
  <2>1. UNCHANGED <<reqVars, index, log, shown, raced>> /\ (served' = served \/ served' = index)
    BY <1>1 DEF vars, Propagate, Rotate
  <2>2. VersionNamesOneContent' /\ \A x \in log' : Newest(x)' /\ Truthful(x)'
    BY <2>1 DEF OInv, reqVars, VersionNamesOneContent, Newest, Truthful
  <2>3. ASSUME NEW r \in Requests PROVE Held(r)' /\ PlannedFrom(r)' /\ Verified(r)' /\ Accepted(r)'
    <3>1. Held(r)' /\ PlannedFrom(r)'
      BY <2>1 DEF OInv, reqVars, Held, PlannedFrom
    <3>2. Verified(r)' /\ Accepted(r)'
      BY <2>1 DEF OInv, reqVars, Verified, Accepted, AcceptedIds, Shows
    <3> QED BY <3>1, <3>2
  <2>4. Published(index)'
    BY <2>1 DEF OInv, Published
  <2>5. Published(served)'
    <3>1. CASE served' = served
      BY <2>1, <3>1 DEF OInv, Published
    <3>2. CASE served' = index
      BY <2>1, <3>2 DEF OInv, Published
    <3> QED BY <2>1, <3>1, <3>2
  <2> QED BY <2>2, <2>3, <2>4, <2>5 DEF OInv
<1>2. ASSUME NEW r \in Requests, Decode(r) \/ Handle(r) \/ Leave(r) PROVE OInv'
  <2> DEFINE b == body[r]
  <2>1. body' = body /\ raced \subseteq raced'
    BY <1>0, <1>2, OwnSlots, OnlyStores DEF Stores
  <2>2. /\ VersionNamesOneContent' /\ (\A x \in log' : Newest(x)' /\ Truthful(x)')
        /\ Published(index)' /\ Published(served)'
    <3>1. CASE Stores(r)
      BY <2>1, <3>1, StoringKeeps
    <3>2. CASE UNCHANGED <<index, served, log, raced>>
      BY <2>1, <3>2 DEF OInv, VersionNamesOneContent, Newest, Truthful, Published
    <3> QED BY <1>2, <3>1, <3>2, OnlyStores
  <2>3. SUFFICES Held(r)' /\ PlannedFrom(r)' /\ Verified(r)' /\ Accepted(r)'
    BY <1>0, <1>2, <2>2, OthersKeep DEF OInv
  <2>0. /\ Held(r) /\ PlannedFrom(r) /\ Verified(r) /\ Accepted(r)
        /\ InPhase(r) /\ DOMAIN plan[r] \subseteq Touched(b) /\ Touched(b) \subseteq Catalogs
    BY <1>0, BodiesAssumption DEF OInv, Booked, InPhase, Slots
  <2>i. \A v : /\ Set(pc, r, v)[r] = v /\ Set(answer, r, v)[r] = v /\ Set(prior, r, v)[r] = v
              /\ Set(plan, r, v)[r] = v
    BY <1>0, SetIs DEF Slots
  \* A request nothing has been accepted of.
  <2>g. ASSUME answer'[r].accepted = {} PROVE Accepted(r)'
    BY <2>g DEF Accepted, AcceptedIds
  <2>j. ASSUME pc[r] # "done" PROVE answer[r].accepted = {}
    BY <2>0, <2>j DEF Accepted
  \* A request that is refused or fails as a whole.
  <2>f. ASSUME Ends(r) PROVE Held(r)' /\ PlannedFrom(r)' /\ Verified(r)' /\ Accepted(r)'
    BY <2>f, <2>g DEF Ends, Held, PlannedFrom, Verified
  <2>4. CASE Decode(r)
    <3>1. pc[r] = "idle" /\ UNCHANGED <<index, served, log, raced, plan>>
      BY <2>4 DEF Decode
    <3>2. CASE pc' = Set(pc, r, "load") /\ UNCHANGED answer
      <4>1. pc'[r] = "load" /\ answer'[r].accepted = {}
        BY <2>i, <2>j, <3>1, <3>2
      <4> QED BY <2>g, <4>1 DEF Held, PlannedFrom, Verified
    <3>3. CASE /\ pc' = Set(pc, r, "done")
               /\ answer' = Set(answer, r, [NoAnswer EXCEPT !.status = "BAD_REQUEST"])
      <4>1. pc'[r] = "done" /\ answer'[r] = [NoAnswer EXCEPT !.status = "BAD_REQUEST"]
        BY <2>i, <3>3, Zenon
      <4>2. answer'[r].accepted = {}
        BY <4>1, Refusal, Zenon
      <4> QED BY <2>f, <3>1, <4>1, <4>2 DEF Ends
    <3> QED BY <2>4, <3>2, <3>3 DEF Decode
  <2>5. CASE Load(r)
    <3>1. pc[r] = "load" /\ UNCHANGED <<index, served, log, raced, plan>>
      BY <2>5 DEF Load
    <3>2. CASE Fail(r)
      BY <1>0, <2>f, <3>1, <3>2, FailIs DEF Ends
    <3>3. CASE ~Fail(r)
      <4>1. /\ prior' = Set(prior, r, [c \in Touched(b) |-> index[c]])
            /\ pc' = Set(pc, r, "sign") /\ UNCHANGED answer
        BY <2>5, <3>3 DEF Load
      <4>2. pc'[r] = "sign" /\ prior'[r] = [c \in Touched(b) |-> index[c]] /\ answer'[r].accepted = {}
        BY <2>i, <2>j, <3>1, <4>1
      <4>3. Held(r)'
        BY <2>1, <3>1, <4>2 DEF Held
      <4> QED BY <2>g, <4>2, <4>3 DEF PlannedFrom, Verified
    <3> QED BY <3>2, <3>3
  <2>6. CASE Sign(r)
    <3>1. pc[r] = "sign" /\ UNCHANGED <<index, prior, signer, answer, raced>>
      BY <2>6 DEF Sign
    <3>2. PICK mine \in SUBSET Touched(b) :
             plan' = Set(plan, r, [c \in mine |-> NextEntry(b, c, prior[r][c], signer[r])])
      BY <2>6 DEF Sign
    <3>3. plan'[r] = [c \in mine |-> NextEntry(b, c, prior[r][c], signer[r])]
      BY <1>0, <3>2, SetIs DEF Slots
    <3>4. pc'[r] = "store"
      BY <2>6, <2>i DEF Sign
    <3>6. PlannedFrom(r)'
      BY <2>1, <3>1, <3>3 DEF PlannedFrom
    <3>7. Held(r)' /\ Verified(r)'
      BY <2>0, <2>1, <3>1, <3>4 DEF Held, Verified
    <3> QED BY <2>g, <2>j, <3>1, <3>6, <3>7
  <2>7. CASE Store(r)
    <3>1. CASE Ends(r)
      BY <2>f, <3>1
    <3>2. CASE Stores(r)
      <4>1. pc'[r] \in {"answer", "fetch"} /\ (pc'[r] = "answer" => DOMAIN plan[r] = {})
            /\ pc[r] = "store" /\ UNCHANGED <<plan, answer>>
        BY <3>2 DEF Stores
      <4>2. Held(r)' /\ PlannedFrom(r)' /\ Verified(r)'
        BY <4>1 DEF Held, PlannedFrom, Verified
      <4> QED BY <2>g, <2>j, <4>1, <4>2
    <3> QED BY <1>0, <2>7, <3>1, <3>2, StoreIs
  <2>8. CASE Verify(r)
    <3>1. pc[r] = "fetch" /\ UNCHANGED <<index, plan, answer, log, raced>>
      BY <2>8 DEF Verify
    <3>2. /\ pc'[r] \in {"answer", "wait"}
          /\ shown'[r] = [index |-> served, registered |-> registered]
          /\ \A c \in DOMAIN plan[r] : Missing(plan[r][c], c) => c \in errs'[r]
      BY <1>0, <2>8, VerifyIs DEF Slots
    <3>3. Held(r)' /\ PlannedFrom(r)'
      BY <3>2 DEF Held, PlannedFrom
    <3>4. shown'[r].index = served /\ shown'[r].registered = registered
      BY <3>2
    <3>5. Verified(r)'
      <4> SUFFICES ASSUME NEW c \in DOMAIN plan[r], c \in Submitted(b), c \notin errs'[r],
                          IsChange(plan[r][c])
                   PROVE  Shows(r, c)'
        BY <2>1, <3>1 DEF Verified
      <4>1. /\ served[c].version >= plan[r][c].version /\ served[c].key = registered
            /\ c \notin raced /\ served[c].version = plan[r][c].version =>
                  served[c].content = plan[r][c].content
            /\ served[c].live \/ \E x \in log : x.catalog = c /\ x.by # r /\ ~x.live
        BY <3>1, <3>2, FoundIsServed
      <4> QED BY <3>1, <3>4, <4>1 DEF Shows
    <3> QED BY <2>g, <2>j, <3>1, <3>3, <3>5
  <2>9. CASE Wait(r)
    <3>1. pc[r] = "wait" /\ UNCHANGED <<index, plan, answer, errs, shown, log, raced>>
      BY <2>9 DEF Wait
    <3>2. pc'[r] \in {"fetch", "answer"}
      BY <2>9, <2>i DEF Wait
    <3>3. Held(r)' /\ PlannedFrom(r)'
      BY <3>2 DEF Held, PlannedFrom
    <3>4. Verified(r)'
      BY <1>0, <2>0, <2>1, <3>1, <3>2, ShowsStays DEF Verified
    <3> QED BY <2>g, <2>j, <3>1, <3>3, <3>4
  <2>10. CASE Respond(r)
    <3>1. pc[r] = "answer" /\ UNCHANGED <<index, plan, errs, shown, log, raced>>
      BY <2>10 DEF Respond
    <3>2. /\ pc'[r] = "done"
          /\ answer'[r].accepted = {i \in DOMAIN b.catalogs : b.catalogs[i].id \in Submitted(b) \ errs[r]}
      BY <2>10, <2>i DEF Respond
    <3>3. Held(r)' /\ PlannedFrom(r)' /\ Verified(r)'
      BY <3>2 DEF Held, PlannedFrom, Verified
    <3>4. AcceptedIds(r)' \subseteq Submitted(b) \ errs[r]
      BY <2>1, <3>2 DEF AcceptedIds
    <3>5. \A c \in AcceptedIds(r)' \cap DOMAIN plan[r] : IsChange(plan[r][c]) => Shows(r, c)'
      BY <1>0, <2>0, <2>1, <3>1, <3>4, ShowsStays DEF Verified
    <3>6. Accepted(r)'
      BY <3>1, <3>2, <3>5 DEF Accepted
    <3> QED BY <3>3, <3>6
  <2>11. CASE Leave(r)
    <3>1. UNCHANGED <<pc, signer, prior, plan, errs, answer, index, shown, log, raced>>
      BY <2>11 DEF Leave
    <3>2. Held(r)' /\ PlannedFrom(r)'
      BY <2>0, <2>1, <3>1 DEF Held, PlannedFrom
    <3>3. Verified(r)' /\ Accepted(r)'
      BY <1>0, <2>0, <2>1, <3>1, ShowsStays DEF Verified, Accepted, AcceptedIds
    <3> QED BY <3>2, <3>3
  <2> QED BY <1>2, <2>4, <2>5, <2>6, <2>7, <2>8, <2>9, <2>10, <2>11 DEF Handle
<1> QED BY <1>1, <1>2 DEF Next

LEMMA OInvInit == Init => OInv
<1> SUFFICES ASSUME Init PROVE OInv
  OBVIOUS
<1>1. /\ DOMAIN index = Catalogs /\ served = index /\ log = {}
      /\ \A c \in Catalogs : index[c] = None
  BY DEF Init
<1>2. ASSUME NEW r \in Requests
      PROVE  pc[r] = "idle" /\ DOMAIN plan[r] = {} /\ answer[r].accepted = {}
  <2>1. NoAnswer.accepted = {} /\ DOMAIN NoPlan = {}
    BY DEF NoAnswer, NoPlan
  <2>2. pc[r] = "idle" /\ plan[r] = NoPlan /\ answer[r] = NoAnswer
    BY <1>2, Zenon DEF Init
  <2> QED BY <2>1, <2>2, Zenon
<1>4. VersionNamesOneContent /\ \A x \in log : Newest(x) /\ Truthful(x)
  BY <1>1 DEF VersionNamesOneContent
<1>5. Published(index) /\ Published(served)
  <2>1. Entry(None) /\ None.version = 0
    BY DEF None, Entry
  <2> QED BY <1>1, <2>1 DEF Published
<1>6. ASSUME NEW r \in Requests PROVE Held(r) /\ PlannedFrom(r) /\ Verified(r) /\ Accepted(r)
  BY <1>2, <1>6 DEF Held, PlannedFrom, Verified, Accepted
<1> QED BY <1>4, <1>5, <1>6 DEF OInv

\* A request that nobody gets ahead of between its load and its store finds on
\* the index what it loaded, and whatever is served has been stored.
THEOREM PublishIndexInvariant == Spec => [](BInv /\ OInv)
<1>1. Init => BInv /\ OInv
  BY BInvInit, OInvInit
<1>2. BInv /\ OInv /\ [Next]_vars => (BInv /\ OInv)'
  BY BInvStep, OInvStep
<1> QED BY <1>1, <1>2, PTL DEF Spec

\* With any number of requests at work, a version of a catalog is published with
\* one content only, whatever fails, whoever leaves and however stale the public
\* address is, unless one request stored the catalog between LoadCatalogs and
\* catalogStore.Publish of another.
THEOREM PublishVersionsStable == Spec => []VersionNamesOneContent
<1>1. OInv => VersionNamesOneContent
  BY DEF OInv
<1> QED BY <1>1, PublishIndexInvariant, PTL

\* And a change a request reports as accepted was on the public index when it
\* was verified (verifyPublished), under a signature of the registered key, a
\* lagging index, a changed key and other requests for the catalog included.
THEOREM PublishAcceptedServed == Spec => []AcceptedChangeIsServed
<1>1. OInv => AcceptedChangeIsServed
  BY DEF OInv, Accepted, Shows, AcceptedChangeIsServed
<1> QED BY <1>1, PublishIndexInvariant, PTL
=============================================================================
