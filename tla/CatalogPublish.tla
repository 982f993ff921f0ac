---------------------------- MODULE CatalogPublish ----------------------------
(***************************************************************************)
(* The catalog publish endpoint: requests that load what was published      *)
(* before, sign what changed, store it, and then read the public index back *)
(* to check that it can be crawled.  The signing library and the store      *)
(* (catalog-core) are outside the repository: storing is taken to be one    *)
(* atomic write of the index.  Behind the public address may sit a cache    *)
(* that serves an index older than the one stored.                          *)
(***************************************************************************)
EXTENDS Naturals, Sequences, FiniteSets, SequencesExt

CONSTANTS Requests, Catalogs, Keys,
          Bodies,       \* the bodies each request may post
          Attempts,     \* verifyRetryAttempts
          Lag,          \* the public address may serve an older index
          MaxFaults,    \* bound: failing calls, callers that leave
          MaxRotations  \* bound: changes of the keys

ASSUME CatalogPublishAssumption ==
    /\ Attempts \in Nat \ {0} /\ {MaxFaults, MaxRotations} \subseteq Nat
    /\ Lag \in BOOLEAN /\ IsFiniteSet(Requests)

VARIABLES pc,        \* where each request is
          body,      \* the request, as posted
          signer,    \* the key it signs with
          prior,     \* the entries it has loaded
          plan,      \* the entries it publishes, by catalog
          errs,      \* the catalogs it rejects
          fatal,     \* a publish error marked fatal
          tries,     \* verification attempts made
          answer,    \* what the caller is told
          left,      \* the caller has gone
          index,     \* the stored index
          served,    \* the index at the public address
          key,       \* the node's signing key
          registered,\* the key the registry knows
          log,       \* history: every entry stored, and the request that stored it
          shown,     \* history: the index and the key a request was verified against
          raced,     \* history: catalogs stored between the load and the store of
                     \*   another request that names them
          faults, rotations

reqVars == <<pc, body, signer, prior, plan, errs, fatal, tries, answer, left>>
keyVars == <<key, registered, rotations>>
vars == <<reqVars, index, served, keyVars, log, shown, raced, faults>>

None == [base |-> 0, version |-> 0, content |-> "", live |-> FALSE, key |-> ""]
NoPlan == [c \in {} |-> None]

\* What the caller is told: the catalogs accepted and the retirements made, each
\* by its place in the body, and the ids rejected.
NoAnswer == [status |-> "", accepted |-> {}, retired |-> {}, rejected |-> {}]

Init ==
    /\ pc = [r \in Requests |-> "idle"] 
    /\ body \in [Requests -> UNION {Bodies[r] : r \in Requests}]
    /\ \A r \in Requests : body[r] \in Bodies[r]
    /\ signer = [r \in Requests |-> ""] /\ prior = [r \in Requests |-> NoPlan]
    /\ plan = [r \in Requests |-> NoPlan] /\ errs = [r \in Requests |-> {}]
    /\ fatal = [r \in Requests |-> FALSE] /\ tries = [r \in Requests |-> 0]
    /\ answer = [r \in Requests |-> NoAnswer] /\ left = [r \in Requests |-> FALSE]
    /\ index = [c \in Catalogs |-> None] /\ served = index
    /\ key = (CHOOSE k \in Keys : TRUE) /\ registered = key
    /\ log = {} /\ shown = [r \in Requests |-> [index |-> index, registered |-> key]]
    /\ raced = {} /\ faults = 0 /\ rotations = 0

Set(f, r, v) == [f EXCEPT ![r] = v]

-----------------------------------------------------------------------------
(* Decoding.                                                               *)

\* The catalogs a body submits; one without an id ("") is reported on its own.
Submitted(b) == {b.catalogs[i].id : i \in DOMAIN b.catalogs} \ {""}

\* The retirements a body asks for, by their place in it: a submission of the
\* same catalog wins, and a catalog listed twice is retired twice.
RetireOnly(b) == {i \in DOMAIN b.retire : b.retire[i] \notin Submitted(b)}

\* The catalogs retired.
Retired(b) == {b.retire[i] : i \in RetireOnly(b)}

Touched(b) == Submitted(b) \cup Retired(b)

\* Catalogs holds every id a body names.
ASSUME BodiesAssumption == \A r \in Requests : \A b \in Bodies[r] : Touched(b) \subseteq Catalogs

\* validatePublishRequest: something to do, no catalog and no directive twice,
\* every directive about a submitted catalog and in MERGE mode.
ValidBody(b) ==
    /\ b.catalogs # <<>> \/ b.retire # <<>>
    /\ \A i, j \in DOMAIN b.catalogs :
          b.catalogs[i].id = b.catalogs[j].id /\ b.catalogs[i].id # "" => i = j
    /\ \A i \in DOMAIN b.directives :
          /\ b.directives[i].id \in Submitted(b)
          /\ b.directives[i].mode \in {"", "MERGE"}
          /\ \A j \in DOMAIN b.directives : b.directives[i].id = b.directives[j].id => i = j

\* DecodeRequest, then the schema validator and the policy checker; each may
\* refuse, but only a body with catalogs is shown to the last two.
Decode(r) ==
    /\ pc[r] = "idle"
    /\ \/ ValidBody(body[r]) /\ pc' = Set(pc, r, "load") /\ UNCHANGED answer
       \/ /\ ~ValidBody(body[r]) \/ body[r].catalogs # <<>>
          /\ pc' = Set(pc, r, "done")
          /\ answer' = Set(answer, r, [NoAnswer EXCEPT !.status = "BAD_REQUEST"])
    /\ UNCHANGED <<body, signer, prior, plan, errs, fatal, tries, left, index, served,
                   keyVars, log, shown, raced, faults>>

\* A failure of the call as a whole.
Fail(r) ==
    /\ faults < MaxFaults \/ left[r]
    /\ faults' = IF left[r] THEN faults ELSE faults + 1
    /\ pc' = Set(pc, r, "done")
    /\ answer' = Set(answer, r, [NoAnswer EXCEPT !.status = "FAILED"])

-----------------------------------------------------------------------------
(* Publishing.                                                             *)

\* Mutant: the prior state is what the public address serves.
Load_FromPublic(r) ==
    /\ pc[r] = "load"
    /\ \/ /\ signer' = Set(signer, r, key)
          /\ prior' = Set(prior, r, [c \in Touched(body[r]) |-> served[c]])
          /\ pc' = Set(pc, r, "sign")
          /\ UNCHANGED <<answer, faults>>
       \/ Fail(r) /\ UNCHANGED <<signer, prior>>
    /\ UNCHANGED <<body, plan, errs, fatal, tries, left, index, served, keyVars, log, shown, raced>>

\* The keyset is read for every call; then the entries of every catalog the
\* call names, the retired ones too.
Load(r) ==
    /\ pc[r] = "load"
    /\ \/ /\ signer' = Set(signer, r, key)
          /\ prior' = Set(prior, r, [c \in Touched(body[r]) |-> index[c]])
          /\ pc' = Set(pc, r, "sign")
          /\ UNCHANGED <<answer, faults>>
       \/ Fail(r) /\ UNCHANGED <<signer, prior>>
    /\ UNCHANGED <<body, plan, errs, fatal, tries, left, index, served, keyVars, log, shown, raced>>

\* The submission of a catalog.
Submission(b, c) == b.catalogs[CHOOSE i \in DOMAIN b.catalogs : b.catalogs[i].id = c]

\* What becomes of one catalog: a tombstone for a retired one, a fresh baseline
\* for a new or forced one, a change otherwise; the next version either way.
NextEntry(b, c, was, k) ==
    LET s == Submission(b, c)
        v == was.version + 1
        fresh == was.version = 0 \/ ~was.live \/ s.force
    IN  IF c \in Retired(b)
        THEN [base |-> was.base, version |-> was.version, content |-> was.content,
              live |-> FALSE, key |-> k]
        ELSE [base |-> IF fresh THEN v ELSE was.base, version |-> v,
              content |-> s.content, live |-> TRUE, key |-> k]

\* A catalog nothing has changed of.
Unchanged(b, c, was) ==
    c \in Submitted(b) /\ was.live /\ was.content = Submission(b, c).content
                       /\ ~Submission(b, c).force

\* publisher.Publish: some catalogs may be invalid (one never published cannot
\* be retired); an error may be marked fatal.
Sign(r) ==
    /\ pc[r] = "sign"
    /\ LET b == body[r]
           unknown == {c \in Retired(b) : prior[r][c].version = 0}
       IN  \E bad \in SUBSET (Submitted(b)), f \in BOOLEAN :
              /\ bad # {} => faults < MaxFaults
              /\ f => bad # {}
              /\ faults' = IF bad = {} THEN faults ELSE faults + 1
              /\ errs' = Set(errs, r, bad \cup unknown)
              /\ fatal' = Set(fatal, r, f)
              /\ plan' = Set(plan, r, [c \in {x \in Touched(b) \ (bad \cup unknown) :
                                               ~Unchanged(b, x, prior[r][x])} |->
                                          NextEntry(b, c, prior[r][c], signer[r])])
              /\ pc' = Set(pc, r, "store")
    /\ UNCHANGED <<body, signer, prior, tries, answer, left, index, served, keyVars, log, shown, raced>>

\* What the log keeps of an entry.
Record(r, c, e) ==
    [catalog |-> c, version |-> e.version, content |-> e.content, live |-> e.live, by |-> r]

\* The catalogs another request has loaded and has not stored yet.
InHand(r) == UNION {Touched(body[q]) : q \in {x \in Requests \ {r} : pc[x] \in {"sign", "store"}}}

\* catalogStore.Publish: the entries go into the index.
Store(r) ==
    /\ pc[r] = "store"
    /\ \/ /\ index' = [c \in Catalogs |-> IF c \in DOMAIN plan[r] THEN plan[r][c] ELSE index[c]]
          /\ served' \in IF Lag THEN {served, index'} ELSE {index'}
          /\ log' = log \cup {Record(r, c, plan[r][c]) : c \in DOMAIN plan[r]}
          /\ raced' = raced \cup (DOMAIN plan[r] \cap InHand(r))
          /\ pc' = Set(pc, r, IF DOMAIN plan[r] = {} THEN "answer" ELSE "fetch")
          /\ UNCHANGED <<answer, faults>>
       \/ Fail(r) /\ UNCHANGED <<index, served, log, raced>>
    /\ UNCHANGED <<body, signer, prior, plan, errs, fatal, tries, left, keyVars, shown>>

-----------------------------------------------------------------------------
(* Verification (verify.go).                                               *)

\* The entries a crawler accepts: a signature that the registry's key does not
\* verify drops the entry.
Crawlable == {c \in Catalogs : served[c].version > 0 /\ served[c].key = registered}

IsChange(e) == e.version > e.base

\* Mutant: a change is taken to be there when the entry is.
Missing_EntryOnly(e, c) == c \notin Crawlable

\* verifyOutcome and verifyRetirement, up to the files: the entry is there, and
\* a change is one of the entry's changes.  A baseline and a tombstone are not
\* looked at any closer.
Missing(e, c) ==
    \/ c \notin Crawlable
    \/ e.live /\ IsChange(e) /\ e.version \notin (served[c].base + 1) .. served[c].version

\* The attempt under way is the last.
LastTry(r) == tries[r] + 1 = Attempts

\* verifyPublished, one attempt: an unreadable index rejects everything and is
\* tried again; a file may be unreachable (transient) or bad (permanent).
Verify(r) ==
    /\ pc[r] = "fetch"
    /\ tries' = Set(tries, r, tries[r] + 1)
    /\ shown' = Set(shown, r, [index |-> served, registered |-> registered])
    /\ LET mine == DOMAIN plan[r]
           missing == {c \in mine : Missing(plan[r][c], c)}
           others == errs[r] \ mine
       IN  \/ /\ faults < MaxFaults \/ left[r]
              /\ faults' = IF left[r] THEN faults ELSE faults + 1
              /\ errs' = Set(errs, r, others \cup mine)
              /\ pc' = Set(pc, r, IF LastTry(r) THEN "answer" ELSE "wait")
           \/ /\ ~left[r]
              /\ \E broken \in SUBSET (mine \ missing), permanent \in BOOLEAN :
                    /\ broken # {} => faults < MaxFaults
                    /\ permanent => broken # {}
                    /\ faults' = IF broken = {} THEN faults ELSE faults + 1
                    /\ errs' = Set(errs, r, others \cup missing \cup broken)
                    /\ pc' = Set(pc, r,
                          IF LastTry(r) \/ missing \cup broken = {} \/ (permanent /\ missing = {})
                          THEN "answer" ELSE "wait")
    /\ UNCHANGED <<body, signer, prior, plan, fatal, answer, left, index, served, keyVars, log,
                   raced>>

\* Mutant: the backoff ends only with the caller.
Wait_ForCaller(r) ==
    /\ pc[r] = "wait" /\ left[r] /\ pc' = Set(pc, r, "answer")
    /\ UNCHANGED <<body, signer, prior, plan, errs, fatal, tries, answer, left, index,
                   served, keyVars, log, shown, raced, faults>>

\* sleepOrDone: the backoff, cut short when the caller goes.
Wait(r) ==
    /\ pc[r] = "wait"
    /\ \/ pc' = Set(pc, r, "fetch")
       \/ left[r] /\ pc' = Set(pc, r, "answer")
    /\ UNCHANGED <<body, signer, prior, plan, errs, fatal, tries, answer, left, index,
                   served, keyVars, log, shown, raced, faults>>

\* Mutant: a retirement that was rejected is still reported.
Respond_RetiredAnyway(r) ==
    /\ pc[r] = "answer"
    /\ answer' = Set(answer, r,
          [status |-> IF fatal[r] THEN "FAILED" ELSE "COMPLETED",
           accepted |-> {i \in DOMAIN body[r].catalogs :
                            body[r].catalogs[i].id \in Submitted(body[r]) \ errs[r]},
           retired |-> RetireOnly(body[r]),
           rejected |-> errs[r]])
    /\ pc' = Set(pc, r, "done")
    /\ UNCHANGED <<body, signer, prior, plan, errs, fatal, tries, left, index, served,
                   keyVars, log, shown, raced, faults>>

\* The index link check, whose outcome is only a warning, and the encoding of
\* the result: an error about a catalog outweighs its outcome.
Respond(r) ==
    /\ pc[r] = "answer"
    /\ answer' = Set(answer, r,
          [status |-> IF fatal[r] THEN "FAILED" ELSE "COMPLETED",
           accepted |-> {i \in DOMAIN body[r].catalogs :
                            body[r].catalogs[i].id \in Submitted(body[r]) \ errs[r]},
           retired |-> {i \in RetireOnly(body[r]) : body[r].retire[i] \notin errs[r]},
           rejected |-> errs[r]])
    /\ pc' = Set(pc, r, "done")
    /\ UNCHANGED <<body, signer, prior, plan, errs, fatal, tries, left, index, served,
                   keyVars, log, shown, raced, faults>>

-----------------------------------------------------------------------------
(* The environment.                                                        *)

\* The cache at the public address catches up.
Propagate ==
    /\ served # index /\ served' = index
    /\ UNCHANGED <<reqVars, index, keyVars, log, shown, raced, faults>>

\* The node gets a new key, or the registry learns it.
Rotate ==
    /\ \/ /\ rotations < MaxRotations /\ key' \in Keys \ {key}
          /\ rotations' = rotations + 1 /\ UNCHANGED registered
       \/ registered # key /\ registered' = key /\ UNCHANGED <<key, rotations>>
    /\ UNCHANGED <<reqVars, index, served, log, shown, raced, faults>>

Leave(r) ==
    /\ pc[r] \notin {"idle", "done"} /\ ~left[r] /\ faults < MaxFaults
    /\ left' = Set(left, r, TRUE) /\ faults' = faults + 1
    /\ UNCHANGED <<pc, body, signer, prior, plan, errs, fatal, tries, answer, index, served,
                   keyVars, log, shown, raced>>

Handle(r) ==
    Load(r) \/ Sign(r) \/ Store(r) \/ Verify(r) \/ Wait(r) \/ Respond(r)

Next ==
    \/ \E r \in Requests : Decode(r) \/ Handle(r) \/ Leave(r)
    \/ Propagate \/ Rotate

\* A request that has been taken is worked on; every call of it has a timeout.
Spec == Init /\ [][Next]_vars /\ \A r \in Requests : WF_vars(Handle(r))

-----------------------------------------------------------------------------
(* Properties.                                                             *)

TypeOK ==
    /\ pc \in [Requests -> {"idle", "load", "sign", "store", "fetch", "wait", "answer", "done"}]
    /\ tries \in [Requests -> 0 .. Attempts]
    /\ \A c \in Catalogs : index[c].base <= index[c].version
    /\ \A r \in Requests : DOMAIN plan[r] \cup errs[r] \subseteq Catalogs

\* A version of a catalog names one content for ever: a crawler that has read a
\* version never reads it again, so a version stored twice is a change it misses.
\* Excepted are the catalogs that one request has stored while another one was
\* between LoadCatalogs and catalogStore.Publish, which nothing prevents.
VersionNamesOneContent ==
    \A x, y \in log : /\ x.catalog = y.catalog /\ x.catalog \notin raced
                      /\ x.version = y.version
                      => x.content = y.content

\* The catalogs a request reports as accepted, and as retired.
AcceptedIds(r) == {body[r].catalogs[i].id : i \in answer[r].accepted}
RetiredIds(r) == {body[r].retire[i] : i \in answer[r].retired}

\* A change reported as accepted was on the public index when the request looked
\* (verify.go): at its version or a later one, signed with the key the registry
\* had, with the content published if the version is the same, and live unless
\* another request has retired the catalog.  The content is not claimed of a
\* catalog that requests have raced for.
AcceptedChangeIsServed ==
    \A r \in Requests : \A c \in AcceptedIds(r) \cap DOMAIN plan[r] :
        LET e == plan[r][c]
            s == shown[r].index[c]
        IN  IsChange(e) =>
               /\ s.version >= e.version /\ s.key = shown[r].registered
               /\ c \notin raced /\ s.version = e.version => s.content = e.content
               /\ s.live \/ \E x \in log : x.catalog = c /\ x.by # r /\ ~x.live

\* Everything reported as published or retired was served so.
ReportedIsServed ==
    \A r \in Requests : \A c \in (AcceptedIds(r) \cup RetiredIds(r)) \cap DOMAIN plan[r] :
        /\ shown[r].index[c].version >= plan[r][c].version
        /\ shown[r].index[c].live = plan[r][c].live

\* Of a completed request every submission is either accepted, once, or rejected,
\* and every listed retirement either made or rejected or overridden by a
\* submission; what is accepted has been stored with the content submitted, by
\* this request or before it, and what is retired has been stored as a tombstone
\* by this request.
AnswersAddUp ==
    \A r \in Requests : answer[r].status = "COMPLETED" =>
        LET b == body[r]
            a == answer[r]
        IN  /\ AcceptedIds(r) \cup a.rejected \cup RetiredIds(r) = Touched(b)
            /\ AcceptedIds(r) \cap a.rejected = {} /\ RetiredIds(r) \cap a.rejected = {}
            /\ \A i, j \in a.accepted : b.catalogs[i].id = b.catalogs[j].id => i = j
            /\ \A i \in DOMAIN b.retire \ a.retired :
                  b.retire[i] \in AcceptedIds(r) \cup a.rejected
            /\ \A c \in AcceptedIds(r) : \E x \in log :
                  x.catalog = c /\ x.live /\ x.content = Submission(b, c).content
            /\ \A c \in RetiredIds(r) : \E x \in log :
                  x.catalog = c /\ ~x.live /\ x.by = r

\* Every request that was taken is answered, whatever its calls do.
RequestsAnswered == \A r \in Requests : pc[r] = "load" ~> pc[r] = "done"
=============================================================================
