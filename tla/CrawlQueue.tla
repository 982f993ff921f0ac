----------------------------- MODULE CrawlQueue -----------------------------
(***************************************************************************)
(* The catalog crawler's durable work queue and catalog cursor: the store  *)
(* in pkg/plugin/implementation/catalogcrawler/internal/store, used by the *)
(* sync workers (one syncTick per replica), by the index poller and by the *)
(* park sweep that scheduler.go runs on three independent tickers.         *)
(*                                                                         *)
(* Every store call is one SQL statement or one transaction, so every      *)
(* action below is one store call; what a caller read in an earlier call   *)
(* is kept in worker, poll and sweep and used after other callers have     *)
(* had their turn.  The callers' own decisions (PollIndexes, SyncNext) are *)
(* made in the catalog-core library, which is not part of this repository: *)
(* they are modelled from the store calls they make.                       *)
(*                                                                         *)
(* Time is abstracted to what the SQL compares: next_attempt_at is "now",  *)
(* "later" (a backoff still running) or "never" ('infinity'), and a claim  *)
(* is older than the lease once its claim id is in expired.  A claim id is *)
(* a fresh UUID; the model reuses ids nothing refers to any more.          *)
(***************************************************************************)
EXTENDS Naturals, FiniteSets

CONSTANTS Catalogs,        \* catalog_ids carried by the polled index
          Workers,         \* replicas running syncTick
          ClaimIds,        \* the claim_id UUIDs
          NoClaim,         \* claim_id / claimed_at NULL
          MaxAttempts,     \* Params.MaxAttempts, 0: no limit
          MaxParkCount,    \* Params.MaxParkCount
          MaxVersion,      \* bound: versions the publisher publishes
          MaxFailures,     \* bound: transient sync failures
          MaxCrashes,      \* bound: worker crashes
          Broken,          \* catalogs whose sync fails every time
          SlowWorkers,     \* may a sync outlive the 15-minute claimLease?
          ConditionalGet   \* does the index host answer 304 Not Modified?

ASSUME ConstantsAssumption ==
    /\ NoClaim \notin ClaimIds
    /\ MaxAttempts \in Nat
    /\ MaxParkCount \in Nat
    /\ MaxVersion \in Nat
    /\ MaxFailures \in Nat
    /\ MaxCrashes \in Nat
    /\ Broken \subseteq Catalogs
    /\ SlowWorkers \in BOOLEAN
    /\ ConditionalGet \in BOOLEAN

VARIABLES queue,     \* crawler_queue, at most one row per catalog_id
          cursor,    \* crawler_catalog: settled version and failure reason
          index,     \* the published index: each catalog's entry version
          etag,      \* crawler_index.etag: the index the last poll saw
          poll,      \* the poll pass in flight
          worker,    \* each worker's claimed item and what it has resolved
          expired,   \* claim ids whose lease has run out
          sweep,     \* the park sweep between its two UPDATEs
          failures, crashes

vars == <<queue, cursor, index, etag, poll, worker, expired, sweep,
          failures, crashes>>

-----------------------------------------------------------------------------

NoVersion == 0
Versions == 0 .. MaxVersion

Row == [status   : {"queued", "in_progress", "parked", "abandoned"},
        attempts : Nat,
        next     : {"now", "later", "never"},
        claim    : ClaimIds \cup {NoClaim},
        parks    : Nat]

NoRow == [status |-> "none"]

\* A worker between two ticks of its loop holds nothing.
Idle == [pc |-> "idle"]

Working == [pc       : {"claimed", "resolved", "failed"},
            catalog  : Catalogs,
            claim    : ClaimIds,
            attempts : Nat,
            version  : Versions]

NotPolling == [pc |-> "idle"]
Polling == [pc : {"polling"}, snapshot : [Catalogs -> Versions],
            todo : SUBSET Catalogs]

TypeOK ==
    /\ queue \in [Catalogs -> Row \cup {NoRow}]
    /\ cursor \in [Catalogs -> [version : Versions, reason : BOOLEAN]]
    /\ index \in [Catalogs -> Versions]
    /\ etag \in [Catalogs -> Versions]
    /\ poll \in Polling \cup {NotPolling}
    /\ worker \in [Workers -> Working \cup {Idle}]
    /\ expired \subseteq ClaimIds
    /\ sweep \in {"revive", "abandon"}
    /\ failures \in Nat
    /\ crashes \in Nat

Init ==
    /\ queue = [c \in Catalogs |-> NoRow]
    /\ cursor = [c \in Catalogs |-> [version |-> NoVersion, reason |-> FALSE]]
    /\ index = [c \in Catalogs |-> NoVersion]
    /\ etag = [c \in Catalogs |-> NoVersion]
    /\ poll = NotPolling
    /\ worker = [w \in Workers |-> Idle]
    /\ expired = {}
    /\ sweep = "revive"
    /\ failures = 0
    /\ crashes = 0

HasRow(c) == queue[c] # NoRow
Busy(w) == worker[w] # Idle

\* The row WHERE id = $1 AND claim_id = $2 still matches the worker's claim.
Holds(w) ==
    /\ Busy(w)
    /\ HasRow(worker[w].catalog)
    /\ queue[worker[w].catalog].claim = worker[w].claim

\* A claim id no row and no worker refers to: a fresh gen_random_uuid().
Fresh(k) ==
    /\ \A c \in Catalogs : HasRow(c) => queue[c].claim # k
    /\ \A w \in Workers : Busy(w) => worker[w].claim # k

-----------------------------------------------------------------------------
(* The publisher, the index host and the poller.                           *)

\* The participant publishes a change to one catalog of its index.
Publish(c) ==
    /\ index[c] < MaxVersion
    /\ index' = [index EXCEPT ![c] = @ + 1]
    /\ UNCHANGED <<queue, cursor, etag, poll, worker, expired, sweep,
                   failures, crashes>>

\* PollIndexes fetches the index with the stored validators; a 304 ends the
\* pass, anything else is walked entry by entry.
PollFetch ==
    /\ poll = NotPolling
    /\ ConditionalGet => etag # index
    /\ poll' = [pc |-> "polling", snapshot |-> index, todo |-> Catalogs]
    /\ UNCHANGED <<queue, cursor, index, etag, worker, expired, sweep,
                   failures, crashes>>

FreshRow == [status |-> "queued", attempts |-> 0, next |-> "now",
             claim |-> NoClaim, parks |-> 0]

\* Mutant: the upsert resets a claimed row like any other.
Enqueue_Reclaims(c) == queue' = [queue EXCEPT ![c] = FreshRow]

\* Mutant: the CASE on claimed_at is missing for attempts.
Enqueue_ResetsAttempts(c) ==
    queue' = [queue EXCEPT ![c] =
        IF @ = NoRow THEN FreshRow
        ELSE IF @.claim # NoClaim THEN [@ EXCEPT !.attempts = 0]
        ELSE [@ EXCEPT !.status = "queued", !.attempts = 0, !.next = "now"]]

\* Store.Enqueue: the upsert on UNIQUE (catalog_id).  An unclaimed row is
\* made ready again whatever its status; a claimed one is left as it is.
Enqueue(c) ==
    queue' = [queue EXCEPT ![c] =
        IF @ = NoRow THEN FreshRow
        ELSE IF @.claim # NoClaim THEN @
        ELSE [@ EXCEPT !.status = "queued", !.attempts = 0, !.next = "now"]]

\* decideCatalog: an entry whose version is not the settled one is enqueued.
PollDecide(c) ==
    /\ poll # NotPolling
    /\ c \in poll.todo
    /\ poll' = [poll EXCEPT !.todo = @ \ {c}]
    /\ IF poll.snapshot[c] # cursor[c].version
         THEN Enqueue(c)
         ELSE UNCHANGED queue
    /\ UNCHANGED <<cursor, index, etag, worker, expired, sweep,
                   failures, crashes>>

\* Store.UpsertIndexCursor: the validators of the fetch this pass walked.
UpsertIndexCursor ==
    /\ poll # NotPolling
    /\ poll.todo = {}
    /\ etag' = poll.snapshot
    /\ poll' = NotPolling
    /\ UNCHANGED <<queue, cursor, index, worker, expired, sweep,
                   failures, crashes>>

-----------------------------------------------------------------------------
(* A sync worker.                                                          *)

\* Mutant: the subselect looks at the backoff only.
Claimable_AnyClaim(c) == HasRow(c) /\ queue[c].next = "now"

\* Mutant: a claim is never reclaimed.
Claimable_NoReclaim(c) ==
    HasRow(c) /\ queue[c].claim = NoClaim /\ queue[c].next = "now"

\* The subselect of ClaimNext: unclaimed or past its lease, and past its
\* backoff.  It does not look at status.
Claimable(c) ==
    /\ HasRow(c)
    /\ queue[c].claim = NoClaim \/ queue[c].claim \in expired
    /\ queue[c].next = "now"

\* Store.ClaimNext, stamping a fresh claim_id and returning the item.
ClaimNext(w, c) ==
    LET k == CHOOSE i \in ClaimIds : Fresh(i)
    IN  /\ worker[w] = Idle
        /\ Claimable(c)
        /\ \E i \in ClaimIds : Fresh(i)
        /\ queue' = [queue EXCEPT ![c].status = "in_progress", ![c].claim = k]
        /\ worker' = [worker EXCEPT ![w] =
               [pc |-> "claimed", catalog |-> c, claim |-> k,
                attempts |-> queue[c].attempts, version |-> NoVersion]]
        /\ expired' = {i \in expired : ~Fresh(i)}
        /\ UNCHANGED <<cursor, index, etag, poll, sweep, failures, crashes>>

\* SyncNext resolves the item against what the index declares now and
\* pushes it to the sink, which accepts it.
Resolve(w) ==
    /\ worker[w].pc = "claimed"
    /\ worker[w].catalog \notin Broken
    /\ worker' = [worker EXCEPT ![w].pc = "resolved",
                                ![w].version = index[worker[w].catalog]]
    /\ UNCHANGED <<queue, cursor, index, etag, poll, expired, sweep,
                   failures, crashes>>

\* Store.Complete: the cursor is upserted whatever the claim, the row is
\* deleted only if it still carries this claim, in one transaction.
Complete(w) ==
    /\ worker[w].pc = "resolved"
    /\ cursor' = [cursor EXCEPT ![worker[w].catalog] =
           [version |-> worker[w].version, reason |-> FALSE]]
    /\ queue' = IF Holds(w)
                  THEN [queue EXCEPT ![worker[w].catalog] = NoRow]
                  ELSE queue
    /\ worker' = [worker EXCEPT ![w] = Idle]
    /\ UNCHANGED <<index, etag, poll, expired, sweep, failures, crashes>>

\* Mutant: the failure is not recorded before the item is parked.
RecordFailure_Silent(w) ==
    /\ worker[w].pc = "claimed"
    /\ IF worker[w].catalog \in Broken
         THEN UNCHANGED failures
         ELSE /\ failures < MaxFailures
              /\ failures' = failures + 1
    /\ worker' = [worker EXCEPT ![w].pc = "failed"]
    /\ UNCHANGED <<queue, cursor, index, etag, poll, expired, sweep, crashes>>

\* Store.RecordFailure: the reason is stamped, version and status are not
\* touched.  A broken catalog fails always, another one MaxFailures times.
RecordFailure(w) ==
    /\ worker[w].pc = "claimed"
    /\ IF worker[w].catalog \in Broken
         THEN UNCHANGED failures
         ELSE /\ failures < MaxFailures
              /\ failures' = failures + 1
    /\ cursor' = [cursor EXCEPT ![worker[w].catalog].reason = TRUE]
    /\ worker' = [worker EXCEPT ![w].pc = "failed"]
    /\ UNCHANGED <<queue, index, etag, poll, expired, sweep, crashes>>

\* n failed attempts do not park a row yet.
WithinAttempts(n) == MaxAttempts = 0 \/ n < MaxAttempts

\* The row Reschedule writes: released, one attempt more, behind a backoff.
Released(r) ==
    [r EXCEPT !.status = "queued", !.next = "later",
              !.attempts = r.attempts + 1, !.claim = NoClaim]

\* The row Park writes: released and set aside until the sweep looks at it.
SetAside(r) ==
    [r EXCEPT !.status = "parked", !.next = "never",
              !.attempts = r.attempts + 1, !.claim = NoClaim,
              !.parks = r.parks + 1]

\* Store.Reschedule: the holder's claim is released behind a backoff.
Reschedule(w) ==
    /\ worker[w].pc = "failed"
    /\ WithinAttempts(worker[w].attempts + 1)
    /\ queue' = IF Holds(w)
                  THEN [queue EXCEPT ![worker[w].catalog] = Released(@)]
                  ELSE queue
    /\ worker' = [worker EXCEPT ![w] = Idle]
    /\ UNCHANGED <<cursor, index, etag, poll, expired, sweep,
                   failures, crashes>>

\* Store.Park: the holder's claim is released and the row is set aside.  A
\* permanent failure parks at once, any other one at the last attempt.
Park(w) ==
    /\ worker[w].pc = "failed"
    /\ queue' = IF Holds(w)
                  THEN [queue EXCEPT ![worker[w].catalog] = SetAside(@)]
                  ELSE queue
    /\ worker' = [worker EXCEPT ![w] = Idle]
    /\ UNCHANGED <<cursor, index, etag, poll, expired, sweep,
                   failures, crashes>>

\* The replica dies, or a store call of the item fails: the worker drops the
\* item and the claim stays on the row.
Crash(w) ==
    /\ Busy(w)
    /\ crashes < MaxCrashes
    /\ crashes' = crashes + 1
    /\ worker' = [worker EXCEPT ![w] = Idle]
    /\ UNCHANGED <<queue, cursor, index, etag, poll, expired, sweep, failures>>

-----------------------------------------------------------------------------
(* The park sweep and the clock.                                           *)

Parked(c) == HasRow(c) /\ queue[c].status = "parked"

\* RequeueOrAbandonParked, first UPDATE: rows parked long enough and with
\* revivals left are made ready with a fresh attempts budget.
ReviveParked(old) ==
    /\ sweep = "revive"
    /\ queue' = [c \in Catalogs |->
          IF c \in old /\ Parked(c) /\ queue[c].parks <= MaxParkCount
            THEN [queue[c] EXCEPT !.status = "queued", !.attempts = 0,
                                  !.next = "now"]
            ELSE queue[c]]
    /\ sweep' = "abandon"
    /\ UNCHANGED <<cursor, index, etag, poll, worker, expired,
                   failures, crashes>>

\* Mutant: the two UPDATEs leave a gap between them.
AbandonParked_Gap(old) ==
    /\ sweep = "abandon"
    /\ queue' = [c \in Catalogs |->
          IF c \in old /\ Parked(c) /\ queue[c].parks > MaxParkCount + 1
            THEN [queue[c] EXCEPT !.status = "abandoned"]
            ELSE queue[c]]
    /\ sweep' = "revive"
    /\ UNCHANGED <<cursor, index, etag, poll, worker, expired,
                   failures, crashes>>

\* RequeueOrAbandonParked, second UPDATE: the others are abandoned.
AbandonParked(old) ==
    /\ sweep = "abandon"
    /\ queue' = [c \in Catalogs |->
          IF c \in old /\ Parked(c) /\ queue[c].parks > MaxParkCount
            THEN [queue[c] EXCEPT !.status = "abandoned"]
            ELSE queue[c]]
    /\ sweep' = "revive"
    /\ UNCHANGED <<cursor, index, etag, poll, worker, expired,
                   failures, crashes>>

\* claimed_at falls behind now() - claimLease.  Without slow workers that
\* only happens to the claim of a worker that has crashed.
LeaseExpires(k) ==
    /\ k \notin expired
    /\ \E c \in Catalogs : HasRow(c) /\ queue[c].claim = k
    /\ SlowWorkers \/ \A w \in Workers : Busy(w) => worker[w].claim # k
    /\ expired' = expired \cup {k}
    /\ UNCHANGED <<queue, cursor, index, etag, poll, worker, sweep,
                   failures, crashes>>

\* next_attempt_at falls behind now().
BackoffElapses(c) ==
    /\ HasRow(c)
    /\ queue[c].next = "later"
    /\ queue' = [queue EXCEPT ![c].next = "now"]
    /\ UNCHANGED <<cursor, index, etag, poll, worker, expired, sweep,
                   failures, crashes>>

-----------------------------------------------------------------------------

PollNext ==
    \/ PollFetch
    \/ \E c \in Catalogs : PollDecide(c)
    \/ UpsertIndexCursor

Claim(w) == \E c \in Catalogs : ClaimNext(w, c)

Settle(w) == Complete(w) \/ Reschedule(w) \/ Park(w)

SyncNext(w) == Claim(w) \/ Resolve(w) \/ RecordFailure(w) \/ Settle(w)

Sweep == \E old \in SUBSET Catalogs : ReviveParked(old) \/ AbandonParked(old)

Next ==
    \/ \E c \in Catalogs : Publish(c)
    \/ PollNext
    \/ \E w \in Workers : SyncNext(w) \/ Crash(w)
    \/ Sweep
    \/ \E k \in ClaimIds : LeaseExpires(k)
    \/ \E c \in Catalogs : BackoffElapses(c)

Spec == Init /\ [][Next]_vars

\* Each loop of scheduler.go runs until Stop and its ticker fires again, so
\* the poller, every worker and the sweep take their next step; a row parked
\* long enough is in the sweep's UPDATEs from some tick on; time passes.
Fairness ==
    /\ WF_vars(PollNext)
    /\ \A w \in Workers : WF_vars(SyncNext(w))
    /\ WF_vars(Sweep)
    /\ SF_vars(ReviveParked(Catalogs))
    /\ SF_vars(AbandonParked(Catalogs))
    /\ \A k \in ClaimIds : WF_vars(LeaseExpires(k))
    /\ \A c \in Catalogs : WF_vars(BackoffElapses(c))

FairSpec == Spec /\ Fairness

-----------------------------------------------------------------------------
(* Safety.                                                                 *)

\* What ListAbandoned reports of a catalog the sweep has given up on.
ListAbandoned ==
    {[catalog |-> c, parkCount |-> queue[c].parks,
      lastError |-> cursor[c].reason] :
        c \in {d \in Catalogs : HasRow(d) /\ queue[d].status = "abandoned"}}

\* The columns of a row agree: exactly the claimed rows are in progress, and
\* exactly the set-aside rows have no next attempt.  ClaimNext looks at
\* claimed_at and next_attempt_at only, so this is what keeps it from
\* claiming a parked or abandoned row, and the sweep from a claimed one.
RowConsistent ==
    \A c \in Catalogs : HasRow(c) =>
        /\ queue[c].status = "in_progress" <=> queue[c].claim # NoClaim
        /\ queue[c].next = "never" <=>
             queue[c].status \in {"parked", "abandoned"}

\* While a worker's lease runs, the row it claimed is still its own: no
\* coalescing Enqueue, sweep or other worker takes it away (queue.go, Enqueue:
\* "a coalescing enqueue can never yank a row out from under the worker
\* holding it").
LeaseProtectsHolder ==
    \A w \in Workers :
        Busy(w) /\ worker[w].claim \notin expired => Holds(w)

\* Two workers never believe at once, both within their lease, that they own
\* the same catalog.
NoTwoOwners ==
    \A v, w \in Workers :
        /\ v # w /\ Busy(v) /\ Busy(w)
        /\ worker[v].claim \notin expired
        /\ worker[w].claim \notin expired
        => worker[v].catalog # worker[w].catalog

\* The attempts a worker read at its claim, on which it decides between
\* Reschedule and Park, are still the row's when it settles.
SnapshotFresh ==
    \A w \in Workers :
        Holds(w) => worker[w].attempts = queue[worker[w].catalog].attempts

\* The retry budget: no row is retried beyond MaxAttempts between two parks,
\* and a row is abandoned only after more parks than MaxParkCount revivals.
BudgetsKept ==
    \A c \in Catalogs : HasRow(c) =>
        /\ MaxAttempts = 0 \/ queue[c].attempts <= MaxAttempts
        /\ queue[c].status = "queued" => WithinAttempts(queue[c].attempts)
        /\ queue[c].status = "abandoned" => queue[c].parks > MaxParkCount

\* An abandoned catalog is reported with its failure (ListAbandoned:
\* "RecordFailure always runs before Park, so this is that abandoned
\* catalog's actual last error").
AbandonedExplained == \A a \in ListAbandoned : a.lastError

\* Complete settles the cursor and removes the row together ("a crash
\* between the two never leaves the cursor advanced with the item still
\* claimed, or vice versa").
SettleRemovesRow ==
    [][\A c \in Catalogs :
         cursor'[c].version # cursor[c].version => queue'[c] = NoRow]_vars

\* The settled version of a catalog never goes back.
CursorNeverRegresses ==
    [][\A c \in Catalogs : cursor[c].version <= cursor'[c].version]_vars

\* A change the poller has seen is either settled or still queued: once the
\* stored validators match the index (later polls end in a 304), no catalog
\* is left behind with no row to sync it.
NoLostUpdate ==
    poll = NotPolling /\ etag = index =>
        \A c \in Catalogs : cursor[c].version = index[c] \/ HasRow(c)

-----------------------------------------------------------------------------
(* Liveness.                                                               *)

\* Whatever crashes, slow syncs and transient failures happened before, every
\* catalog that can be synced ends at the version the index declares.
Converges ==
    <>[](\A c \in Catalogs \ Broken : cursor[c].version = index[c])

\* A catalog that never syncs stops being retried: it ends abandoned, when its
\* index host answers 304 to an unchanged index.  Without validators every poll
\* compares the index anew (PollDecide) and Enqueue makes the abandoned row queued
\* again, so the retries do not end.
EventuallyAbandoned ==
    ConditionalGet =>
        \A c \in Broken :
            []<>(index[c] # NoVersion) =>
                <>[](HasRow(c) /\ queue[c].status = "abandoned")
=============================================================================
