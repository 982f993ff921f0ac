-------------------------- MODULE CrawlQueueProofs --------------------------
(***************************************************************************)
(* Proofs about CrawlQueue, for every number of catalogs, workers, claim   *)
(* ids, attempts and parks.                                                *)
(*                                                                         *)
(* The safety invariants are not inductive one by one.  A worker keeps its *)
(* row within its lease because settles match by claim id and no two       *)
(* workers carry the same id (DistinctClaims); the sweep does not touch a  *)
(* claimed row because it looks at status, which RowConsistent ties to the *)
(* claim; Reschedule keeps the attempts budget because the worker decides  *)
(* on a fresh count (SnapshotFresh) and the row had an attempt left        *)
(* (AttemptsLeft).  QueueInv is their conjunction.  The last part adds     *)
(* what holds when no sync outlives its lease (SlowWorkers = FALSE).       *)
(***************************************************************************)
EXTENDS CrawlQueue, TLAPS

\* A stored row is told apart from the absence of one.
LEMMA RowIsNotNoRow ==
    ASSUME NEW r \in Row
    PROVE  r # NoRow
BY DEF Row, NoRow

\* A worker with an item is told apart from one without.
LEMMA WorkingIsNotIdle ==
    ASSUME NEW u \in Working
    PROVE  u # Idle
BY DEF Working, Idle

\* The claim id ClaimNext draws is one of the ids, and fresh.
LEMMA FreshClaim ==
    ASSUME \E i \in ClaimIds : Fresh(i)
    PROVE  /\ (CHOOSE i \in ClaimIds : Fresh(i)) \in ClaimIds
           /\ Fresh(CHOOSE i \in ClaimIds : Fresh(i))
OBVIOUS

\* What a busy worker remembers of its claim is well typed.
LEMMA BusyIsWorking ==
    ASSUME TypeOK, NEW w \in Workers, Busy(w)
    PROVE  /\ worker[w] \in Working
           /\ worker[w].catalog \in Catalogs
           /\ worker[w].claim \in ClaimIds
<1>1. worker[w] \in Working
  BY DEF TypeOK, Busy
<1> QED BY <1>1 DEF Working

\* The row a worker holds is there.
LEMMA HeldIsRow ==
    ASSUME TypeOK, NEW w \in Workers, Holds(w)
    PROVE  queue[worker[w].catalog] \in Row
<1>1. worker[w].catalog \in Catalogs
  BY BusyIsWorking DEF Holds
<1> QED BY <1>1 DEF TypeOK, Holds, HasRow

\* Reschedule and Park write well-typed rows.
LEMMA SettledRows ==
    ASSUME NEW r \in Row
    PROVE  Released(r) \in Row /\ SetAside(r) \in Row
<1>1. r.attempts + 1 \in Nat /\ r.parks + 1 \in Nat
  BY DEF Row
<1> QED BY <1>1 DEF Row, Released, SetAside

\* Every store call keeps the tables and the callers well typed.
LEMMA TypeStep ==
    ASSUME TypeOK, [Next]_vars
    PROVE  TypeOK'
<1> USE ConstantsAssumption DEF TypeOK
<1>1. ASSUME NEW c \in Catalogs, Publish(c)
      PROVE  TypeOK'
  BY <1>1 DEF Publish, Versions
<1>2. CASE PollFetch
  BY <1>2 DEF PollFetch, Polling
<1>3. ASSUME NEW c \in Catalogs, PollDecide(c)
      PROVE  TypeOK'
  <2>1. poll' \in Polling
    BY <1>3 DEF PollDecide, Polling, NotPolling
  <2>2. queue' \in [Catalogs -> Row \cup {NoRow}]
    <3>1. FreshRow \in Row
      BY DEF FreshRow, Row
    <3>2. CASE queue' = queue
      BY <3>2
    <3>3. CASE Enqueue(c)
      <4>1. ASSUME queue[c] # NoRow
            PROVE  [queue[c] EXCEPT !.status = "queued", !.attempts = 0,
                                    !.next = "now"] \in Row
        BY <4>1 DEF Row
      <4> QED BY <3>1, <3>3, <4>1 DEF Enqueue
    <3> QED BY <1>3, <3>2, <3>3 DEF PollDecide
  <2> QED BY <1>3, <2>1, <2>2 DEF PollDecide
<1>4. CASE UpsertIndexCursor
  BY <1>4 DEF UpsertIndexCursor, Polling, NotPolling
<1>5. ASSUME NEW w \in Workers, NEW c \in Catalogs, ClaimNext(w, c)
      PROVE  TypeOK'
  <2> DEFINE k == CHOOSE i \in ClaimIds : Fresh(i)
  <2>1. k \in ClaimIds
    BY <1>5, FreshClaim DEF ClaimNext
  <2>2. queue[c] \in Row
    BY <1>5 DEF ClaimNext, Claimable, HasRow
  <2> HIDE DEF k
  <2>3. [queue[c] EXCEPT !.status = "in_progress", !.claim = k] \in Row
    BY <2>1, <2>2 DEF Row
  <2>4. [pc |-> "claimed", catalog |-> c, claim |-> k,
         attempts |-> queue[c].attempts, version |-> NoVersion] \in Working
    BY <2>1, <2>2 DEF Row, Working, NoVersion, Versions
  <2> QED BY <1>5, <2>1, <2>2, <2>3, <2>4 DEF ClaimNext, k
<1>6. ASSUME NEW w \in Workers, Resolve(w)
      PROVE  TypeOK'
  <2>1. worker[w] \in Working
    BY <1>6 DEF Resolve, Idle
  <2>2. [worker[w] EXCEPT !.pc = "resolved",
                          !.version = index[worker[w].catalog]] \in Working
    BY <2>1 DEF Working
  <2> QED BY <1>6, <2>2 DEF Resolve
<1>7. ASSUME NEW w \in Workers, Complete(w)
      PROVE  TypeOK'
  <2>1. worker[w] \in Working
    BY <1>7 DEF Complete, Idle
  <2>2. [version |-> worker[w].version, reason |-> FALSE]
          \in [version : Versions, reason : BOOLEAN]
    BY <2>1 DEF Working
  <2>3. worker[w].catalog \in Catalogs
    BY <2>1 DEF Working
  <2> QED BY <1>7, <2>2, <2>3 DEF Complete
<1>8. ASSUME NEW w \in Workers, RecordFailure(w)
      PROVE  TypeOK'
  <2>1. worker[w] \in Working
    BY <1>8 DEF RecordFailure, Idle
  <2>2. [worker[w] EXCEPT !.pc = "failed"] \in Working
    BY <2>1 DEF Working
  <2>3. worker[w].catalog \in Catalogs
    BY <2>1 DEF Working
  <2>4. [cursor[worker[w].catalog] EXCEPT !.reason = TRUE]
          \in [version : Versions, reason : BOOLEAN]
    BY <2>3
  <2>5. cursor' = [cursor EXCEPT ![worker[w].catalog] =
                     [cursor[worker[w].catalog] EXCEPT !.reason = TRUE]]
    BY <1>8 DEF RecordFailure
  <2>6. worker' = [worker EXCEPT ![w] = [worker[w] EXCEPT !.pc = "failed"]]
    BY <1>8 DEF RecordFailure
  <2>7. failures' \in Nat
    BY <1>8 DEF RecordFailure
  <2>8. /\ cursor' \in [Catalogs -> [version : Versions, reason : BOOLEAN]]
        /\ worker' \in [Workers -> Working \cup {Idle}]
    BY <2>2, <2>4, <2>5, <2>6
  <2> QED BY <1>8, <2>7, <2>8 DEF RecordFailure
<1>9. ASSUME NEW w \in Workers, Reschedule(w)
      PROVE  TypeOK'
  <2>1. CASE Holds(w)
    <3>1. Released(queue[worker[w].catalog]) \in Row
      BY <2>1, HeldIsRow, SettledRows
    <3>2. queue' = [queue EXCEPT ![worker[w].catalog] =
                      Released(queue[worker[w].catalog])]
      BY <1>9, <2>1 DEF Reschedule
    <3> QED BY <1>9, <3>1, <3>2 DEF Reschedule
  <2> QED BY <1>9, <2>1 DEF Reschedule
<1>10. ASSUME NEW w \in Workers, Park(w)
      PROVE  TypeOK'
  <2>1. CASE Holds(w)
    <3>1. SetAside(queue[worker[w].catalog]) \in Row
      BY <2>1, HeldIsRow, SettledRows
    <3>2. queue' = [queue EXCEPT ![worker[w].catalog] =
                      SetAside(queue[worker[w].catalog])]
      BY <1>10, <2>1 DEF Park
    <3> QED BY <1>10, <3>1, <3>2 DEF Park
  <2> QED BY <1>10, <2>1 DEF Park
<1>11. ASSUME NEW w \in Workers, Crash(w)
      PROVE  TypeOK'
  BY <1>11 DEF Crash
<1>12. ASSUME NEW old \in SUBSET Catalogs, ReviveParked(old)
      PROVE  TypeOK'
  <2>1. ASSUME NEW c \in Catalogs, Parked(c)
        PROVE  [queue[c] EXCEPT !.status = "queued", !.attempts = 0,
                                !.next = "now"] \in Row
    BY <2>1 DEF Parked, HasRow, Row
  <2> QED BY <1>12, <2>1 DEF ReviveParked
<1>13. ASSUME NEW old \in SUBSET Catalogs, AbandonParked(old)
      PROVE  TypeOK'
  <2>1. ASSUME NEW c \in Catalogs, Parked(c)
        PROVE  [queue[c] EXCEPT !.status = "abandoned"] \in Row
    BY <2>1 DEF Parked, HasRow, Row
  <2> QED BY <1>13, <2>1 DEF AbandonParked
<1>14. ASSUME NEW k \in ClaimIds, LeaseExpires(k)
      PROVE  TypeOK'
  BY <1>14 DEF LeaseExpires
<1>15. ASSUME NEW c \in Catalogs, BackoffElapses(c)
      PROVE  TypeOK'
  <2>1. [queue[c] EXCEPT !.next = "now"] \in Row
    BY <1>15 DEF BackoffElapses, HasRow, Row
  <2> QED BY <1>15, <2>1 DEF BackoffElapses
<1>16. CASE UNCHANGED vars
  BY <1>16 DEF vars
<1> QED
  BY <1>1, <1>2, <1>3, <1>4, <1>5, <1>6, <1>7, <1>8, <1>9, <1>10, <1>11,
     <1>12, <1>13, <1>14, <1>15, <1>16
     DEF Next, PollNext, SyncNext, Claim, Settle, Sweep

-----------------------------------------------------------------------------

\* No two workers carry the same claim id, whether it is still on a row or
\* not: a settle that matches a row by claim id matches its own.
DistinctClaims ==
    \A v, w \in Workers :
        v # w /\ Busy(v) /\ Busy(w) => worker[v].claim # worker[w].claim

\* A row that is waiting for a worker or held by one has an attempt left.
AttemptsLeft ==
    \A c \in Catalogs :
        HasRow(c) /\ queue[c].status \in {"queued", "in_progress"}
            => WithinAttempts(queue[c].attempts)

QueueInv ==
    /\ TypeOK
    /\ RowConsistent
    /\ DistinctClaims
    /\ LeaseProtectsHolder
    /\ SnapshotFresh
    /\ AttemptsLeft
    /\ BudgetsKept

\* The part of QueueInv that looks at one row alone.
GoodRow(r) ==
    /\ r.status = "in_progress" <=> r.claim # NoClaim
    /\ r.next = "never" <=> r.status \in {"parked", "abandoned"}
    /\ r.status \in {"queued", "in_progress"} => WithinAttempts(r.attempts)
    /\ MaxAttempts = 0 \/ r.attempts <= MaxAttempts
    /\ r.status = "abandoned" => r.parks > MaxParkCount

GoodRows == \A c \in Catalogs : HasRow(c) => GoodRow(queue[c])

\* The row-local part of QueueInv is that of its three conjuncts.
LEMMA GoodRowsParts ==
    GoodRows <=> RowConsistent /\ AttemptsLeft /\ BudgetsKept
BY DEF GoodRows, GoodRow, RowConsistent, AttemptsLeft, BudgetsKept

\* What Enqueue and the sweep's revival make of a row.
Ready(r) == [r EXCEPT !.status = "queued", !.attempts = 0, !.next = "now"]

\* Each of the six ways the store rewrites a row keeps it good, given what
\* the statement's WHERE clause or the caller has established.
LEMMA RewrittenRows ==
    ASSUME NEW r \in Row, GoodRow(r)
    PROVE  /\ r.claim = NoClaim => GoodRow(Ready(r))
           /\ \A k \in ClaimIds : r.next = "now" =>
                 GoodRow([r EXCEPT !.status = "in_progress", !.claim = k])
           /\ WithinAttempts(r.attempts + 1) => GoodRow(Released(r))
           /\ r.claim # NoClaim => GoodRow(SetAside(r))
           /\ r.status = "parked" /\ r.parks > MaxParkCount =>
                 GoodRow([r EXCEPT !.status = "abandoned"])
           /\ r.next = "later" => GoodRow([r EXCEPT !.next = "now"])
<1> USE ConstantsAssumption DEF WithinAttempts
<1>1. r.claim = NoClaim => GoodRow(Ready(r))
  BY DEF Row, GoodRow, Ready
<1>2. ASSUME NEW k \in ClaimIds, r.next = "now"
      PROVE  GoodRow([r EXCEPT !.status = "in_progress", !.claim = k])
  BY <1>2 DEF Row, GoodRow
<1>3. WithinAttempts(r.attempts + 1) => GoodRow(Released(r))
  BY DEF Row, GoodRow, Released
<1>4. r.claim # NoClaim => GoodRow(SetAside(r))
  BY DEF Row, GoodRow, SetAside
<1>5. r.status = "parked" /\ r.parks > MaxParkCount =>
        GoodRow([r EXCEPT !.status = "abandoned"])
  BY DEF Row, GoodRow
<1>6. r.next = "later" => GoodRow([r EXCEPT !.next = "now"])
  BY DEF Row, GoodRow
<1> QED BY <1>1, <1>2, <1>3, <1>4, <1>5, <1>6

\* Every store call keeps every row good.
LEMMA RowStep ==
    ASSUME TypeOK, GoodRows, SnapshotFresh, [Next]_vars
    PROVE  GoodRows'
<1> USE DEF GoodRows, HasRow, TypeOK
<1>0. ASSUME NEW c \in Catalogs, queue[c] # NoRow
      PROVE  queue[c] \in Row /\ GoodRow(queue[c])
  BY <1>0
<1>1. CASE UNCHANGED queue
  BY <1>1
<1>2. ASSUME NEW c \in Catalogs, PollDecide(c)
      PROVE  GoodRows'
  <2>1. GoodRow(FreshRow)
    BY ConstantsAssumption DEF GoodRow, FreshRow, WithinAttempts
  <2>2. ASSUME queue[c] # NoRow, queue[c].claim = NoClaim
        PROVE  GoodRow(Ready(queue[c]))
    BY <1>0, <2>2, RewrittenRows
  <2> QED BY <1>2, <2>1, <2>2 DEF PollDecide, Enqueue, Ready
<1>3. ASSUME NEW w \in Workers, NEW c \in Catalogs, ClaimNext(w, c)
      PROVE  GoodRows'
  <2> DEFINE k == CHOOSE i \in ClaimIds : Fresh(i)
  <2>1. k \in ClaimIds
    BY <1>3, FreshClaim DEF ClaimNext
  <2>2. queue' = [queue EXCEPT ![c] =
                    [queue[c] EXCEPT !.status = "in_progress", !.claim = k]]
    BY <1>3 DEF ClaimNext
  <2> HIDE DEF k
  <2>3. GoodRow([queue[c] EXCEPT !.status = "in_progress", !.claim = k])
    BY <1>0, <1>3, <2>1, RewrittenRows DEF ClaimNext, Claimable
  <2> QED BY <2>2, <2>3
<1>4. ASSUME NEW w \in Workers, Complete(w)
      PROVE  GoodRows'
  BY <1>4 DEF Complete
<1>5. ASSUME NEW w \in Workers, Reschedule(w)
      PROVE  GoodRows'
  <2>1. CASE Holds(w)
    <3> DEFINE c == worker[w].catalog
    <3>1. c \in Catalogs /\ queue[c] # NoRow
      BY <2>1, BusyIsWorking DEF Holds
    <3>2. WithinAttempts(queue[c].attempts + 1)
      BY <1>5, <2>1 DEF Reschedule, SnapshotFresh
    <3>3. GoodRow(Released(queue[c]))
      BY <1>0, <3>1, <3>2, RewrittenRows
    <3>4. queue' = [queue EXCEPT ![c] = Released(queue[c])]
      BY <1>5, <2>1 DEF Reschedule
    <3> QED BY <3>1, <3>3, <3>4
  <2> QED BY <1>1, <1>5, <2>1 DEF Reschedule
<1>6. ASSUME NEW w \in Workers, Park(w)
      PROVE  GoodRows'
  <2>1. CASE Holds(w)
    <3> DEFINE c == worker[w].catalog
    <3>1. /\ c \in Catalogs /\ queue[c] # NoRow
          /\ queue[c].claim # NoClaim
      BY <2>1, BusyIsWorking, ConstantsAssumption DEF Holds
    <3>3. GoodRow(SetAside(queue[c]))
      BY <1>0, <3>1, RewrittenRows
    <3>4. queue' = [queue EXCEPT ![c] = SetAside(queue[c])]
      BY <1>6, <2>1 DEF Park
    <3> QED BY <3>1, <3>3, <3>4
  <2> QED BY <1>1, <1>6, <2>1 DEF Park
<1>7. ASSUME NEW old \in SUBSET Catalogs, ReviveParked(old)
      PROVE  GoodRows'
  <2>1. ASSUME NEW c \in Catalogs, Parked(c)
        PROVE  GoodRow(Ready(queue[c]))
    BY <1>0, <2>1, RewrittenRows DEF Parked, GoodRow
  <2> QED BY <1>7, <2>1 DEF ReviveParked, Ready
<1>8. ASSUME NEW old \in SUBSET Catalogs, AbandonParked(old)
      PROVE  GoodRows'
  <2>1. ASSUME NEW c \in Catalogs, Parked(c), queue[c].parks > MaxParkCount
        PROVE  GoodRow([queue[c] EXCEPT !.status = "abandoned"])
    BY <1>0, <2>1, RewrittenRows DEF Parked
  <2> QED BY <1>8, <2>1 DEF AbandonParked
<1>9. ASSUME NEW c \in Catalogs, BackoffElapses(c)
      PROVE  GoodRows'
  <2>1. GoodRow([queue[c] EXCEPT !.next = "now"])
    BY <1>0, <1>9, RewrittenRows DEF BackoffElapses
  <2>2. queue' = [queue EXCEPT ![c] = [queue[c] EXCEPT !.next = "now"]]
    BY <1>9 DEF BackoffElapses
  <2> QED BY <2>1, <2>2
<1> QED
  BY <1>1, <1>2, <1>3, <1>4, <1>5, <1>6, <1>7, <1>8, <1>9
     DEF Next, PollNext, SyncNext, Claim, Settle, Sweep, vars, Publish,
         PollFetch, UpsertIndexCursor, Resolve, RecordFailure, Crash,
         LeaseExpires

-----------------------------------------------------------------------------

HolderInv == DistinctClaims /\ LeaseProtectsHolder /\ SnapshotFresh

\* A step that moves no worker and no lease, and that rewrites claimed rows
\* at most in columns a holder does not rely on, disturbs no holder.
SameClaims ==
    \A c \in Catalogs :
        \/ queue'[c] = queue[c]
        \/ /\ HasRow(c) => queue[c].claim = NoClaim
           /\ HasRow(c)' => queue'[c].claim = NoClaim
        \/ /\ HasRow(c) /\ HasRow(c)'
           /\ queue'[c].claim = queue[c].claim
           /\ queue'[c].attempts = queue[c].attempts

\* Under SameClaims, who holds what, and at which attempts, is unchanged.
LEMMA SameHolders ==
    ASSUME TypeOK, HolderInv, SameClaims, UNCHANGED <<worker, expired>>
    PROVE  HolderInv'
<1>1. DistinctClaims'
  BY DEF HolderInv, DistinctClaims, Busy
<1>2. ASSUME NEW w \in Workers
      PROVE  /\ Holds(w)' <=> Holds(w)
             /\ Holds(w) => queue'[worker[w].catalog].attempts =
                               queue[worker[w].catalog].attempts
  <2>1. CASE Busy(w)
    <3>1. worker[w].catalog \in Catalogs /\ worker[w].claim # NoClaim
      BY <2>1, BusyIsWorking, ConstantsAssumption
    <3> QED BY <2>1, <3>1 DEF SameClaims, Holds, Busy, HasRow
  <2> QED BY <2>1 DEF Holds, Busy
<1> QED
  BY <1>1, <1>2 DEF HolderInv, LeaseProtectsHolder, SnapshotFresh, Busy

\* A worker that lets go of its item, whether its row goes with it or not.
LEMMA LettingGo ==
    ASSUME TypeOK, HolderInv, NEW w \in Workers, Busy(w), UNCHANGED expired,
           worker' = [worker EXCEPT ![w] = Idle],
           \/ UNCHANGED queue
           \/ /\ Holds(w)
              /\ \E r \in Row \cup {NoRow} :
                    /\ queue' = [queue EXCEPT ![worker[w].catalog] = r]
                    /\ r # NoRow => r.claim = NoClaim
    PROVE  HolderInv'
<1>1. ASSUME NEW v \in Workers, Busy(v)'
      PROVE  v # w /\ Busy(v) /\ worker'[v] = worker[v]
  BY <1>1 DEF TypeOK, Busy
<1>2. DistinctClaims'
  BY <1>1 DEF HolderInv, DistinctClaims
<1>3. ASSUME NEW v \in Workers, Busy(v)'
      PROVE  /\ Holds(v)' <=> Holds(v)
             /\ Holds(v) => queue'[worker[v].catalog] = queue[worker[v].catalog]
  <2>1. /\ v # w /\ Busy(v) /\ worker'[v] = worker[v]
        /\ worker[v].catalog \in Catalogs
        /\ worker[v].claim \in ClaimIds
        /\ worker[v].claim # worker[w].claim
    BY <1>1, <1>3, BusyIsWorking DEF HolderInv, DistinctClaims
  <2>2. CASE queue' = queue
    BY <2>1, <2>2 DEF Holds, Busy, HasRow
  <2>3. ASSUME Holds(w), NEW r \in Row \cup {NoRow},
               r # NoRow => r.claim = NoClaim,
               queue' = [queue EXCEPT ![worker[w].catalog] = r]
        PROVE  /\ Holds(v)' <=> Holds(v)
               /\ Holds(v) => queue'[worker[v].catalog] =
                                 queue[worker[v].catalog]
    <3>1. CASE worker[v].catalog = worker[w].catalog
      <4>1. ~Holds(v)
        BY <2>1, <2>3, <3>1 DEF Holds
      <4>2. queue'[worker[v].catalog] = r
        BY <2>1, <2>3, <3>1 DEF TypeOK
      <4>3. ~Holds(v)'
        BY <2>1, <2>3, <4>2, ConstantsAssumption DEF Holds, HasRow
      <4> QED BY <4>1, <4>3
    <3>2. CASE worker[v].catalog # worker[w].catalog
      <4>1. queue'[worker[v].catalog] = queue[worker[v].catalog]
        BY <2>1, <2>3, <3>2 DEF TypeOK
      <4> QED BY <2>1, <4>1 DEF Holds, Busy, HasRow
    <3> QED BY <3>1, <3>2
  <2> QED BY <2>2, <2>3
<1> QED
  BY <1>1, <1>2, <1>3
     DEF HolderInv, LeaseProtectsHolder, SnapshotFresh, Holds

\* A worker that moves on with the same item keeps what it holds.
LEMMA MovingOn ==
    ASSUME TypeOK, HolderInv, NEW w \in Workers, Busy(w),
           UNCHANGED <<queue, expired>>, NEW u,
           worker' = [worker EXCEPT ![w] = u],
           u # Idle, u.catalog = worker[w].catalog,
           u.claim = worker[w].claim, u.attempts = worker[w].attempts
    PROVE  HolderInv'
<1>1. ASSUME NEW v \in Workers
      PROVE  /\ Busy(v)' <=> Busy(v)
             /\ Busy(v) => /\ worker'[v].catalog = worker[v].catalog
                           /\ worker'[v].claim = worker[v].claim
                           /\ worker'[v].attempts = worker[v].attempts
  BY DEF TypeOK, Busy
<1> QED
  BY <1>1 DEF HolderInv, DistinctClaims, LeaseProtectsHolder, SnapshotFresh,
              Holds, HasRow

\* A claim takes only a row no worker within its lease holds, under an id no
\* one carries.
LEMMA Claiming ==
    ASSUME TypeOK, HolderInv, NEW w \in Workers, NEW c \in Catalogs,
           ClaimNext(w, c)
    PROVE  HolderInv'
<1> DEFINE k == CHOOSE i \in ClaimIds : Fresh(i)
<1>1. k \in ClaimIds /\ Fresh(k)
  BY FreshClaim DEF ClaimNext
<1>2. /\ worker[w] = Idle
      /\ queue[c] \in Row
      /\ queue[c].claim = NoClaim \/ queue[c].claim \in expired
      /\ queue' = [queue EXCEPT ![c] =
                     [queue[c] EXCEPT !.status = "in_progress", !.claim = k]]
      /\ worker' = [worker EXCEPT ![w] =
                      [pc |-> "claimed", catalog |-> c, claim |-> k,
                       attempts |-> queue[c].attempts, version |-> NoVersion]]
      /\ expired' = {i \in expired : ~Fresh(i)}
  BY DEF ClaimNext, Claimable, HasRow, TypeOK
<1> HIDE DEF k
<1>3. /\ Busy(w)'
      /\ worker'[w].catalog = c
      /\ worker'[w].claim = k
      /\ worker'[w].attempts = queue[c].attempts
  BY <1>1, <1>2 DEF TypeOK, Busy, Idle
<1>4. /\ HasRow(c)'
      /\ queue'[c].claim = k
      /\ queue'[c].attempts = queue[c].attempts
  BY <1>1, <1>2 DEF TypeOK, HasRow, Row, NoRow
<1>5. ASSUME NEW v \in Workers, v # w, Busy(v)'
      PROVE  /\ Busy(v) /\ worker'[v] = worker[v]
             /\ worker[v].catalog \in Catalogs
             /\ worker[v].claim \in ClaimIds
             /\ worker[v].claim # k
             /\ worker[v].claim \in expired => worker[v].claim \in expired'
  <2>1. Busy(v) /\ worker'[v] = worker[v]
    BY <1>2, <1>5 DEF TypeOK, Busy
  <2>2. ~Fresh(worker[v].claim)
    BY <2>1 DEF Fresh
  <2> QED BY <1>1, <1>2, <2>1, <2>2, BusyIsWorking
<1>6. DistinctClaims'
  BY <1>3, <1>5 DEF HolderInv, DistinctClaims
<1>7. ASSUME NEW v \in Workers, v # w, Busy(v)'
      PROVE  /\ worker'[v].claim \notin expired' => Holds(v)'
             /\ Holds(v)' => worker'[v].attempts =
                               queue'[worker'[v].catalog].attempts
  <2>1. CASE worker[v].catalog = c
    <3>1. ~Holds(v)'
      BY <1>4, <1>5, <1>7, <2>1 DEF Holds
    <3>2. worker[v].claim \in expired
      BY <1>2, <1>5, <1>7, <2>1, ConstantsAssumption
         DEF HolderInv, LeaseProtectsHolder, Holds
    <3> QED BY <1>5, <1>7, <3>1, <3>2
  <2>2. CASE worker[v].catalog # c
    <3>1. queue'[worker[v].catalog] = queue[worker[v].catalog]
      BY <1>2, <1>5, <1>7, <2>2 DEF TypeOK
    <3>2. Holds(v)' <=> Holds(v)
      BY <1>5, <1>7, <3>1 DEF Holds, HasRow
    <3> QED
      BY <1>5, <1>7, <3>1, <3>2
         DEF HolderInv, LeaseProtectsHolder, SnapshotFresh
  <2> QED BY <2>1, <2>2
<1>8. Holds(w)'
  BY <1>3, <1>4 DEF Holds
<1>9. LeaseProtectsHolder'
  BY <1>7, <1>8 DEF LeaseProtectsHolder
<1>10. SnapshotFresh'
  BY <1>3, <1>4, <1>7 DEF SnapshotFresh, Holds
<1> QED BY <1>6, <1>9, <1>10 DEF HolderInv

\* Every store call keeps the holders' part of QueueInv.
LEMMA HolderStep ==
    ASSUME TypeOK, GoodRows, HolderInv, [Next]_vars
    PROVE  HolderInv'
<1>1. ASSUME NEW c \in Catalogs, PollDecide(c)
      PROVE  HolderInv'
  <2>1. SameClaims
    <3>1. CASE UNCHANGED queue
      BY <3>1 DEF SameClaims
    <3>2. CASE Enqueue(c)
      BY <3>2 DEF SameClaims, Enqueue, HasRow, TypeOK, FreshRow, Row
    <3> QED BY <1>1, <3>1, <3>2 DEF PollDecide
  <2> QED BY <1>1, <2>1, SameHolders DEF PollDecide
<1>2. ASSUME NEW w \in Workers, NEW c \in Catalogs, ClaimNext(w, c)
      PROVE  HolderInv'
  BY <1>2, Claiming
<1>3. ASSUME NEW w \in Workers, Resolve(w)
      PROVE  HolderInv'
  <2> DEFINE u == [worker[w] EXCEPT !.pc = "resolved",
                                    !.version = index[worker[w].catalog]]
  <2>1. Busy(w) /\ worker[w] \in Working
    BY <1>3 DEF Resolve, Busy, Idle, TypeOK
  <2>2. worker' = [worker EXCEPT ![w] = u]
    BY <1>3 DEF Resolve
  <2>3. /\ u # Idle /\ u.catalog = worker[w].catalog
        /\ u.claim = worker[w].claim /\ u.attempts = worker[w].attempts
    BY <2>1 DEF Working, Idle
  <2> HIDE DEF u
  <2> QED BY <1>3, <2>1, <2>2, <2>3, MovingOn DEF Resolve
<1>4. ASSUME NEW w \in Workers, Complete(w)
      PROVE  HolderInv'
  <2>1. Busy(w)
    BY <1>4 DEF Complete, Busy, Idle
  <2> QED BY <1>4, <2>1, LettingGo DEF Complete
<1>5. ASSUME NEW w \in Workers, RecordFailure(w)
      PROVE  HolderInv'
  <2> DEFINE u == [worker[w] EXCEPT !.pc = "failed"]
  <2>1. Busy(w) /\ worker[w] \in Working
    BY <1>5 DEF RecordFailure, Busy, Idle, TypeOK
  <2>2. worker' = [worker EXCEPT ![w] = u]
    BY <1>5 DEF RecordFailure
  <2>3. /\ u # Idle /\ u.catalog = worker[w].catalog
        /\ u.claim = worker[w].claim /\ u.attempts = worker[w].attempts
    BY <2>1 DEF Working, Idle
  <2> HIDE DEF u
  <2> QED BY <1>5, <2>1, <2>2, <2>3, MovingOn DEF RecordFailure
<1>6. ASSUME NEW w \in Workers, Reschedule(w)
      PROVE  HolderInv'
  <2>1. Busy(w)
    BY <1>6 DEF Reschedule, Busy, Idle
  <2>2. CASE Holds(w)
    <3>1. queue[worker[w].catalog] \in Row
      BY <2>2, HeldIsRow
    <3>2. /\ Released(queue[worker[w].catalog]) \in Row
          /\ Released(queue[worker[w].catalog]).claim = NoClaim
      BY <3>1, SettledRows DEF Released, Row
    <3> QED BY <1>6, <2>1, <2>2, <3>2, LettingGo DEF Reschedule
  <2> QED BY <1>6, <2>1, <2>2, LettingGo DEF Reschedule
<1>7. ASSUME NEW w \in Workers, Park(w)
      PROVE  HolderInv'
  <2>1. Busy(w)
    BY <1>7 DEF Park, Busy, Idle
  <2>2. CASE Holds(w)
    <3>1. queue[worker[w].catalog] \in Row
      BY <2>2, HeldIsRow
    <3>2. /\ SetAside(queue[worker[w].catalog]) \in Row
          /\ SetAside(queue[worker[w].catalog]).claim = NoClaim
      BY <3>1, SettledRows DEF SetAside, Row
    <3> QED BY <1>7, <2>1, <2>2, <3>2, LettingGo DEF Park
  <2> QED BY <1>7, <2>1, <2>2, LettingGo DEF Park
<1>8. ASSUME NEW w \in Workers, Crash(w)
      PROVE  HolderInv'
  BY <1>8, LettingGo DEF Crash
<1>9. ASSUME NEW old \in SUBSET Catalogs,
             ReviveParked(old) \/ AbandonParked(old)
      PROVE  HolderInv'
  <2>1. ASSUME NEW c \in Catalogs, Parked(c)
        PROVE  queue[c] \in Row /\ queue[c].claim = NoClaim
    BY <2>1 DEF Parked, GoodRows, GoodRow, TypeOK, HasRow
  <2>2. ASSUME NEW c \in Catalogs, Parked(c)
        PROVE  /\ [queue[c] EXCEPT !.status = "queued", !.attempts = 0,
                                   !.next = "now"].claim = NoClaim
               /\ [queue[c] EXCEPT !.status = "abandoned"].claim = NoClaim
    BY <2>1, <2>2 DEF Row
  <2>3. ASSUME NEW c \in Catalogs
        PROVE  \/ queue'[c] = queue[c]
               \/ queue[c].claim = NoClaim /\ queue'[c].claim = NoClaim
    BY <1>9, <2>1, <2>2 DEF ReviveParked, AbandonParked
  <2>4. SameClaims
    BY <2>3 DEF SameClaims
  <2> QED BY <1>9, <2>4, SameHolders DEF ReviveParked, AbandonParked
<1>10. ASSUME NEW k \in ClaimIds, LeaseExpires(k)
      PROVE  HolderInv'
  BY <1>10 DEF LeaseExpires, HolderInv, DistinctClaims, LeaseProtectsHolder,
               SnapshotFresh, Holds, HasRow, Busy
<1>11. ASSUME NEW c \in Catalogs, BackoffElapses(c)
      PROVE  HolderInv'
  <2>1. SameClaims
    BY <1>11, RowIsNotNoRow
       DEF BackoffElapses, SameClaims, HasRow, TypeOK, Row, NoRow
  <2> QED BY <1>11, <2>1, SameHolders DEF BackoffElapses
<1>12. CASE UNCHANGED <<queue, worker, expired>>
  BY <1>12, SameHolders DEF SameClaims
<1> QED
  BY <1>1, <1>2, <1>3, <1>4, <1>5, <1>6, <1>7, <1>8, <1>9, <1>10, <1>11,
     <1>12
     DEF Next, PollNext, SyncNext, Claim, Settle, Sweep, vars, Publish,
         PollFetch, UpsertIndexCursor

-----------------------------------------------------------------------------

\* An empty queue with idle workers satisfies QueueInv.
LEMMA QueueInit ==
    ASSUME Init
    PROVE  QueueInv
<1>1. TypeOK
  BY ConstantsAssumption
     DEF Init, TypeOK, NoVersion, Versions, NotPolling
<1>2. \A c \in Catalogs : ~HasRow(c)
  BY DEF Init, HasRow
<1>3. \A w \in Workers : ~Busy(w) /\ ~Holds(w)
  BY DEF Init, Busy, Holds
<1> QED
  BY <1>1, <1>2, <1>3
     DEF QueueInv, RowConsistent, DistinctClaims, LeaseProtectsHolder,
         SnapshotFresh, AttemptsLeft, BudgetsKept

\* Every store call keeps QueueInv.
LEMMA QueueStep ==
    ASSUME QueueInv, [Next]_vars
    PROVE  QueueInv'
<1>1. TypeOK /\ GoodRows /\ HolderInv
  BY GoodRowsParts DEF QueueInv, HolderInv
<1>2. TypeOK'
  BY <1>1, TypeStep
<1>3. GoodRows'
  BY <1>1, RowStep DEF HolderInv
<1>4. HolderInv'
  BY <1>1, HolderStep
<1>5. RowConsistent' /\ AttemptsLeft' /\ BudgetsKept'
  BY <1>3 DEF GoodRows, GoodRow, RowConsistent, AttemptsLeft, BudgetsKept,
              HasRow
<1> QED BY <1>2, <1>4, <1>5 DEF QueueInv, HolderInv

\* The inductive invariant of the queue.
THEOREM QueueInvariant == Spec => []QueueInv
<1>1. Init => QueueInv
  BY QueueInit
<1>2. QueueInv /\ [Next]_vars => QueueInv'
  BY QueueStep
<1> QED BY <1>1, <1>2, PTL DEF Spec

\* Every store call leaves the tables and the callers well typed.
THEOREM TypeCorrect == Spec => []TypeOK
<1>1. QueueInv => TypeOK
  BY DEF QueueInv
<1> QED BY <1>1, QueueInvariant, PTL

\* The columns ClaimNext does not look at always agree with those it does:
\* no parked, abandoned or freshly claimed row can be claimed by mistake.
THEOREM ColumnsAgree == Spec => []RowConsistent
<1>1. QueueInv => RowConsistent
  BY DEF QueueInv
<1> QED BY <1>1, QueueInvariant, PTL

\* Within its lease a worker keeps the row it claimed, whatever the poller,
\* the sweep and any number of other workers do.
THEOREM LeaseIsExclusive == Spec => []LeaseProtectsHolder
<1>1. QueueInv => LeaseProtectsHolder
  BY DEF QueueInv
<1> QED BY <1>1, QueueInvariant, PTL

\* No two workers within their leases own the same catalog.
THEOREM OneOwner == Spec => []NoTwoOwners
<1>1. QueueInv => NoTwoOwners
  BY DEF QueueInv, DistinctClaims, LeaseProtectsHolder, NoTwoOwners, Holds
<1> QED BY <1>1, QueueInvariant, PTL

\* The attempts count a worker decides on is the row's when it settles.
THEOREM SnapshotStaysFresh == Spec => []SnapshotFresh
<1>1. QueueInv => SnapshotFresh
  BY DEF QueueInv
<1> QED BY <1>1, QueueInvariant, PTL

\* No row is attempted or revived beyond its budgets.
THEOREM BudgetsHold == Spec => []BudgetsKept
<1>1. QueueInv => BudgetsKept
  BY DEF QueueInv
<1> QED BY <1>1, QueueInvariant, PTL

-----------------------------------------------------------------------------
(* When every sync ends within the lease.                                  *)

\* No claim a worker still carries is expired.
PromptLeases == \A w \in Workers : Busy(w) => worker[w].claim \notin expired

\* What a worker resolved lies between the cursor and the index.
VersionsOrdered ==
    /\ \A c \in Catalogs : cursor[c].version <= index[c]
    /\ \A w \in Workers : worker[w].pc = "resolved" =>
          /\ cursor[worker[w].catalog].version <= worker[w].version
          /\ worker[w].version <= index[worker[w].catalog]

\* The failure a worker recorded is still there when it settles, and so is
\* that of every row set aside.
ReasonsKept ==
    /\ \A w \in Workers : worker[w].pc = "failed" =>
          cursor[worker[w].catalog].reason
    /\ \A c \in Catalogs :
          HasRow(c) /\ queue[c].status \in {"parked", "abandoned"} =>
              cursor[c].reason

PromptInv == QueueInv /\ PromptLeases /\ VersionsOrdered /\ ReasonsKept

\* Without slow syncs, only a claim nobody carries runs out of lease.
LEMMA LeaseStep ==
    ASSUME SlowWorkers = FALSE, QueueInv, PromptLeases, [Next]_vars
    PROVE  PromptLeases'
<1> USE DEF PromptLeases, Busy, QueueInv, TypeOK
<1>1. ASSUME NEW w \in Workers, NEW c \in Catalogs, ClaimNext(w, c)
      PROVE  PromptLeases'
  <2> DEFINE k == CHOOSE i \in ClaimIds : Fresh(i)
  <2>1. k \in ClaimIds /\ Fresh(k)
    BY <1>1, FreshClaim DEF ClaimNext
  <2>2. /\ expired' = {i \in expired : ~Fresh(i)}
        /\ worker' = [worker EXCEPT ![w] =
               [pc |-> "claimed", catalog |-> c, claim |-> k,
                attempts |-> queue[c].attempts, version |-> NoVersion]]
    BY <1>1 DEF ClaimNext
  <2> HIDE DEF k
  <2> QED BY <2>1, <2>2
<1>2. ASSUME NEW w \in Workers, Resolve(w) \/ RecordFailure(w)
      PROVE  PromptLeases'
  <2>1. worker[w] \in Working
    BY <1>2 DEF Resolve, RecordFailure, Idle
  <2>2. /\ \A v \in Workers : v # w => worker'[v] = worker[v]
        /\ worker'[w].claim = worker[w].claim
        /\ expired' = expired
    BY <1>2, <2>1 DEF Resolve, RecordFailure, Working
  <2>3. worker[w] # Idle
    BY <2>1, WorkingIsNotIdle
  <2> QED BY <2>2, <2>3
<1>3. ASSUME NEW w \in Workers, Settle(w) \/ Crash(w)
      PROVE  PromptLeases'
  BY <1>3 DEF Settle, Complete, Reschedule, Park, Crash
<1>4. ASSUME NEW k \in ClaimIds, LeaseExpires(k)
      PROVE  PromptLeases'
  BY <1>4 DEF LeaseExpires
<1>5. CASE UNCHANGED <<worker, expired>>
  BY <1>5
<1> QED
  BY <1>1, <1>2, <1>3, <1>4, <1>5
     DEF Next, PollNext, SyncNext, Claim, Sweep, vars, Publish, PollFetch,
         PollDecide, UpsertIndexCursor, ReviveParked, AbandonParked,
         BackoffElapses

\* A worker that settles within its lease holds the row, alone.
LEMMA SoleHolder ==
    ASSUME QueueInv, PromptLeases, NEW w \in Workers, Busy(w)
    PROVE  /\ Holds(w)
           /\ \A v \in Workers : v # w /\ Busy(v) =>
                 worker[v].catalog # worker[w].catalog
BY DEF QueueInv, PromptLeases, LeaseProtectsHolder, DistinctClaims, Holds

\* Settles and publications keep cursor, resolved version and index in order.
LEMMA OrderStep ==
    ASSUME QueueInv, PromptLeases, VersionsOrdered, [Next]_vars
    PROVE  VersionsOrdered'
<1> USE DEF VersionsOrdered
<1>0. TypeOK
  BY DEF QueueInv
<1>1. ASSUME NEW v \in Workers, worker[v].pc # "idle"
      PROVE  /\ Busy(v)
             /\ worker[v] \in Working
             /\ worker[v].catalog \in Catalogs
             /\ worker[v].version \in Nat
  BY <1>0, <1>1 DEF TypeOK, Busy, Idle, Working, Versions
<1>2. \A c \in Catalogs : cursor[c].version \in Nat /\ index[c] \in Nat
  BY <1>0 DEF TypeOK, Versions
<1>3. ASSUME NEW c \in Catalogs, Publish(c)
      PROVE  VersionsOrdered'
  <2>1. \A d \in Catalogs : index'[d] \in Nat /\ index[d] <= index'[d]
    BY <1>0, <1>2, <1>3 DEF Publish, TypeOK
  <2> QED BY <1>1, <1>2, <1>3, <2>1 DEF Publish
<1>4. ASSUME NEW w \in Workers, NEW c \in Catalogs, ClaimNext(w, c)
      PROVE  VersionsOrdered'
  <2>1. /\ worker'[w].pc = "claimed"
        /\ \A v \in Workers : v # w => worker'[v] = worker[v]
    BY <1>0, <1>4 DEF ClaimNext, TypeOK
  <2>2. cursor' = cursor /\ index' = index
    BY <1>4 DEF ClaimNext
  <2> QED BY <2>1, <2>2
<1>5. ASSUME NEW w \in Workers, Resolve(w)
      PROVE  VersionsOrdered'
  <2>1. worker[w].pc # "idle"
    BY <1>5 DEF Resolve
  <2>2. /\ \A v \in Workers : v # w => worker'[v] = worker[v]
        /\ worker'[w].catalog = worker[w].catalog
        /\ worker'[w].version = index[worker[w].catalog]
    BY <1>0, <1>1, <1>5, <2>1 DEF Resolve, TypeOK, Working
  <2>3. cursor' = cursor /\ index' = index
    BY <1>5 DEF Resolve
  <2>4. index[worker[w].catalog] <= index[worker[w].catalog]
    BY <1>1, <1>2, <2>1
  <2> QED BY <1>1, <1>2, <2>1, <2>2, <2>3, <2>4
<1>6. ASSUME NEW w \in Workers, Complete(w)
      PROVE  VersionsOrdered'
  <2>1. worker[w].pc # "idle" /\ worker[w].pc = "resolved"
    BY <1>6 DEF Complete
  <2>2. /\ \A c \in Catalogs : c # worker[w].catalog => cursor'[c] = cursor[c]
        /\ cursor'[worker[w].catalog].version = worker[w].version
    BY <1>0, <1>1, <1>6, <2>1 DEF Complete, TypeOK
  <2>3. /\ \A v \in Workers : v # w => worker'[v] = worker[v]
        /\ worker'[w].pc = "idle"
        /\ index' = index
    BY <1>0, <1>6 DEF Complete, TypeOK, Idle
  <2>4. \A v \in Workers : v # w /\ Busy(v) =>
          worker[v].catalog # worker[w].catalog
    BY <1>1, <2>1, SoleHolder
  <2> QED BY <1>1, <1>2, <2>1, <2>2, <2>3, <2>4
<1>7. ASSUME NEW w \in Workers, RecordFailure(w)
      PROVE  VersionsOrdered'
  <2>1. worker[w].pc # "idle"
    BY <1>7 DEF RecordFailure
  <2>2. \A c \in Catalogs : cursor'[c].version = cursor[c].version
    BY <1>0, <1>1, <1>7, <2>1 DEF RecordFailure, TypeOK
  <2>3. /\ \A v \in Workers : v # w => worker'[v] = worker[v]
        /\ worker'[w].pc = "failed"
        /\ index' = index
    BY <1>0, <1>1, <1>7, <2>1 DEF RecordFailure, TypeOK, Working
  <2> QED BY <1>1, <2>2, <2>3
<1>8. ASSUME NEW w \in Workers, Reschedule(w) \/ Park(w) \/ Crash(w)
      PROVE  VersionsOrdered'
  <2>1. /\ \A v \in Workers : v # w => worker'[v] = worker[v]
        /\ worker'[w].pc = "idle"
        /\ index' = index /\ cursor' = cursor
    BY <1>0, <1>8 DEF Reschedule, Park, Crash, TypeOK, Idle
  <2> QED BY <2>1
<1>9. CASE UNCHANGED <<cursor, index, worker>>
  BY <1>9
<1> QED
  BY <1>3, <1>4, <1>5, <1>6, <1>7, <1>8, <1>9
     DEF Next, PollNext, SyncNext, Settle, Claim, Sweep, vars, PollFetch,
         PollDecide, UpsertIndexCursor, ReviveParked, AbandonParked,
         LeaseExpires, BackoffElapses

\* A recorded failure outlives the row's way to parked and abandoned.
LEMMA ReasonStep ==
    ASSUME QueueInv, PromptLeases, ReasonsKept, [Next]_vars
    PROVE  ReasonsKept'
<1> USE DEF ReasonsKept
<1>0. TypeOK /\ GoodRows
  BY GoodRowsParts DEF QueueInv
<1>1. ASSUME NEW v \in Workers, worker[v].pc # "idle"
      PROVE  /\ Busy(v)
             /\ worker[v] \in Working
             /\ worker[v].catalog \in Catalogs
  BY <1>0, <1>1 DEF TypeOK, Busy, Idle, Working
<1>2. ASSUME NEW c \in Catalogs, PollDecide(c)
      PROVE  ReasonsKept'
  <2>1. ASSUME NEW d \in Catalogs, HasRow(d)',
               queue'[d].status \in {"parked", "abandoned"}
        PROVE  queue'[d] = queue[d]
    <3>1. CASE queue[c] = NoRow /\ queue'[c] = FreshRow
      BY <1>0, <1>2, <2>1, <3>1
         DEF PollDecide, Enqueue, FreshRow, TypeOK
    <3>2. CASE queue[c] # NoRow /\ queue'[c] = Ready(queue[c])
      <4>1. queue'[c].status = "queued"
        BY <1>0, <3>2 DEF Ready, TypeOK, Row
      <4> QED BY <1>0, <1>2, <2>1, <4>1 DEF PollDecide, Enqueue, TypeOK
    <3>3. CASE queue' = queue
      BY <3>3
    <3> QED
      BY <1>0, <1>2, <3>1, <3>2, <3>3
         DEF PollDecide, Enqueue, Ready, TypeOK
  <2>2. cursor' = cursor /\ worker' = worker
    BY <1>2 DEF PollDecide
  <2> QED BY <2>1, <2>2 DEF HasRow
<1>3. ASSUME NEW w \in Workers, NEW c \in Catalogs, ClaimNext(w, c)
      PROVE  ReasonsKept'
  <2>1. /\ worker'[w].pc = "claimed"
        /\ \A v \in Workers : v # w => worker'[v] = worker[v]
        /\ cursor' = cursor
    BY <1>0, <1>3 DEF ClaimNext, TypeOK
  <2>2. queue'[c].status = "in_progress"
    BY <1>0, <1>3 DEF ClaimNext, Claimable, HasRow, TypeOK, Row
  <2>3. \A d \in Catalogs : d # c => queue'[d] = queue[d]
    BY <1>0, <1>3 DEF ClaimNext, TypeOK
  <2> QED BY <2>1, <2>2, <2>3 DEF HasRow
<1>4. ASSUME NEW w \in Workers, Resolve(w)
      PROVE  ReasonsKept'
  <2>1. worker[w].pc # "idle"
    BY <1>4 DEF Resolve
  <2>2. /\ worker'[w].pc = "resolved"
        /\ \A v \in Workers : v # w => worker'[v] = worker[v]
        /\ cursor' = cursor /\ queue' = queue
    BY <1>0, <1>1, <1>4, <2>1 DEF Resolve, TypeOK, Working
  <2> QED BY <2>2 DEF HasRow
<1>5. ASSUME NEW w \in Workers, Complete(w)
      PROVE  ReasonsKept'
  <2> DEFINE c == worker[w].catalog
  <2>1. Busy(w) /\ c \in Catalogs
    BY <1>1, <1>5 DEF Complete
  <2>2. /\ Holds(w)
        /\ \A v \in Workers : v # w /\ Busy(v) => worker[v].catalog # c
    BY <2>1, SoleHolder
  <2>3. /\ queue'[c] = NoRow
        /\ \A d \in Catalogs : d # c => queue'[d] = queue[d]
        /\ \A d \in Catalogs : d # c => cursor'[d] = cursor[d]
        /\ \A v \in Workers : v # w => worker'[v] = worker[v]
        /\ worker'[w].pc = "idle"
    BY <1>0, <1>5, <2>1, <2>2 DEF Complete, TypeOK, Idle
  <2> HIDE DEF c
  <2>4. ASSUME NEW v \in Workers, worker'[v].pc = "failed"
        PROVE  cursor'[worker'[v].catalog].reason
    <3>1. v # w /\ worker'[v] = worker[v]
      BY <2>3, <2>4
    <3>2. worker[v].catalog # c /\ worker[v].catalog \in Catalogs
      BY <1>1, <2>2, <2>4, <3>1
    <3>3. cursor[worker[v].catalog].reason
      BY <2>4, <3>1
    <3> QED BY <2>3, <3>1, <3>2, <3>3
  <2>5. ASSUME NEW d \in Catalogs, HasRow(d)',
               queue'[d].status \in {"parked", "abandoned"}
        PROVE  cursor'[d].reason
    BY <2>3, <2>5 DEF HasRow
  <2> QED BY <2>4, <2>5
<1>6. ASSUME NEW w \in Workers, RecordFailure(w)
      PROVE  ReasonsKept'
  <2>1. worker[w].pc # "idle"
    BY <1>6 DEF RecordFailure
  <2>2. /\ worker'[w].catalog = worker[w].catalog
        /\ \A v \in Workers : v # w => worker'[v] = worker[v]
        /\ queue' = queue
    BY <1>0, <1>1, <1>6, <2>1 DEF RecordFailure, TypeOK, Working
  <2>3. /\ cursor'[worker[w].catalog].reason
        /\ \A c \in Catalogs : c # worker[w].catalog => cursor'[c] = cursor[c]
    BY <1>0, <1>1, <1>6, <2>1 DEF RecordFailure, TypeOK
  <2> QED BY <1>1, <2>1, <2>2, <2>3 DEF HasRow
<1>7. ASSUME NEW w \in Workers, Reschedule(w)
      PROVE  ReasonsKept'
  <2>1. worker[w].pc # "idle"
    BY <1>7 DEF Reschedule
  <2>2. Holds(w) /\ queue[worker[w].catalog] \in Row
    BY <1>0, <1>1, <2>1, SoleHolder, HeldIsRow
  <2>3. /\ queue'[worker[w].catalog] = Released(queue[worker[w].catalog])
        /\ \A d \in Catalogs : d # worker[w].catalog => queue'[d] = queue[d]
        /\ \A v \in Workers : v # w => worker'[v] = worker[v]
        /\ worker'[w].pc = "idle" /\ cursor' = cursor
    BY <1>0, <1>1, <1>7, <2>1, <2>2 DEF Reschedule, TypeOK, Idle
  <2>4. queue'[worker[w].catalog].status = "queued"
    BY <2>2, <2>3 DEF Released, Row
  <2> QED BY <2>3, <2>4 DEF HasRow
<1>8. ASSUME NEW w \in Workers, Park(w)
      PROVE  ReasonsKept'
  <2>1. worker[w].pc # "idle" /\ cursor[worker[w].catalog].reason
    BY <1>8 DEF Park
  <2>2. Holds(w)
    BY <1>1, <2>1, SoleHolder
  <2>3. /\ \A d \in Catalogs : d # worker[w].catalog => queue'[d] = queue[d]
        /\ \A v \in Workers : v # w => worker'[v] = worker[v]
        /\ worker'[w].pc = "idle" /\ cursor' = cursor
    BY <1>0, <1>8, <2>2 DEF Park, TypeOK, Idle
  <2> QED BY <2>1, <2>3 DEF HasRow
<1>9. ASSUME NEW w \in Workers, Crash(w)
      PROVE  ReasonsKept'
  BY <1>0, <1>9 DEF Crash, TypeOK, Idle, HasRow
<1>10. ASSUME NEW old \in SUBSET Catalogs,
              ReviveParked(old) \/ AbandonParked(old)
      PROVE  ReasonsKept'
  <2>1. cursor' = cursor /\ worker' = worker
    BY <1>10 DEF ReviveParked, AbandonParked
  <2>2. ASSUME NEW d \in Catalogs
        PROVE  queue'[d] = queue[d] \/ Parked(d)
    BY <1>10 DEF ReviveParked, AbandonParked
  <2> QED BY <2>1, <2>2 DEF Parked, HasRow
<1>11. ASSUME NEW c \in Catalogs, BackoffElapses(c)
      PROVE  ReasonsKept'
  <2>1. /\ queue'[c].status = queue[c].status
        /\ \A d \in Catalogs : d # c => queue'[d] = queue[d]
        /\ HasRow(c) /\ cursor' = cursor /\ worker' = worker
    BY <1>0, <1>11 DEF BackoffElapses, TypeOK, HasRow, Row
  <2> QED BY <2>1 DEF HasRow
<1>12. CASE UNCHANGED <<queue, cursor, worker>>
  BY <1>12 DEF HasRow
<1> QED
  BY <1>2, <1>3, <1>4, <1>5, <1>6, <1>7, <1>8, <1>9, <1>10, <1>11, <1>12
     DEF Next, PollNext, SyncNext, Settle, Claim, Sweep, vars, Publish,
         PollFetch, UpsertIndexCursor, LeaseExpires

\* Only a failure record or a settle writes the cursor.
LEMMA CursorWriters ==
    ASSUME [Next]_vars
    PROVE  \/ UNCHANGED cursor
           \/ \E w \in Workers : RecordFailure(w) \/ Complete(w)
BY DEF Next, PollNext, SyncNext, Settle, Claim, Sweep, vars, Publish,
       PollFetch, PollDecide, UpsertIndexCursor, ClaimNext, Resolve,
       Reschedule, Park, Crash, ReviveParked, AbandonParked,
       LeaseExpires, BackoffElapses

\* PromptInv is an invariant when no sync outlives its lease.
LEMMA PromptInvariant ==
    ASSUME SlowWorkers = FALSE
    PROVE  Spec => []PromptInv
<1>1. Init => PromptInv
  <2> SUFFICES ASSUME Init
               PROVE  PromptInv
    OBVIOUS
  <2>1. QueueInv
    BY QueueInit
  <2>2. /\ \A w \in Workers : worker[w] = Idle
        /\ \A c \in Catalogs :
              ~HasRow(c) /\ cursor[c].version = 0 /\ index[c] = 0
    BY DEF Init, HasRow, NoVersion
  <2>3. PromptLeases /\ VersionsOrdered /\ ReasonsKept
    BY <2>2 DEF PromptLeases, VersionsOrdered, ReasonsKept, Busy, Idle
  <2> QED BY <2>1, <2>3 DEF PromptInv
<1>2. PromptInv /\ [Next]_vars => PromptInv'
  BY QueueStep, LeaseStep, OrderStep, ReasonStep DEF PromptInv
<1> QED BY <1>1, <1>2, PTL DEF Spec

\* When no sync outlives its lease, a settled version appears together with
\* the removal of the row: Complete's two statements match one claim.
THEOREM PromptSettles ==
    ASSUME SlowWorkers = FALSE
    PROVE  Spec => SettleRemovesRow
<1>1. ASSUME PromptInv, [Next]_vars, NEW c \in Catalogs,
             cursor'[c].version # cursor[c].version
      PROVE  queue'[c] = NoRow
  <2>0. TypeOK
    BY <1>1 DEF PromptInv, QueueInv
  <2>1. ASSUME NEW w \in Workers, RecordFailure(w)
        PROVE  FALSE
    <3>1. worker[w].catalog \in Catalogs
      BY <2>0, <2>1 DEF RecordFailure, TypeOK, Idle, Working
    <3>2. cursor'[c].version = cursor[c].version
      BY <2>0, <2>1, <3>1 DEF RecordFailure, TypeOK
    <3> QED BY <1>1, <3>2
  <2>2. \E w \in Workers : Complete(w)
    BY <1>1, <2>1, CursorWriters
  <2>3. PICK w \in Workers : Complete(w)
    BY <2>2
  <2>4. Busy(w)
    BY <2>3 DEF Complete, Busy, Idle
  <2>5. Holds(w)
    BY <1>1, <2>4, SoleHolder DEF PromptInv
  <2> QED BY <1>1, <2>0, <2>3, <2>5 DEF Complete, TypeOK
<1>2. PromptInv /\ [Next]_vars =>
        [\A c \in Catalogs :
           cursor'[c].version # cursor[c].version => queue'[c] = NoRow]_vars
  BY <1>1
<1> QED BY <1>2, PromptInvariant, PTL DEF Spec, SettleRemovesRow

\* When no sync outlives its lease, the settled version never goes back.
THEOREM PromptCursors ==
    ASSUME SlowWorkers = FALSE
    PROVE  Spec => CursorNeverRegresses
<1>1. ASSUME PromptInv, [Next]_vars, NEW c \in Catalogs
      PROVE  cursor[c].version <= cursor'[c].version
  <2>0. TypeOK /\ TypeOK' /\ VersionsOrdered
    BY <1>1, TypeStep DEF PromptInv, QueueInv
  <2>1. cursor[c].version \in Nat
    BY <2>0 DEF TypeOK, Versions
  <2>2. ASSUME NEW w \in Workers, RecordFailure(w)
        PROVE  cursor[c].version <= cursor'[c].version
    <3>1. worker[w].catalog \in Catalogs
      BY <2>0, <2>2 DEF RecordFailure, TypeOK, Idle, Working
    <3>2. cursor'[c].version = cursor[c].version
      BY <2>0, <2>2, <3>1 DEF RecordFailure, TypeOK
    <3> QED BY <2>1, <3>2
  <2>3. ASSUME NEW w \in Workers, Complete(w)
        PROVE  cursor[c].version <= cursor'[c].version
    <3>1. CASE c = worker[w].catalog
      BY <2>0, <2>3, <3>1 DEF Complete, TypeOK, VersionsOrdered
    <3>2. CASE c # worker[w].catalog
      <4>1. cursor'[c] = cursor[c]
        BY <2>0, <2>3, <3>2 DEF Complete, TypeOK
      <4> QED BY <2>1, <4>1
    <3> QED BY <3>1, <3>2
  <2>4. CASE cursor' = cursor
    BY <2>1, <2>4
  <2> QED
    BY <1>1, <2>2, <2>3, <2>4, CursorWriters
<1>2. PromptInv /\ [Next]_vars =>
        [\A c \in Catalogs : cursor[c].version <= cursor'[c].version]_vars
  BY <1>1
<1> QED BY <1>2, PromptInvariant, PTL DEF Spec, CursorNeverRegresses

\* When no sync outlives its lease, an abandoned catalog is always reported
\* with the failure that led there.
THEOREM PromptReasons ==
    ASSUME SlowWorkers = FALSE
    PROVE  Spec => []AbandonedExplained
<1>1. PromptInv => AbandonedExplained
  BY DEF PromptInv, ReasonsKept, AbandonedExplained, ListAbandoned
<1> QED BY <1>1, PromptInvariant, PTL
=============================================================================
