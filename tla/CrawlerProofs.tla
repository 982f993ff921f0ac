--------------------------- MODULE CrawlerProofs ---------------------------
(***************************************************************************)
(* Machine-checked proofs about the crawler: its life inside the adapter    *)
(* process (CrawlerLifecycle), for any set of after-sync jobs and any       *)
(* number of concurrent trigger requests, and the after-sync job that       *)
(* crawls other networks (NetworkCrawl), for any registry, any answers of   *)
(* the networks, any sizes and any number of ticks.                         *)
(*                                                                         *)
(* NothingOutlivesStop is not inductive: it does not say that the lock is   *)
(* held exactly while Stop waits, that the context has ended by then, or    *)
(* that Start is over before the shutdown begins.  LifecycleInv adds that.  *)
(* CrawlInv says of a pass under way what it holds in hand, and of the      *)
(* copies in our discovery when they were made at the latest; EndOf and Cut *)
(* count the batches left of a push, and WalkInv follows a walk whose reads *)
(* all succeeded, page by page and batch by batch, without a loss.          *)
(***************************************************************************)
EXTENDS CrawlerLifecycle, NetworkCrawl, SequenceTheorems, WellFoundedInduction, TLAPS

-----------------------------------------------------------------------------
(* The scheduler's life.                                                   *)

\* Stop holds the lock exactly while it waits, under a cancelled context.
LockHeldByStop ==
    /\ mu <=> closing = "draining"
    /\ closing \in {"draining", "stopped"} => cancelled

\* The shutdown goroutine is only started once Start has launched its loops.
StartedFirst == closing # "waiting" => main = "serving"

LifecycleInv ==
    /\ TypeOK
    /\ LockHeldByStop
    /\ StartedFirst
    /\ NothingOutlivesStop

\* Every step of the system but StartLoop, TickerFires, LaunchJob and RunOnce
\* leaves the WaitGroup where it is or lets go of it; those four need
\* something that a quiet scheduler under a held or finished Stop lacks.
LEMMA QuietStays ==
    ASSUME LifecycleInv, Next, Quiet, closing \in {"draining", "stopped"}
    PROVE  Quiet'
<1> USE DEF Quiet, LoopLive, CtxEnded, Loops
<1>1. main = "serving" /\ cancelled
  BY DEF LifecycleInv, StartedFirst, LockHeldByStop
<1>2. /\ loop \in [Loops -> {"none", "tick", "launch", "wait", "done"}]
      /\ job \in [Jobs -> {"none", "running", "releasing"}]
      /\ request \in [Requests -> {"none", "handling", "running"}]
  BY DEF LifecycleInv, TypeOK
<1>3. CASE StartSetsContext \/ StartLoop
  BY <1>1, <1>3 DEF StartSetsContext, StartLoop
<1>4. ASSUME NEW l \in Loops, LoopStep(l)
      PROVE  Quiet'
  BY <1>4 DEF LoopStep, TickEnds, TickerFires, LoopExits
<1>5. ASSUME NEW j \in Jobs, LaunchJob(j) \/ JobStep(j)
      PROVE  Quiet'
  BY <1>5 DEF LaunchJob, JobStep, JobSucceeds, JobFails, JobReleases
<1>6. CASE LaunchEnds
  BY <1>6 DEF LaunchEnds
<1>7. ASSUME NEW q \in Requests, Accept(q) \/ RequestStep(q)
      PROVE  Quiet'
  <2>1. CASE Accept(q)
    BY <1>2, <2>1 DEF Accept
  <2>2. CASE RunOnce(q)
    BY <1>1, <1>2, <2>2 DEF RunOnce
  <2>3. CASE RunOnceEnds(q)
    BY <1>2, <2>3 DEF RunOnceEnds
  <2> QED BY <1>7, <2>1, <2>2, <2>3 DEF RequestStep
<1>8. CASE Signal
  BY <1>8 DEF Signal
<1>9. CASE Shutdown
  BY <1>9 DEF Shutdown, HTTPShutdown, HTTPShutdownReturns, CloseManager,
              StopCancels, StopReturns
<1> QED BY <1>3, <1>4, <1>5, <1>6, <1>7, <1>8, <1>9 DEF Next

\* Every step keeps the variables in their types.
LEMMA TypeStep ==
    ASSUME TypeOK, [Next]_vars
    PROVE  TypeOK'
<1> USE ConstantsAssumption DEF TypeOK, Loops
<1>1. CASE StartSetsContext \/ StartLoop
  BY <1>1 DEF StartSetsContext, StartLoop, FirstLoop, AfterLoop
<1>2. ASSUME NEW l \in Loops, LoopStep(l)
      PROVE  TypeOK'
  BY <1>2 DEF LoopStep, TickEnds, TickerFires, LoopExits
<1>3. ASSUME NEW j \in Jobs, LaunchJob(j) \/ JobStep(j)
      PROVE  TypeOK'
  BY <1>3 DEF LaunchJob, JobStep, JobSucceeds, JobFails, JobReleases
<1>4. CASE LaunchEnds
  BY <1>4 DEF LaunchEnds
<1>5. ASSUME NEW q \in Requests, Accept(q) \/ RequestStep(q)
      PROVE  TypeOK'
  BY <1>5 DEF Accept, RequestStep, RunOnce, RunOnceEnds
<1>6. CASE Signal
  BY <1>6 DEF Signal
<1>7. CASE Shutdown
  BY <1>7 DEF Shutdown, HTTPShutdown, HTTPShutdownReturns, CloseManager,
              StopCancels, StopReturns
<1>8. CASE UNCHANGED vars
  BY <1>8 DEF vars
<1> QED BY <1>1, <1>2, <1>3, <1>4, <1>5, <1>6, <1>7, <1>8 DEF Next

\* Only Stop takes and releases the lock, after cancelling, and only a process
\* that has started shuts down.
LEMMA LockStep ==
    ASSUME LifecycleInv, [Next]_vars
    PROVE  LockHeldByStop' /\ StartedFirst'
<1> USE DEF LifecycleInv, TypeOK, LockHeldByStop, StartedFirst, Loops
<1>1. CASE StartSetsContext \/ StartLoop
  BY <1>1 DEF StartSetsContext, StartLoop
<1>2. ASSUME NEW l \in Loops, LoopStep(l)
      PROVE  LockHeldByStop' /\ StartedFirst'
  BY <1>2 DEF LoopStep, TickEnds, TickerFires, LoopExits
<1>3. ASSUME NEW j \in Jobs, LaunchJob(j) \/ JobStep(j)
      PROVE  LockHeldByStop' /\ StartedFirst'
  BY <1>3 DEF LaunchJob, JobStep, JobSucceeds, JobFails, JobReleases
<1>4. CASE LaunchEnds
  BY <1>4 DEF LaunchEnds
<1>5. ASSUME NEW q \in Requests, Accept(q) \/ RequestStep(q)
      PROVE  LockHeldByStop' /\ StartedFirst'
  BY <1>5 DEF Accept, RequestStep, RunOnce, RunOnceEnds
<1>6. CASE Signal
  BY <1>6 DEF Signal
<1>7. CASE Shutdown
  BY <1>7 DEF Shutdown, HTTPShutdown, HTTPShutdownReturns, CloseManager,
              StopCancels, StopReturns
<1>8. CASE UNCHANGED vars
  BY <1>8 DEF vars
<1> QED BY <1>1, <1>2, <1>3, <1>4, <1>5, <1>6, <1>7, <1>8 DEF Next

\* Only StopReturns enters "stopped", and it waits for a quiet scheduler.
LEMMA StoppedStep ==
    ASSUME LifecycleInv, [Next]_vars
    PROVE  NothingOutlivesStop'
<1>1. CASE closing = "stopped" /\ Next
  <2>1. Quiet
    BY <1>1 DEF LifecycleInv, NothingOutlivesStop
  <2> QED BY <1>1, <2>1, QuietStays DEF NothingOutlivesStop
<1>2. CASE closing # "stopped" /\ Next
  <2> SUFFICES ASSUME closing' = "stopped"
               PROVE  Quiet'
    BY DEF NothingOutlivesStop
  <2>1. StopReturns
    BY <1>2 DEF Next, StartSetsContext, StartLoop, LoopStep, TickEnds,
                TickerFires, LoopExits, LaunchJob, JobStep, JobSucceeds,
                JobFails, JobReleases, LaunchEnds, Accept, RequestStep,
                RunOnce, RunOnceEnds, Signal, Shutdown, HTTPShutdown,
                HTTPShutdownReturns, CloseManager, StopCancels
  <2> QED BY <2>1 DEF StopReturns, Quiet, LoopLive
<1>3. CASE UNCHANGED vars
  BY <1>3 DEF vars, LifecycleInv, NothingOutlivesStop, Quiet, LoopLive
<1> QED BY <1>1, <1>2, <1>3

\* The strengthened invariant holds in every reachable state.
THEOREM LifecycleInvariant == Spec => []LifecycleInv
<1>1. Init => LifecycleInv
  BY ConstantsAssumption
     DEF Init, LifecycleInv, TypeOK, LockHeldByStop, StartedFirst,
         NothingOutlivesStop, Loops
<1>2. LifecycleInv /\ [Next]_vars => LifecycleInv'
  BY TypeStep, LockStep, StoppedStep DEF LifecycleInv
<1> QED BY <1>1, <1>2, PTL DEF Spec

\* The scheduler's context, loops, jobs and requests are always in one of the
\* states Start, Stop, RunOnce and the loops of scheduler.go put them in.
THEOREM TypeCorrect == Spec => []TypeOK
<1>1. LifecycleInv => TypeOK
  BY DEF LifecycleInv
<1> QED BY <1>1, LifecycleInvariant, PTL

\* Scheduler.Stop: once it has returned, no loop, after-sync job or on-demand
\* run of the crawler is going on, and none can be started any more.
THEOREM StopDrains == Spec => []NothingOutlivesStop
<1>1. LifecycleInv => NothingOutlivesStop
  BY DEF LifecycleInv
<1> QED BY <1>1, LifecycleInvariant, PTL

\* Scheduler.Stop and startAfterSync: a WaitGroup that Stop waits on and that
\* has come down to zero is never added to.
THEOREM WaitIsNeverRaced == Spec => AddNeverRacesWait
<1>1. LifecycleInv /\ [Next]_vars =>
        [closing = "draining" /\ Quiet => Quiet']_vars
  BY QuietStays DEF AddNeverRacesWait
<1> QED BY <1>1, LifecycleInvariant, PTL DEF Spec, AddNeverRacesWait

-----------------------------------------------------------------------------
(* Recursion and induction over a range of numbers.                        *)

\* A set with 0 and, up to N, every successor has all the numbers up to N.
LEMMA UpTo ==
    ASSUME NEW N \in Nat, NEW S, 0 \in S, \A n \in 1 .. N : n - 1 \in S => n \in S
    PROVE  \A n \in 0 .. N : n \in S
<1> DEFINE T == (0 .. N) \ S
<1> SUFFICES ASSUME T # {} PROVE FALSE
  OBVIOUS
<1>1. PICK m \in T : \A y \in T : <<y, m>> \notin OpToRel(<, Nat)
  <2>1. T \subseteq Nat
    OBVIOUS
  <2> HIDE DEF T
  <2> QED BY <2>1, NatLessThanWellFounded, WFMin, Zenon
<1>2. m \in 1 .. N /\ m - 1 \notin T
  <2>1. m \in 1 .. N
    OBVIOUS
  <2>2. ASSUME m - 1 \in T PROVE FALSE
    <3>1. m - 1 \in Nat /\ m \in Nat /\ m - 1 < m
      BY <2>1
    <3>2. <<m - 1, m>> \in OpToRel(<, Nat)
      BY <3>1, Zenon DEF OpToRel
    <3> QED BY <1>1, <2>2, <3>2
  <2> QED BY <2>1, <2>2
<1> QED BY <1>2

\* The steps from each number up to N to the next, and a function that takes
\* them from first.
Steppers(N, A) == [1 .. N -> [A -> A]]
Stepped(N, A, first, G, f) ==
    /\ f \in [0 .. N -> A] /\ f[0] = first
    /\ \A n \in 1 .. N : f[n] = G[n][f[n - 1]]

\* A function defined by a step from each number to the next exists.
LEMMA Recursion ==
    ASSUME NEW N \in Nat, NEW A, NEW first \in A, NEW G \in Steppers(N, A)
    PROVE  \E f : Stepped(N, A, first, G, f)
<1> USE DEF Steppers, Stepped
<1> DEFINE Good(m, f) == f[0] = first /\ \A n \in 1 .. m : f[n] = G[n][f[n - 1]]
           S == {m \in 0 .. N : \E f \in [0 .. N -> A] : Good(m, f)}
<1>1. 0 \in S
  <2> DEFINE z == [n \in 0 .. N |-> first]
  <2>1. z \in [0 .. N -> A] /\ z[0] = first
    OBVIOUS
  <2> HIDE DEF z
  <2>2. Good(0, z)
    BY <2>1
  <2> QED BY <2>1, <2>2
<1>2. ASSUME NEW m \in 1 .. N, m - 1 \in S PROVE m \in S
  <2>1. PICK f \in [0 .. N -> A] : Good(m - 1, f)
    BY <1>2
  <2> DEFINE g == [n \in 0 .. N |-> IF n = m THEN G[m][f[m - 1]] ELSE f[n]]
  <2>2. G[m][f[m - 1]] \in A
    OBVIOUS
  <2>3. g \in [0 .. N -> A]
    BY <2>2
  <2>4. /\ g[0] = first /\ g[m] = G[m][f[m - 1]]
        /\ \A n \in 0 .. (m - 1) : g[n] = f[n]
    BY <2>1
  <2> HIDE DEF g
  <2>5. ASSUME NEW n \in 1 .. m PROVE g[n] = G[n][g[n - 1]]
    <3>1. CASE n = m
      BY <2>4, <3>1
    <3>2. CASE n # m
      BY <2>1, <2>4, <3>2
    <3> QED BY <3>1, <3>2
  <2> QED BY <2>3, <2>4, <2>5
<1> HIDE DEF S
<1>3. \A n \in 0 .. N : n \in S
  BY <1>1, <1>2, UpTo
<1>4. N \in S
  BY <1>3
<1> QED BY <1>4 DEF S

-----------------------------------------------------------------------------
(* What crawlableNetworks and BatchCatalog compute.                        *)

\* The networks we agreed to read from.
Sources == {n \in ToSet(Registry) : n.id # OurNetworkId /\ n.source}

\* crawlableNetworks keeps only those.
LEMMA CrawlableSources == Crawlable \in Seq(Sources)
<1> DEFINE N == Len(Registry)
           A == Seq(Sources)
           Takes(i) == Registry[i].id # OurNetworkId /\ Registry[i].source
           G == [i \in 1 .. N |-> [s \in A |-> IF Takes(i) THEN Append(s, Registry[i]) ELSE s]]
           Def(f) == [i \in 0 .. N |-> IF i = 0 THEN <<>>
                                       ELSE IF Takes(i) THEN Append(f[i - 1], Registry[i]) ELSE f[i - 1]]
<1>0. N \in Nat /\ DOMAIN Registry = 1 .. N
  BY RegistryAssumption
<1>1. \A i \in 1 .. N : Takes(i) => Registry[i] \in Sources
  BY <1>0 DEF Sources, ToSet
<1>2. G \in [1 .. N -> [A -> A]]
  BY <1>1
<1>3. <<>> \in A
  OBVIOUS
<1> HIDE DEF N, A, G, Def, Takes
<1>4. PICK f : Stepped(N, A, <<>>, G, f)
  <2>1. N \in Nat
    BY <1>0
  <2>2. G \in Steppers(N, A)
    BY <1>2 DEF Steppers
  <2> QED BY <1>3, <2>1, <2>2, Recursion
<1>4a. f \in [0 .. N -> A] /\ f[0] = <<>> /\ \A i \in 1 .. N : f[i] = G[i][f[i - 1]]
  BY <1>4, Zenon DEF Stepped
<1> USE DEF Def, Takes
<1>5. ASSUME NEW g
      PROVE  /\ Def(g) = [i \in 0 .. N |-> Def(g)[i]] /\ Def(g)[0] = <<>>
             /\ \A i \in 1 .. N :
                   Def(g)[i] = IF Takes(i) THEN Append(g[i - 1], Registry[i]) ELSE g[i - 1]
  BY <1>0
<1>6. ASSUME NEW i \in 1 .. N, NEW s \in A
      PROVE  G[i][s] = IF Takes(i) THEN Append(s, Registry[i]) ELSE s
  BY DEF G
<1> HIDE DEF Def, Takes
<1>7. f = Def(f)
  <2>1. ASSUME NEW i \in 0 .. N PROVE f[i] = Def(f)[i]
    <3>1. CASE i = 0
      BY <1>4a, <1>5, <3>1
    <3>2. CASE i \in 1 .. N
      <4>1. f[i - 1] \in A
        BY <1>0, <1>4a, <3>2
      <4> QED BY <1>4a, <1>5, <1>6, <3>2, <4>1
    <3> QED BY <1>0, <3>1, <3>2
  <2>2. f = [i \in 0 .. N |-> f[i]]
    BY <1>4a
  <2> QED BY <1>5, <2>1, <2>2
<1> DEFINE g == CHOOSE h : h = Def(h)
<1>8. g = Def(g)
  BY <1>7, Zenon
<1>9. Crawlable = g[N]
  BY Zenon DEF Crawlable, N, Def, Takes
<1> HIDE DEF g
<1>10. ASSUME NEW i \in 1 .. N, g[i - 1] \in A PROVE g[i] \in A
  <2>1. g[i] = IF Takes(i) THEN Append(g[i - 1], Registry[i]) ELSE g[i - 1]
    BY <1>5, <1>8
  <2> QED BY <1>1, <1>10, <2>1 DEF A
<1> DEFINE S == {i \in 0 .. N : g[i] \in A}
<1>11. 0 \in S
  BY <1>0, <1>3, <1>5, <1>8
<1>12. \A i \in 1 .. N : i - 1 \in S => i \in S
  BY <1>0, <1>10
<1> HIDE DEF S
<1>13. \A i \in 0 .. N : i \in S
  BY <1>0, <1>11, <1>12, UpTo
<1> QED BY <1>0, <1>9, <1>13 DEF S, A

\* What a resource costs is at least its separator.
LEMMA CostIsPositive == ASSUME NEW rs \in Seq(Resources) PROVE Cost(rs) \in Nat /\ Cost(rs) >= Len(rs)
<1> DEFINE N == Len(rs)
           G == [i \in 1 .. N |-> [n \in Nat |-> n + Size[rs[i]] + 1]]
           Def(f) == [i \in 0 .. N |-> IF i = 0 THEN 0 ELSE f[i - 1] + Size[rs[i]] + 1]
<1>0. N \in Nat /\ \A i \in 1 .. N : Size[rs[i]] \in Nat
  BY NetworkCrawlAssumption
<1>1. G \in Steppers(N, Nat)
  BY <1>0 DEF Steppers
<1>2. ASSUME NEW i \in 1 .. N, NEW n \in Nat PROVE G[i][n] = n + Size[rs[i]] + 1
  OBVIOUS
<1>3. ASSUME NEW g
      PROVE  /\ Def(g) = [i \in 0 .. N |-> Def(g)[i]] /\ Def(g)[0] = 0
             /\ \A i \in 1 .. N : Def(g)[i] = g[i - 1] + Size[rs[i]] + 1
  BY <1>0
<1> HIDE DEF N, G, Def
<1>4. PICK f : Stepped(N, Nat, 0, G, f)
  <2>1. N \in Nat /\ 0 \in Nat
    BY <1>0
  <2> QED BY <1>1, <2>1, Recursion
<1>5. f \in [0 .. N -> Nat] /\ f[0] = 0 /\ \A i \in 1 .. N : f[i] = G[i][f[i - 1]]
  BY <1>4, Zenon DEF Stepped
<1>6. f = Def(f)
  <2>1. ASSUME NEW i \in 0 .. N PROVE f[i] = Def(f)[i]
    <3>1. CASE i = 0
      BY <1>3, <1>5, <3>1
    <3>2. CASE i \in 1 .. N
      <4>1. f[i - 1] \in Nat
        BY <1>0, <1>5, <3>2
      <4> QED BY <1>2, <1>3, <1>5, <3>2, <4>1
    <3> QED BY <1>0, <3>1, <3>2
  <2>2. f = [i \in 0 .. N |-> f[i]]
    BY <1>5
  <2> QED BY <1>3, <2>1, <2>2
<1> DEFINE g == CHOOSE h : h = Def(h)
<1>7. g = Def(g)
  BY <1>6, Zenon
<1>8. Cost(rs) = g[N]
  BY Zenon DEF Cost, N, Def
<1> HIDE DEF g
<1> DEFINE S == {i \in 0 .. N : g[i] \in Nat /\ g[i] >= i}
<1>9. 0 \in S
  BY <1>0, <1>3, <1>7
<1>10. ASSUME NEW i \in 1 .. N, i - 1 \in S PROVE i \in S
  <2>1. g[i] = g[i - 1] + Size[rs[i]] + 1
    BY <1>3, <1>7
  <2> QED BY <1>0, <1>10, <2>1
<1> HIDE DEF S
<1>11. \A i \in 0 .. N : i \in S
  BY <1>0, <1>9, <1>10, UpTo
<1>12. N \in 0 .. N
  BY <1>0
<1>13. g[N] \in Nat /\ g[N] >= N
  BY <1>11, <1>12 DEF S
<1> QED BY <1>8, <1>13 DEF N

\* FlattenSeq goes through the batches from the first to the last.
Flattens(g, bs, R) ==
    /\ FlattenSeq(bs) = g[Len(bs)] /\ g[1] = bs[1]
    /\ \A i \in 2 .. Len(bs) : g[i] = g[i - 1] \o bs[i]
    /\ \A i \in 1 .. Len(bs) : g[i] \in Seq(R)

LEMMA FlattenSteps ==
    ASSUME NEW R, NEW bs \in Seq(Seq(R)), bs # <<>>
    PROVE  \E g : Flattens(g, bs, R)
<1> DEFINE Cat(s, i) == s \o bs[i]
           N == Len(bs)
           A == Seq(R)
           G == [i \in 1 .. N |-> [s \in A |-> IF i = 1 THEN bs[i] ELSE Cat(s, i)]]
           Def(f) == [i \in 1 .. N |-> IF i = 1 THEN bs[i] ELSE Cat(f[i - 1], i)]
           none == << >>
<1>0. N \in Nat /\ N > 0 /\ \A i \in 1 .. N : bs[i] \in A
  OBVIOUS
<1>1. none \in A
  OBVIOUS
<1>2. ASSUME NEW i \in 1 .. N, NEW s \in A PROVE Cat(s, i) \in A
  BY <1>0
<1> HIDE DEF A, none, Cat
<1>3. G \in Steppers(N, A)
  BY <1>0, <1>2 DEF Steppers
<1>4. ASSUME NEW i \in 1 .. N, NEW s \in A
      PROVE  G[i][s] = IF i = 1 THEN bs[i] ELSE Cat(s, i)
  OBVIOUS
<1>5. ASSUME NEW g
      PROVE  /\ Def(g) = [i \in 1 .. N |-> Def(g)[i]]
             /\ \A i \in 1 .. N : Def(g)[i] = IF i = 1 THEN bs[i] ELSE Cat(g[i - 1], i)
  BY <1>0
<1> HIDE DEF N, G, Def
<1>6. PICK f : Stepped(N, A, none, G, f)
  <2>1. N \in Nat
    BY <1>0
  <2> QED BY <1>1, <1>3, <2>1, Recursion
<1>7. f \in [0 .. N -> A] /\ \A i \in 1 .. N : f[i] = G[i][f[i - 1]]
  BY <1>6, Zenon DEF Stepped
<1> DEFINE k == [i \in 1 .. N |-> f[i]]
<1>8. k = Def(k)
  <2>1. ASSUME NEW i \in 1 .. N PROVE k[i] = Def(k)[i]
    <3>1. f[i - 1] \in A /\ k[i] = f[i]
      BY <1>0, <1>7
    <3>2. k[i] = IF i = 1 THEN bs[i] ELSE Cat(f[i - 1], i)
      BY <1>4, <1>7, <3>1
    <3>3. i # 1 => f[i - 1] = k[i - 1]
      BY <1>0
    <3> HIDE DEF k
    <3>4. Def(k)[i] = IF i = 1 THEN bs[i] ELSE Cat(k[i - 1], i)
      BY <1>5
    <3>5. CASE i = 1
      BY <3>2, <3>4, <3>5
    <3>6. CASE i # 1
      BY <3>2, <3>3, <3>4, <3>6
    <3> QED BY <3>5, <3>6
  <2>2. k = [i \in 1 .. N |-> k[i]]
    OBVIOUS
  <2> HIDE DEF k
  <2> QED BY <1>5, <2>1, <2>2
<1> HIDE DEF k
<1> DEFINE g == CHOOSE h : h = Def(h)
<1>9. g = Def(g)
  BY <1>8, Zenon
<1>10. FlattenSeq(bs) = g[N]
  <2>1. Len(bs) # 0
    BY <1>0 DEF N
  <2> QED BY <2>1, Zenon DEF FlattenSeq, N, Def, Cat
<1> HIDE DEF g
<1>11. \A i \in 1 .. N : g[i] = IF i = 1 THEN bs[i] ELSE Cat(g[i - 1], i)
  BY <1>5, <1>9
<1>12. g[1] = bs[1] /\ \A i \in 2 .. N : g[i] = Cat(g[i - 1], i)
  BY <1>0, <1>11
<1> DEFINE S == {i \in 0 .. N : i = 0 \/ g[i] \in A}
<1>13. 0 \in S
  BY <1>0
<1>14. ASSUME NEW i \in 1 .. N, i - 1 \in S PROVE i \in S
  <2>1. CASE i = 1
    BY <1>0, <1>12, <2>1
  <2>2. CASE i \in 2 .. N
    <3>1. g[i - 1] \in A
      BY <1>0, <1>14, <2>2
    <3> QED BY <1>2, <1>12, <2>2, <3>1
  <2> QED BY <1>0, <2>1, <2>2
<1> HIDE DEF S
<1>15. \A i \in 0 .. N : i \in S
  BY <1>0, <1>13, <1>14, UpTo
<1>16. \A i \in 1 .. N : g[i] \in A
  BY <1>0, <1>15 DEF S
<1> QED BY <1>10, <1>12, <1>16, Zenon DEF N, A, Cat, Flattens

\* FlattenSeq takes batches to a sequence of resources.
LEMMA FlattenType ==
    ASSUME NEW R, NEW bs \in Seq(Seq(R)) PROVE FlattenSeq(bs) \in Seq(R)
<1>1. CASE bs = <<>>
  <2>1. FlattenSeq(bs) = bs
    <3>1. Len(bs) = 0
      BY <1>1
    <3> QED BY <3>1, Zenon DEF FlattenSeq
  <2>2. << >> \in Seq(R)
    OBVIOUS
  <2> QED BY <1>1, <2>1, <2>2, Zenon
<1>2. CASE bs # <<>>
  <2>0. PICK g : Flattens(g, bs, R)
    BY <1>2, FlattenSteps
  <2>1. FlattenSeq(bs) = g[Len(bs)] /\ \A i \in 1 .. Len(bs) : g[i] \in Seq(R)
    BY <2>0, Zenon DEF Flattens
  <2>2. Len(bs) \in 1 .. Len(bs)
    BY <1>2
  <2> QED BY <2>1, <2>2
<1> QED BY <1>1, <1>2

\* A batch at the end comes after the others.
LEMMA FlattenAppend ==
    ASSUME NEW R, NEW bs \in Seq(Seq(R)), NEW s \in Seq(R)
    PROVE  FlattenSeq(Append(bs, s)) = FlattenSeq(bs) \o s
<1> DEFINE cs == Append(bs, s)
           n == Len(bs)
<1>1. cs \in Seq(Seq(R)) /\ cs # <<>> /\ Len(cs) = n + 1 /\ n \in Nat
  <2> DEFINE T == Seq(R)
  <2>1. s \in T /\ bs \in Seq(T)
    OBVIOUS
  <2> HIDE DEF T
  <2>2. cs \in Seq(T) /\ Len(cs) = n + 1 /\ n \in Nat
    BY <2>1
  <2> HIDE DEF cs
  <2> QED BY <2>2 DEF T
<1>2. cs[n + 1] = s /\ \A i \in 1 .. n : cs[i] = bs[i]
  OBVIOUS
<1> HIDE DEF cs
<1>a. PICK g : Flattens(g, cs, R)
  BY <1>1, FlattenSteps
<1>3. /\ FlattenSeq(cs) = g[n + 1] /\ g[1] = cs[1]
      /\ \A i \in 2 .. (n + 1) : g[i] = g[i - 1] \o cs[i]
  BY <1>1, <1>a, Zenon DEF Flattens
<1>4. CASE bs = <<>>
  <2>1. FlattenSeq(bs) = <<>> /\ n = 0
    <3>1. n = 0
      BY <1>4
    <3> QED BY <1>4, <3>1, Zenon DEF FlattenSeq
  <2>2. FlattenSeq(cs) = s
    BY <1>2, <1>3, <2>1
  <2>3. <<>> \o s = s
    OBVIOUS
  <2> QED BY <2>1, <2>2, <2>3 DEF cs
<1>5. CASE bs # <<>>
  <2>a. PICK h : Flattens(h, bs, R)
    BY <1>5, FlattenSteps
  <2>1. /\ FlattenSeq(bs) = h[n] /\ h[1] = bs[1]
        /\ \A i \in 2 .. n : h[i] = h[i - 1] \o bs[i]
    BY <2>a, Zenon DEF Flattens
  <2>2. n > 0
    BY <1>5
  <2> DEFINE S == {i \in 0 .. n : i = 0 \/ g[i] = h[i]}
  <2>3. 0 \in S
    BY <1>1
  <2>4. ASSUME NEW i \in 1 .. n, i - 1 \in S PROVE i \in S
    <3>1. CASE i = 1
      BY <1>1, <1>2, <1>3, <2>1, <2>2, <3>1
    <3>2. CASE i \in 2 .. n
      <4>1. g[i - 1] = h[i - 1]
        BY <1>1, <2>4, <3>2
      <4>2. g[i] = g[i - 1] \o cs[i] /\ h[i] = h[i - 1] \o bs[i] /\ cs[i] = bs[i]
        <5>1. i \in 2 .. (n + 1) /\ i \in 1 .. n
          BY <1>1, <3>2
        <5> QED BY <1>2, <1>3, <2>1, <3>2, <5>1, Zenon
      <4>3. g[i] = h[i]
        BY <4>1, <4>2, Zenon
      <4> QED BY <1>1, <3>2, <4>3
    <3> QED BY <1>1, <3>1, <3>2
  <2> HIDE DEF S
  <2>5. \A i \in 0 .. n : i \in S
    BY <1>1, <2>3, <2>4, UpTo
  <2>6. g[n] = h[n]
    BY <1>1, <2>2, <2>5 DEF S
  <2>7. n + 1 \in 2 .. (n + 1) /\ (n + 1) - 1 = n
    BY <1>1, <2>2
  <2>8. g[n + 1] = g[n] \o cs[n + 1]
    BY <1>3, <2>7, Zenon
  <2> QED BY <1>2, <1>3, <2>1, <2>6, <2>8, Zenon DEF cs
<1> QED BY <1>4, <1>5

\* The first batch comes before the others.
LEMMA FlattenHead ==
    ASSUME NEW R, NEW bs \in Seq(Seq(R)), bs # <<>>
    PROVE  FlattenSeq(bs) = Head(bs) \o FlattenSeq(Tail(bs))
<1> DEFINE n == Len(bs)
           F(i) == FlattenSeq(SubSeq(bs, 1, i))
           B(i) == FlattenSeq(SubSeq(bs, 2, i))
           S == {i \in 0 .. (n - 1) : F(i + 1) = bs[1] \o B(i + 1)}
<1>0. n \in Nat /\ n > 0 /\ n - 1 \in Nat /\ bs[1] \in Seq(R)
  OBVIOUS
<1>1. ASSUME NEW i \in 2 .. n
      PROVE  /\ SubSeq(bs, 1, i) = Append(SubSeq(bs, 1, i - 1), bs[i])
             /\ SubSeq(bs, 2, i) = Append(SubSeq(bs, 2, i - 1), bs[i])
             /\ SubSeq(bs, 1, i - 1) \in Seq(Seq(R)) /\ SubSeq(bs, 2, i - 1) \in Seq(Seq(R))
             /\ bs[i] \in Seq(R)
  <2>0. i \in Nat /\ i - 1 \in Nat /\ bs[i] \in Seq(R)
    BY <1>0
  <2>1. SubSeq(bs, 1, i - 1) \in Seq(Seq(R)) /\ SubSeq(bs, 2, i - 1) \in Seq(Seq(R))
    BY <1>0, <2>0
  <2>2. SubSeq(bs, 1, i) = Append(SubSeq(bs, 1, i - 1), bs[i])
    BY <1>0, <2>0
  <2>3. SubSeq(bs, 2, i) = Append(SubSeq(bs, 2, i - 1), bs[i])
    BY <1>0, <2>0
  <2> QED BY <2>0, <2>1, <2>2, <2>3
<1>2. 0 \in S
  <2>1. SubSeq(bs, 1, 1) = Append(<<>>, bs[1]) /\ SubSeq(bs, 2, 1) = <<>>
    <3>1. SubSeq(bs, 2, 1) = <<>>
      BY <1>0
    <3>2. SubSeq(bs, 1, 1) = <<bs[1]>>
      <4> DEFINE T == Seq(R)
                 x == SubSeq(bs, 1, 1)
                 y == <<bs[1]>>
      <4>1. bs \in Seq(T) /\ bs[1] \in T
        BY <1>0
      <4> HIDE DEF T
      <4>2. x \in Seq(T) /\ Len(x) = 1 /\ x[1] = bs[1]
        BY <1>0, <4>1
      <4>3. y \in Seq(T) /\ Len(y) = 1 /\ y[1] = bs[1]
        BY <4>1
      <4> HIDE DEF x, y
      <4>4. Len(x) = Len(y) /\ \A i \in 1 .. Len(x) : x[i] = y[i]
        BY <4>2, <4>3
      <4>5. x = y
        BY <4>2, <4>3, <4>4, SeqEqual
      <4> QED BY <4>5 DEF x, y
    <3>3. Append(<<>>, bs[1]) = <<bs[1]>>
      BY <1>0
    <3> QED BY <3>1, <3>2, <3>3, Zenon
  <2>2. <<>> \in Seq(Seq(R))
    OBVIOUS
  <2>3. FlattenSeq(Append(<<>>, bs[1])) = FlattenSeq(<<>>) \o bs[1]
    BY <1>0, <2>2, FlattenAppend
  <2>4. FlattenSeq(<<>>) = <<>>
    <3>1. Len(<<>>) = 0
      OBVIOUS
    <3> QED BY <3>1, Zenon DEF FlattenSeq
  <2>5. <<>> \o bs[1] = bs[1] /\ bs[1] \o <<>> = bs[1]
    BY <1>0
  <2>6. F(1) = bs[1] \o B(1)
    BY <2>1, <2>3, <2>4, <2>5
  <2> HIDE DEF F, B
  <2> QED BY <1>0, <2>6
<1>3. ASSUME NEW i \in 1 .. (n - 1), i - 1 \in S PROVE i \in S
  <2>1. i + 1 \in 2 .. n /\ (i + 1) - 1 = i
    BY <1>0
  <2>2. F(i) = bs[1] \o B(i)
    <3> HIDE DEF F, B
    <3>1. F((i - 1) + 1) = bs[1] \o B((i - 1) + 1)
      BY <1>3
    <3>2. (i - 1) + 1 = i
      BY <1>0
    <3> QED BY <3>1, <3>2
  <2>3. F(i + 1) = F(i) \o bs[i + 1] /\ B(i + 1) = B(i) \o bs[i + 1] /\ bs[i + 1] \in Seq(R)
    <3>1. /\ SubSeq(bs, 1, i + 1) = Append(SubSeq(bs, 1, i), bs[i + 1])
          /\ SubSeq(bs, 2, i + 1) = Append(SubSeq(bs, 2, i), bs[i + 1])
          /\ SubSeq(bs, 1, i) \in Seq(Seq(R)) /\ SubSeq(bs, 2, i) \in Seq(Seq(R))
          /\ bs[i + 1] \in Seq(R)
      BY <1>1, <2>1
    <3>2. FlattenSeq(Append(SubSeq(bs, 1, i), bs[i + 1])) = F(i) \o bs[i + 1]
      BY <3>1, FlattenAppend
    <3>3. FlattenSeq(Append(SubSeq(bs, 2, i), bs[i + 1])) = B(i) \o bs[i + 1]
      BY <3>1, FlattenAppend
    <3> QED BY <3>1, <3>2, <3>3
  <2>4. B(i) \in Seq(R)
    <3>1. SubSeq(bs, 2, i) \in Seq(Seq(R))
      BY <1>1, <2>1
    <3> QED BY <3>1, FlattenType
  <2> HIDE DEF F, B
  <2>5. (bs[1] \o B(i)) \o bs[i + 1] = bs[1] \o (B(i) \o bs[i + 1])
    <3> DEFINE b == B(i)
               c == bs[i + 1]
               a == bs[1]
    <3>1. a \in Seq(R) /\ b \in Seq(R) /\ c \in Seq(R)
      BY <1>0, <2>3, <2>4, Zenon
    <3> HIDE DEF a, b, c
    <3>2. (a \o b) \o c = a \o (b \o c)
      BY <3>1, SMTT(30)
    <3> QED BY <3>2, Zenon DEF a, b, c
  <2>6. F(i + 1) = bs[1] \o B(i + 1)
    BY <2>2, <2>3, <2>5, Zenon
  <2>7. i \in 0 .. (n - 1)
    BY <1>0
  <2> QED BY <2>6, <2>7, Zenon
<1> HIDE DEF S
<1>4. \A i \in 0 .. (n - 1) : i \in S
  BY <1>0, <1>2, <1>3, UpTo
<1>5. n - 1 \in S
  BY <1>0, <1>4
<1>6. F(n) = bs[1] \o B(n)
  <2> HIDE DEF F, B
  <2>1. (n - 1) + 1 = n
    BY <1>0
  <2> QED BY <1>5, <2>1 DEF S
<1>7. SubSeq(bs, 1, n) = bs /\ SubSeq(bs, 2, n) = Tail(bs) /\ Head(bs) = bs[1]
  BY <1>0
<1> QED BY <1>6, <1>7

\* One batch flattens to itself.
LEMMA FlattenOne == ASSUME NEW R, NEW s \in Seq(R) PROVE FlattenSeq(<<s>>) = s
<1> DEFINE T == Seq(R)
           b == <<s>>
<1>1. b \in Seq(T) /\ b # <<>> /\ Head(b) = s /\ Tail(b) = <<>>
  <2> HIDE DEF T
  <2>1. s \in T
    BY DEF T
  <2> QED BY <2>1
<1> HIDE DEF b
<1>2. FlattenSeq(b) = s \o FlattenSeq(<<>>)
  BY <1>1, FlattenHead
<1>3. FlattenSeq(<<>>) = <<>>
  <2>1. Len(<<>>) = 0
    OBVIOUS
  <2> QED BY <2>1, Zenon DEF FlattenSeq
<1>4. s \o <<>> = s
  OBVIOUS
<1> QED BY <1>2, <1>3, <1>4, Zenon DEF b

\* What comes after is a suffix.
LEMMA SuffixOfConcat ==
    ASSUME NEW R, NEW p \in Seq(R), NEW q \in Seq(R) PROVE IsSuffix(q, p \o q)
<1> DEFINE s == p \o q
           a == Reverse(q)
           b == Reverse(s)
           m == Len(p)
           n == Len(q)
<1>1. /\ m \in Nat /\ n \in Nat /\ s \in Seq(R) /\ Len(s) = m + n
      /\ \A i \in 1 .. n : s[m + i] = q[i]
  OBVIOUS
<1> HIDE DEF s
<1>2. a \in Seq(R) /\ Len(a) = n /\ \A i \in 1 .. n : a[i] = q[(n - i) + 1]
  BY <1>1 DEF Reverse
<1>3. b \in Seq(R) /\ Len(b) = m + n /\ \A i \in 1 .. (m + n) : b[i] = s[((m + n) - i) + 1]
  BY <1>1 DEF Reverse
<1>4. \A i \in 1 .. n : a[i] = b[i]
  <2> TAKE i \in 1 .. n
  <2>1. (n - i) + 1 \in 1 .. n /\ ((m + n) - i) + 1 = m + ((n - i) + 1) /\ i \in 1 .. (m + n)
    BY <1>1
  <2> QED BY <1>1, <1>2, <1>3, <2>1
<1> HIDE DEF a, b, m, n
<1> DEFINE x == SubSeq(a, 1, n)
           y == SubSeq(b, 1, n)
<1>5. x \in Seq(R) /\ Len(x) = n /\ \A i \in 1 .. n : x[i] = a[i]
  BY <1>1, <1>2
<1>6. y \in Seq(R) /\ Len(y) = n /\ \A i \in 1 .. n : y[i] = b[i]
  BY <1>1, <1>3
<1> HIDE DEF x, y
<1>7. Len(x) = Len(y) /\ \A i \in 1 .. Len(x) : x[i] = y[i]
  BY <1>4, <1>5, <1>6
<1>8. x = y
  BY <1>5, <1>6, <1>7, SeqEqual
<1>9. Len(a) <= Len(b) /\ SubSeq(a, 1, Len(a)) = SubSeq(b, 1, Len(a))
  BY <1>1, <1>2, <1>3, <1>8 DEF x, y
<1> QED BY <1>9, Zenon DEF IsSuffix, IsPrefix, a, b, s

\* A batch or more, each of resources.
Batches == {bs \in Seq(Seq(Resources)) : bs # <<>>}

\* A resource is in one of the batches.
Within(r, bs) == \E i \in DOMAIN bs : \E j \in DOMAIN bs[i] : r = bs[i][j]

\* Filling the last batch, or opening the next, keeps what there was and takes
\* the resource in.
LEMMA FillTakes ==
    ASSUME NEW bs \in Batches, NEW r \in Resources
    PROVE  /\ Fill(bs, r) \in Batches /\ Within(r, Fill(bs, r))
           /\ \A q : Within(q, bs) => Within(q, Fill(bs, r))
<1> DEFINE R == Resources
           n == Len(bs)
           l == Last(bs)
           m == Len(l)
           e == Append(l, r)
<1>0. bs \in Seq(Seq(R)) /\ n \in Nat \ {0} /\ DOMAIN bs = 1 .. n
  BY DEF Batches
<1>1. l \in Seq(R) /\ l = bs[n] /\ m \in Nat /\ DOMAIN l = 1 .. m
  BY <1>0 DEF Last
<1>2. /\ e \in Seq(R) /\ DOMAIN e = 1 .. (m + 1) /\ e[m + 1] = r
      /\ \A j \in 1 .. m : e[j] = l[j]
  BY <1>1
<1> HIDE DEF R, n, l, m, e
<1>3. CASE Fill(bs, r) = Append(bs, <<r>>)
  <2> DEFINE f == Append(bs, <<r>>)
             o == <<r>>
  <2>1. o \in Seq(R) /\ DOMAIN o = 1 .. 1 /\ o[1] = r
    BY DEF R
  <2>2. /\ f \in Seq(Seq(R)) /\ f # <<>> /\ DOMAIN f = 1 .. (n + 1) /\ f[n + 1] = o
        /\ \A i \in 1 .. n : f[i] = bs[i]
    <3> HIDE DEF o
    <3>1. Append(bs, o) \in Seq(Seq(R)) /\ Len(Append(bs, o)) = n + 1
      BY <1>0, <2>1 DEF n
    <3>2. Append(bs, o)[n + 1] = o /\ \A i \in 1 .. n : Append(bs, o)[i] = bs[i]
      BY <1>0, <2>1 DEF n
    <3> QED BY <1>0, <3>1, <3>2 DEF o
  <2> HIDE DEF f, o
  <2>3. Within(r, f)
    <3>1. n + 1 \in DOMAIN f /\ 1 \in DOMAIN f[n + 1] /\ r = f[n + 1][1]
      BY <1>0, <2>1, <2>2
    <3> QED BY <3>1, Zenon DEF Within
  <2>4. ASSUME NEW q, Within(q, bs) PROVE Within(q, f)
    <3>1. PICK i \in DOMAIN bs : \E j \in DOMAIN bs[i] : q = bs[i][j]
      BY <2>4 DEF Within
    <3>2. i \in DOMAIN f /\ f[i] = bs[i]
      BY <1>0, <2>2
    <3> QED BY <3>1, <3>2 DEF Within
  <2> QED BY <1>3, <2>2, <2>3, <2>4 DEF f, Batches, R
<1>4. CASE Fill(bs, r) = Append(Front(bs), Append(Last(bs), r))
  <2> DEFINE f == Append(Front(bs), e)
  <2>1. /\ Front(bs) \in Seq(Seq(R)) /\ Len(Front(bs)) = n - 1
        /\ \A i \in 1 .. (n - 1) : Front(bs)[i] = bs[i]
    BY <1>0 DEF Front, n
  <2>2. /\ f \in Seq(Seq(R)) /\ f # <<>> /\ DOMAIN f = 1 .. n /\ f[n] = e
        /\ \A i \in 1 .. (n - 1) : f[i] = bs[i]
    <3> DEFINE h == Front(bs)
    <3> HIDE DEF h
    <3>0. h \in Seq(Seq(R)) /\ Len(h) = n - 1 /\ \A i \in 1 .. (n - 1) : h[i] = bs[i]
      BY <2>1 DEF h
    <3>1. Append(h, e) \in Seq(Seq(R)) /\ Len(Append(h, e)) = n
      BY <1>0, <1>2, <3>0
    <3>2. Append(h, e)[n] = e /\ \A i \in 1 .. (n - 1) : Append(h, e)[i] = bs[i]
      BY <1>0, <1>2, <3>0
    <3> QED BY <1>0, <3>1, <3>2 DEF h
  <2> HIDE DEF f
  <2>3. Within(r, f)
    <3>1. n \in DOMAIN f /\ m + 1 \in DOMAIN f[n] /\ r = f[n][m + 1]
      BY <1>0, <1>1, <1>2, <2>2
    <3> QED BY <3>1, Zenon DEF Within
  <2>4. ASSUME NEW q, Within(q, bs) PROVE Within(q, f)
    <3>1. PICK i \in DOMAIN bs : \E j \in DOMAIN bs[i] : q = bs[i][j]
      BY <2>4 DEF Within
    <3>2. CASE i = n
      <4>1. PICK j \in DOMAIN l : q = l[j]
        BY <1>1, <3>1, <3>2
      <4>2. j \in DOMAIN e /\ e[j] = q
        BY <1>1, <1>2, <4>1
      <4>3. n \in DOMAIN f /\ f[n] = e
        BY <1>0, <2>2
      <4> QED BY <4>2, <4>3 DEF Within
    <3>3. CASE i \in 1 .. (n - 1)
      <4>1. i \in DOMAIN f /\ f[i] = bs[i]
        BY <1>0, <2>2, <3>3
      <4> QED BY <3>1, <4>1 DEF Within
    <3> QED BY <1>0, <3>1, <3>2, <3>3
  <2> QED BY <1>4, <2>2, <2>3, <2>4 DEF f, e, l, Batches, R
<1> QED BY <1>3, <1>4, Zenon DEF Fill, Spill


\* Only a document with a single resource may be over the budget by more than
\* the frame; whole says that the first batch is the lead.
Fits(bs, whole) ==
    \A i \in DOMAIN bs :
        Len(bs[i]) > 1 => DocBytes(bs[i], whole /\ i = 1) <= MaxDocBytes + Frame

\* The resource that is filled in comes after the others, and a batch is not
\* filled beyond its budget.
LEMMA FillAppends ==
    ASSUME NEW bs \in Batches, NEW r \in Resources
    PROVE  /\ FlattenSeq(Fill(bs, r)) = FlattenSeq(bs) \o <<r>>
           /\ Fits(bs, TRUE) => Fits(Fill(bs, r), TRUE)
<1> DEFINE T == Seq(Resources)
           n == Len(bs)
           l == Last(bs)
           h == Front(bs)
           e == Append(l, r)
           o == <<r>>
<1>0. bs \in Seq(T) /\ n \in Nat \ {0} /\ DOMAIN bs = 1 .. n
  BY DEF Batches
<1>1. l \in T /\ l = bs[n] /\ o \in T /\ e = l \o o /\ Len(o) = 1 /\ e \in T /\ Len(e) = Len(l) + 1
  BY <1>0 DEF Last
<1>2. h \in Seq(T) /\ Len(h) = n - 1 /\ \A i \in 1 .. (n - 1) : h[i] = bs[i]
  <2> HIDE DEF T
  <2> QED BY <1>0 DEF Front
<1>3. bs = Append(h, l)
  <2>0. l \in T /\ l = bs[n]
    BY <1>1
  <2> HIDE DEF T, l, h, o, e
  <2> DEFINE c == Append(h, l)
  <2>1. c \in Seq(T) /\ Len(c) = n /\ c[n] = l /\ \A i \in 1 .. (n - 1) : c[i] = h[i]
    <3> HIDE DEF n
    <3>1. c \in Seq(T) /\ Len(c) = n
      BY <1>0, <1>2, <2>0
    <3>2. c[n] = l /\ \A i \in 1 .. (n - 1) : c[i] = h[i]
      BY <1>0, <1>2, <2>0
    <3> QED BY <3>1, <3>2
  <2> HIDE DEF c
  <2>2. \A i \in 1 .. n : bs[i] = c[i]
    <3> HIDE DEF n
    <3> TAKE i \in 1 .. n
    <3>1. CASE i = n
      BY <2>0, <2>1, <3>1
    <3>2. CASE i \in 1 .. (n - 1)
      BY <1>2, <2>1, <3>2
    <3> QED BY <1>0, <3>1, <3>2
  <2>3. bs = c
    BY <1>0, <2>1, <2>2, SeqEqual
  <2> QED BY <2>3 DEF c
<1>4. FlattenSeq(bs) = FlattenSeq(h) \o l /\ FlattenSeq(h) \in Seq(Resources)
  <2>1. h \in Seq(Seq(Resources)) /\ l \in Seq(Resources)
    BY <1>1, <1>2, Zenon
  <2> HIDE DEF h, l
  <2>2. FlattenSeq(Append(h, l)) = FlattenSeq(h) \o l
    BY <2>1, FlattenAppend
  <2>3. FlattenSeq(h) \in Seq(Resources)
    BY <2>1, FlattenType
  <2> QED BY <1>3, <2>2, <2>3, Zenon
<1>5. CASE Fill(bs, r) = Append(bs, o)
  <2>1. FlattenSeq(Append(bs, o)) = FlattenSeq(bs) \o o
    <3>1. bs \in Seq(Seq(Resources)) /\ o \in Seq(Resources)
      BY <1>0, <1>1, Zenon
    <3> HIDE DEF o
    <3> QED BY <3>1, FlattenAppend
  <2>2. ASSUME Fits(bs, TRUE) PROVE Fits(Append(bs, o), TRUE)
    <3> HIDE DEF T, o, n
    <3>1. /\ DOMAIN Append(bs, o) = 1 .. (n + 1) /\ Append(bs, o)[n + 1] = o
          /\ \A i \in 1 .. n : Append(bs, o)[i] = bs[i]
      BY <1>0, <1>1 DEF n
    <3> QED BY <1>0, <1>1, <2>2, <3>1 DEF Fits
  <2> QED BY <1>5, <2>1, <2>2, Zenon
<1>6. CASE /\ Fill(bs, r) = Append(h, e)
           /\ l = <<>> \/ ~(Cost(e) > Budget(Len(bs) = 1))
  <2>1. FlattenSeq(Append(h, e)) = FlattenSeq(bs) \o o
    <3>1. h \in Seq(Seq(Resources)) /\ e \in Seq(Resources)
      BY <1>1, <1>2, Zenon
    <3> HIDE DEF h, e
    <3>2. FlattenSeq(Append(h, e)) = FlattenSeq(h) \o e
      BY <3>1, FlattenAppend
    <3> DEFINE f == FlattenSeq(h)
    <3> HIDE DEF f, l, o
    <3>3. f \in Seq(Resources) /\ l \in Seq(Resources) /\ o \in Seq(Resources)
      BY <1>1, <1>4, Zenon DEF f
    <3>4. f \o (l \o o) = (f \o l) \o o
      BY <3>3, SMTT(30)
    <3> QED BY <1>1, <1>4, <3>2, <3>4, Zenon DEF f
  <2>2. Len(e) > 1 => DocBytes(e, n = 1) <= MaxDocBytes + Frame
    <3> SUFFICES ASSUME Len(e) > 1 PROVE DocBytes(e, n = 1) <= MaxDocBytes + Frame
      OBVIOUS
    <3>0. e \in Seq(Resources) /\ Len(e) \in Nat /\ Len(e) = Len(l) + 1
      BY <1>1
    <3> HIDE DEF e
    <3>1. Cost(e) \in Nat /\ Cost(e) >= Len(e)
      BY <3>0, CostIsPositive
    <3>2. Base \in Nat /\ Offers \in Nat /\ MaxDocBytes \in Nat /\ Frame \in Nat
      BY NetworkCrawlAssumption
    <3>3. l # <<>>
      BY <3>0
    <3> DEFINE b == Budget(n = 1)
               w == Base + (IF n = 1 THEN Offers ELSE 0)
    <3>4. w \in Nat /\ b \in Nat /\ (b = 0 \/ w + b <= MaxDocBytes)
      BY <3>2 DEF Budget
    <3>5. ~(Cost(e) > b)
      BY <1>6, <3>3
    <3>6. DocBytes(e, n = 1) = w + Frame + Cost(e)
      BY DEF DocBytes
    <3> HIDE DEF b, w
    <3> QED BY <3>0, <3>1, <3>2, <3>4, <3>5, <3>6
  <2>3. ASSUME Fits(bs, TRUE) PROVE Fits(Append(h, e), TRUE)
    <3> HIDE DEF T, h, e, n
    <3>1. /\ DOMAIN Append(h, e) = 1 .. n /\ Append(h, e)[n] = e
          /\ \A i \in 1 .. (n - 1) : Append(h, e)[i] = bs[i]
      BY <1>0, <1>1, <1>2
    <3> QED BY <1>0, <2>2, <2>3, <3>1 DEF Fits
  <2> QED BY <1>6, <2>1, <2>3, Zenon
<1> QED BY <1>5, <1>6, Zenon DEF Fill, Spill

\* BatchCatalog leaves no resource out, repeats none, keeps their order and goes
\* over its budget by more than the frame for a single resource only.
LEMMA BatchCatalogCovers ==
    ASSUME NEW rs \in Seq(Resources)
    PROVE  /\ BatchCatalog(rs) \in Batches
           /\ \A r \in ToSet(rs) : Within(r, BatchCatalog(rs))
           /\ FlattenSeq(BatchCatalog(rs)) = rs
           /\ MaxDocBytes > 0 => Fits(BatchCatalog(rs), TRUE)
<1> SUFFICES /\ BatchCatalog(rs) \in Batches
             /\ \A k \in DOMAIN rs : Within(rs[k], BatchCatalog(rs))
             /\ FlattenSeq(BatchCatalog(rs)) = rs
             /\ MaxDocBytes > 0 => Fits(BatchCatalog(rs), TRUE)
  BY DEF ToSet
<1> DEFINE N == Len(rs)
           one == << <<>> >>
           G == [i \in 1 .. N |-> [bs \in Batches |-> Fill(bs, rs[i])]]
           Def(f) == [i \in 0 .. N |-> IF i = 0 THEN one ELSE Fill(f[i - 1], rs[i])]
<1>0. N \in Nat /\ DOMAIN rs = 1 .. N /\ \A i \in 1 .. N : rs[i] \in Resources
  OBVIOUS
<1>1. one \in Batches /\ FlattenSeq(one) = <<>> /\ Fits(one, TRUE)
  <2>1. one \in Batches /\ DOMAIN one = {1} /\ Len(one[1]) = 0
    BY DEF Batches
  <2>2. <<>> \in Seq(Resources)
    OBVIOUS
  <2>3. FlattenSeq(one) = <<>>
    BY <2>2, FlattenOne
  <2> HIDE DEF one
  <2>4. Fits(one, TRUE)
    BY <2>1 DEF Fits
  <2> QED BY <2>1, <2>3, <2>4
<1> HIDE DEF one
<1>2. ASSUME NEW i \in 1 .. N, NEW bs \in Batches
      PROVE  Fill(bs, rs[i]) \in Batches
  BY <1>0, FillTakes
<1>3. G \in Steppers(N, Batches)
  BY <1>2 DEF Steppers
<1>4. ASSUME NEW i \in 1 .. N, NEW bs \in Batches
      PROVE  G[i][bs] = Fill(bs, rs[i])
  OBVIOUS
<1>5. ASSUME NEW g
      PROVE  /\ Def(g) = [i \in 0 .. N |-> Def(g)[i]] /\ Def(g)[0] = one
             /\ \A i \in 1 .. N : Def(g)[i] = Fill(g[i - 1], rs[i])
  BY <1>0
<1> HIDE DEF N, G, Def
<1>6. PICK f : Stepped(N, Batches, one, G, f)
  <2>1. N \in Nat
    BY <1>0
  <2> QED BY <1>1, <1>3, <2>1, Recursion
<1>7. /\ f \in [0 .. N -> Batches] /\ f[0] = one
      /\ \A i \in 1 .. N : f[i] = G[i][f[i - 1]]
  BY <1>6, Zenon DEF Stepped
<1>8. f = Def(f)
  <2>1. ASSUME NEW i \in 0 .. N PROVE f[i] = Def(f)[i]
    <3>1. CASE i = 0
      BY <1>5, <1>7, <3>1
    <3>2. CASE i \in 1 .. N
      <4>1. f[i - 1] \in Batches
        BY <1>0, <1>7, <3>2
      <4> QED BY <1>4, <1>5, <1>7, <3>2, <4>1
    <3> QED BY <1>0, <3>1, <3>2
  <2>2. f = [i \in 0 .. N |-> f[i]]
    BY <1>7
  <2> QED BY <1>5, <2>1, <2>2
<1> DEFINE g == CHOOSE h : h = Def(h)
<1>9. g = Def(g)
  BY <1>8, Zenon
<1>10. \/ /\ BatchCatalog(rs) = <<rs>>
          /\ MaxDocBytes = 0 \/ DocBytes(rs, TRUE) <= MaxDocBytes \/ rs = <<>>
       \/ BatchCatalog(rs) = g[N]
  BY Zenon DEF BatchCatalog, N, Def, one
<1> HIDE DEF g
<1> DEFINE Filled(i) == /\ g[i] \in Batches /\ \A k \in 1 .. i : Within(rs[k], g[i])
                        /\ FlattenSeq(g[i]) = SubSeq(rs, 1, i) /\ Fits(g[i], TRUE)
           S == {i \in 0 .. N : Filled(i)}
<1>11. 0 \in S
  <2>1. SubSeq(rs, 1, 0) = <<>>
    BY <1>0
  <2>2. g[0] = one
    BY <1>0, <1>5, <1>9
  <2>3. 0 \in 0 .. N
    BY <1>0
  <2>4. \A k \in 1 .. 0 : Within(rs[k], g[0])
    OBVIOUS
  <2>5. Filled(0)
    BY <1>1, <2>1, <2>2, <2>4, Zenon
  <2> QED BY <2>3, <2>5, Zenon
<1>12. ASSUME NEW i \in 1 .. N, i - 1 \in S PROVE i \in S
  <2>1. g[i] = Fill(g[i - 1], rs[i])
    BY <1>5, <1>9
  <2>2. Filled(i - 1)
    BY <1>12, Zenon
  <2>3. /\ g[i] \in Batches /\ Within(rs[i], g[i])
        /\ \A q : Within(q, g[i - 1]) => Within(q, g[i])
    BY <1>0, <2>1, <2>2, FillTakes
  <2>4. \A k \in 1 .. i : k = i \/ k \in 1 .. (i - 1)
    BY <1>0
  <2>5. \A k \in 1 .. i : Within(rs[k], g[i])
    BY <2>2, <2>3, <2>4
  <2>6. rs[i] \in Resources /\ g[i - 1] \in Batches /\ Fits(g[i - 1], TRUE)
    BY <1>0, <2>2
  <2>7. FlattenSeq(g[i]) = FlattenSeq(g[i - 1]) \o <<rs[i]>> /\ Fits(g[i], TRUE)
    <3> DEFINE b == g[i - 1]
               r == rs[i]
    <3> HIDE DEF b, r
    <3>1. b \in Batches /\ r \in Resources /\ Fits(b, TRUE) /\ g[i] = Fill(b, r)
      BY <2>1, <2>6 DEF b, r
    <3>2. FlattenSeq(Fill(b, r)) = FlattenSeq(b) \o <<r>> /\ Fits(Fill(b, r), TRUE)
      BY <3>1, FillAppends
    <3> QED BY <3>1, <3>2, Zenon DEF b, r
  <2>8. SubSeq(rs, 1, i) = SubSeq(rs, 1, i - 1) \o <<rs[i]>>
    <3>1. 1 \in 1 .. Len(rs) /\ i \in 1 .. Len(rs)
      BY <1>0 DEF N
    <3> QED BY <3>1, SubSeqRecursiveSecond
  <2>9. i \in 0 .. N
    BY <1>0
  <2>10. Filled(i)
    BY <2>2, <2>3, <2>5, <2>7, <2>8, Zenon
  <2> QED BY <2>9, <2>10, Zenon
<1> HIDE DEF S
<1>13. \A i \in 0 .. N : i \in S
  BY <1>0, <1>11, <1>12, UpTo
<1>14. CASE BatchCatalog(rs) = g[N]
  <2>1. Filled(N)
    <3>1. N \in 0 .. N
      BY <1>0
    <3> QED BY <1>13, <3>1, Zenon DEF S
  <2>2. SubSeq(rs, 1, N) = rs
    BY SubSeqFull DEF N
  <2> QED BY <1>0, <1>14, <2>1, <2>2, Zenon
<1>15. CASE /\ BatchCatalog(rs) = <<rs>>
            /\ MaxDocBytes = 0 \/ DocBytes(rs, TRUE) <= MaxDocBytes \/ rs = <<>>
  <2> DEFINE b == <<rs>>
  <2>1. b \in Batches /\ DOMAIN b = 1 .. 1 /\ b[1] = rs
    BY DEF Batches
  <2>2. FlattenSeq(b) = rs
    BY FlattenOne
  <2> HIDE DEF b
  <2>3. \A k \in DOMAIN rs : Within(rs[k], b)
    BY <2>1 DEF Within
  <2>4. ASSUME MaxDocBytes > 0, Len(rs) > 1 PROVE DocBytes(rs, TRUE) <= MaxDocBytes + Frame
    <3>1. /\ Base \in Nat /\ Offers \in Nat /\ MaxDocBytes \in Nat /\ Cost(rs) \in Nat
          /\ Frame \in Nat
      BY NetworkCrawlAssumption, CostIsPositive
    <3>2. rs # <<>>
      BY <2>4
    <3> QED BY <1>15, <2>4, <3>1, <3>2 DEF DocBytes
  <2>5. ASSUME MaxDocBytes > 0 PROVE Fits(b, TRUE)
    <3>1. ASSUME NEW i \in DOMAIN b, Len(b[i]) > 1
          PROVE  DocBytes(b[i], TRUE /\ i = 1) <= MaxDocBytes + Frame
      <4>1. i = 1 /\ b[i] = rs /\ (TRUE /\ i = 1) = TRUE
        BY <2>1
      <4>2. DocBytes(rs, TRUE) <= MaxDocBytes + Frame
        BY <2>4, <2>5, <3>1, <4>1
      <4> QED BY <4>1, <4>2, Zenon
    <3> QED BY <3>1, Zenon DEF Fits
  <2> QED BY <1>15, <2>1, <2>2, <2>3, <2>5 DEF b
<1> QED BY <1>10, <1>14, <1>15

-----------------------------------------------------------------------------
(* The invariant of the crawl.                                             *)

\* The types: of what a pass has, of the flags and of what is shared.
PassTypeOK ==
    /\ pc \in [Ticks -> {"idle", "list", "network", "ask", "page", "push", "release"}]
    /\ nets \in [Ticks -> Seq(Sources)]
    /\ at \in [Ticks -> Nat] /\ gave \in [Ticks -> Nat] /\ offset \in [Ticks -> 0 .. MaxOffset]
    /\ page \in [Ticks -> PageOf(Seq([catalog : Catalogs, res : Seq(Resources)]))]
    /\ batches \in [Ticks -> Seq(Seq(Resources))]
FlagsOK ==
    refused \in [Ticks -> BOOLEAN] /\ lossy \in [Ticks -> BOOLEAN] /\ running \in BOOLEAN
SharedTypeOK ==
    /\ last \in Nat /\ clock \in Nat /\ faults \in Nat /\ walked \subseteq DOMAIN Holdings
    /\ copies \in [Catalogs -> [held : SUBSET Resources, until : Nat, gave : Nat]]
    /\ accepted \subseteq [catalog : Catalogs, res : SUBSET Resources, until : Nat]
CrawlTypeOK == PassTypeOK /\ FlagsOK /\ SharedTypeOK

\* A pass that walks a network may copy from it, and nothing it holds of the
\* network ends later than what it sends.
Walking(t) ==
    pc[t] \in {"ask", "page", "push"} =>
        /\ nets[t] # <<>> /\ Head(nets[t]).ttl > 0 /\ Head(nets[t]).packs # {}
        /\ at[t] <= clock
        /\ \A c \in CatalogsOf(Head(nets[t]).id) : copies[c].until <= Expires(t)

\* The page in hand is the network's, and was given after the pass turned to it.
InHand(t) ==
    pc[t] \in {"page", "push"} =>
        page[t].docs \in Seq(Docs(Head(nets[t]).id)) /\ at[t] <= gave[t]

\* While no batch was refused, what is not stored yet is still to be sent.
Sending(t) ==
    pc[t] = "push" =>
        /\ page[t].docs # <<>> /\ batches[t] # <<>>
        /\ ~refused[t] =>
              \A r \in ToSet(Head(page[t].docs).res) :
                  r \in copies[Head(page[t].docs).catalog].held \/ Within(r, batches[t])

\* No copy outlasts what its network permits from now.
EndsInTime ==
    \A i \in DOMAIN Registry : \A c \in CatalogsOf(Registry[i].id) :
        copies[c].until <= clock + Registry[i].ttl

CrawlInv ==
    /\ CrawlTypeOK
    /\ OnePassAtATime
    /\ \A t \in Ticks : Walking(t) /\ InHand(t) /\ Sending(t)
    /\ EndsInTime
    /\ CopiesPermitted
    /\ AcceptedIsStored

\* The network being walked is one we read from.
LEMMA NetworkIsSource ==
    ASSUME CrawlTypeOK, NEW t \in Ticks, nets[t] # <<>>
    PROVE  /\ Head(nets[t]) \in Sources /\ Tail(nets[t]) \in Seq(Sources)
           /\ \E i \in DOMAIN Registry : Registry[i] = Head(nets[t])
           /\ Head(nets[t]).id \in DOMAIN Holdings /\ Head(nets[t]).ttl \in Nat
           /\ CatalogsOf(Head(nets[t]).id) \subseteq Catalogs
<1>1. nets[t] \in Seq(Sources)
  BY DEF CrawlTypeOK, PassTypeOK, FlagsOK, SharedTypeOK
<1>2. Head(nets[t]) \in Sources /\ Tail(nets[t]) \in Seq(Sources)
  BY <1>1
<1>3. Head(nets[t]) \in ToSet(Registry)
  BY <1>2 DEF Sources
<1>4. \E i \in DOMAIN Registry : Registry[i] = Head(nets[t])
  BY <1>3 DEF ToSet
<1>5. Head(nets[t]).id \in DOMAIN Holdings /\ Head(nets[t]).ttl \in Nat
  BY <1>3, RegistryAssumption
<1>6. CatalogsOf(Head(nets[t]).id) \subseteq Catalogs
  BY <1>5 DEF Catalogs
<1> QED BY <1>2, <1>4, <1>5, <1>6

\* The step of a pass, or its start, concerns that pass alone.
LEMMA PassKept ==
    ASSUME CrawlInv, NEW t \in Ticks, pc[t] # "idle" \/ ~running,
           \E l : Goto(t, l), running' <=> pc'[t] # "idle",
           Walking(t)', InHand(t)', Sending(t)'
    PROVE  OnePassAtATime' /\ \A u \in Ticks : Walking(u)' /\ InHand(u)' /\ Sending(u)'
<1>1. ASSUME NEW u \in Ticks, u # t PROVE pc[u] = "idle"
  BY <1>1 DEF CrawlInv, OnePassAtATime
<1>2. ASSUME NEW u \in Ticks, u # t PROVE pc'[u] = "idle"
  BY <1>1, <1>2 DEF Goto, CrawlInv, CrawlTypeOK, PassTypeOK, FlagsOK, SharedTypeOK
<1>3. OnePassAtATime'
  BY <1>2 DEF OnePassAtATime
<1>4. ASSUME NEW u \in Ticks, u # t PROVE Walking(u)' /\ InHand(u)' /\ Sending(u)'
  BY <1>2, <1>4 DEF Walking, InHand, Sending
<1> QED BY <1>3, <1>4

\* A step that publishes nothing keeps what is said of the copies.
LEMMA CopiesKept ==
    ASSUME CrawlInv, UNCHANGED <<copies, accepted>>, clock' \in Nat, clock' >= clock
    PROVE  EndsInTime' /\ CopiesPermitted' /\ AcceptedIsStored'
<1>1. EndsInTime'
  <2> SUFFICES ASSUME NEW i \in DOMAIN Registry, NEW c \in CatalogsOf(Registry[i].id)
               PROVE  copies[c].until <= clock' + Registry[i].ttl
    BY DEF EndsInTime
  <2>1. Registry[i].ttl \in Nat /\ Registry[i].id \in DOMAIN Holdings
    BY RegistryAssumption DEF ToSet
  <2>2. c \in Catalogs
    BY <2>1 DEF Catalogs
  <2>3. copies[c].until \in Nat /\ clock \in Nat
    BY <2>2 DEF CrawlInv, CrawlTypeOK, PassTypeOK, FlagsOK, SharedTypeOK
  <2>4. copies[c].until <= clock + Registry[i].ttl
    BY DEF CrawlInv, EndsInTime
  <2> QED BY <2>1, <2>3, <2>4
<1>2. CopiesPermitted'
  BY DEF CrawlInv, CopiesPermitted
<1>3. AcceptedIsStored'
  BY DEF CrawlInv, AcceptedIsStored
<1> QED BY <1>1, <1>2, <1>3

LEMMA CrawlStarts == CrawlInit => CrawlInv
<1> SUFFICES ASSUME CrawlInit PROVE CrawlInv
  OBVIOUS
<1> USE DEF CrawlInit
<1>1. CrawlTypeOK
  <2>1. NoPage \in PageOf(Seq([catalog : Catalogs, res : Seq(Resources)]))
    BY DEF NoPage, PageOf
  <2>2. copies \in [Catalogs -> [held : SUBSET Resources, until : Nat, gave : Nat]]
    OBVIOUS
  <2>3. last \in Nat /\ 0 \in 0 .. MaxOffset
    BY NetworkCrawlAssumption DEF Never
  <2>4. /\ pc \in [Ticks -> {"idle", "list", "network", "ask", "page", "push", "release"}]
        /\ nets \in [Ticks -> Seq(Sources)] /\ batches \in [Ticks -> Seq(Seq(Resources))]
    OBVIOUS
  <2>5. refused \in [Ticks -> BOOLEAN] /\ lossy \in [Ticks -> BOOLEAN] /\ running \in BOOLEAN
    BY Zenon
  <2> QED BY <2>1, <2>2, <2>3, <2>4, <2>5 DEF CrawlTypeOK, PassTypeOK, FlagsOK, SharedTypeOK
<1>2. OnePassAtATime /\ CopiesPermitted /\ AcceptedIsStored
  BY DEF OnePassAtATime, CopiesPermitted, AcceptedIsStored
<1>3. ASSUME NEW t \in Ticks PROVE Walking(t) /\ InHand(t) /\ Sending(t)
  BY DEF Walking, InHand, Sending
<1>4. EndsInTime
  <2> SUFFICES ASSUME NEW i \in DOMAIN Registry, NEW c \in CatalogsOf(Registry[i].id)
               PROVE  copies[c].until <= clock + Registry[i].ttl
    BY DEF EndsInTime
  <2>1. Registry[i].ttl \in Nat /\ Registry[i].id \in DOMAIN Holdings
    BY RegistryAssumption DEF ToSet
  <2>2. c \in Catalogs
    BY <2>1 DEF Catalogs
  <2> QED BY <2>1, <2>2
<1> QED BY <1>1, <1>2, <1>3, <1>4 DEF CrawlInv

\* The clock.
LEMMA AdvanceKeeps == ASSUME CrawlInv, Advance PROVE CrawlInv'
<1> USE DEF Advance
<1>0. CrawlTypeOK
  BY DEF CrawlInv
<1>1. CrawlTypeOK'
  <2>1. PassTypeOK'
    BY <1>0 DEF CrawlTypeOK, PassTypeOK, passVars
  <2>2. FlagsOK'
    BY <1>0 DEF CrawlTypeOK, FlagsOK, passVars
  <2>3. SharedTypeOK'
    BY <1>0 DEF CrawlTypeOK, SharedTypeOK
  <2> QED BY <2>1, <2>2, <2>3 DEF CrawlTypeOK
<1>2. OnePassAtATime'
  BY DEF CrawlInv, OnePassAtATime
<1>3. ASSUME NEW t \in Ticks PROVE Walking(t)' /\ InHand(t)' /\ Sending(t)'
  <2>1. Walking(t) /\ InHand(t) /\ Sending(t)
    BY DEF CrawlInv
  <2>2. at[t] \in Nat /\ clock \in Nat
    BY <1>0 DEF CrawlTypeOK, PassTypeOK, FlagsOK, SharedTypeOK
  <2>3. Walking(t)'
    BY <2>1, <2>2 DEF Walking, Expires, passVars
  <2>4. InHand(t)' /\ Sending(t)'
    BY <2>1 DEF InHand, Sending, passVars
  <2> QED BY <2>3, <2>4
<1>4. clock' \in Nat /\ clock' >= clock
  BY <1>0 DEF CrawlTypeOK, PassTypeOK, FlagsOK, SharedTypeOK
<1> QED BY <1>1, <1>2, <1>3, <1>4, CopiesKept DEF CrawlInv

\* A pass is where it was sent.
LEMMA Gone ==
    ASSUME CrawlTypeOK, NEW t \in Ticks, NEW l, Goto(t, l)
    PROVE  /\ pc'[t] = l
           /\ l \in {"idle", "list", "network", "ask", "page", "push", "release"} =>
              pc' \in [Ticks -> {"idle", "list", "network", "ask", "page", "push", "release"}]
BY DEF CrawlTypeOK, PassTypeOK, Goto

\* tick, claim
LEMMA ClaimKeeps == ASSUME CrawlInv, NEW t \in Ticks, Claim(t) PROVE CrawlInv'
<1> USE DEF Claim
<1>0. CrawlTypeOK /\ Goto(t, "list")
  BY DEF CrawlInv
<1>1. pc'[t] = "list" /\ CrawlTypeOK'
  <2>1. pc'[t] = "list" /\ PassTypeOK'
    BY <1>0, Gone DEF CrawlTypeOK, PassTypeOK, passVars
  <2>2. FlagsOK'
    BY <1>0 DEF CrawlTypeOK, FlagsOK, passVars
  <2>3. SharedTypeOK'
    BY <1>0 DEF CrawlTypeOK, SharedTypeOK
  <2> QED BY <2>1, <2>2, <2>3 DEF CrawlTypeOK
<1>2. Walking(t)' /\ InHand(t)' /\ Sending(t)'
  BY <1>1 DEF Walking, InHand, Sending
<1>3. OnePassAtATime' /\ \A u \in Ticks : Walking(u)' /\ InHand(u)' /\ Sending(u)'
  BY <1>0, <1>1, <1>2, PassKept DEF Free
<1>4. EndsInTime' /\ CopiesPermitted' /\ AcceptedIsStored'
  BY <1>0, CopiesKept DEF CrawlTypeOK, SharedTypeOK
<1> QED BY <1>1, <1>3, <1>4 DEF CrawlInv

\* run, up to its loop
LEMMA ListKeeps == ASSUME CrawlInv, NEW t \in Ticks, List(t) PROVE CrawlInv'
<1> USE DEF List
<1>0. CrawlTypeOK /\ running /\ pc[t] = "list"
  BY DEF CrawlInv, OnePassAtATime
<1>a. PICK l \in {"network", "release"} : Goto(t, l)
  OBVIOUS
<1>1. pc'[t] = l /\ CrawlTypeOK'
  <2>1. nets' \in [Ticks -> Seq(Sources)]
    BY <1>0, CrawlableSources DEF CrawlTypeOK, PassTypeOK
  <2>2. pc'[t] = l /\ PassTypeOK'
    BY <1>0, <1>a, <2>1, Gone DEF CrawlTypeOK, PassTypeOK
  <2>3. FlagsOK'
    BY <1>0 DEF CrawlTypeOK, FlagsOK
  <2>4. SharedTypeOK'
    BY <1>0 DEF CrawlTypeOK, SharedTypeOK
  <2> QED BY <2>2, <2>3, <2>4 DEF CrawlTypeOK
<1>2. Walking(t)' /\ InHand(t)' /\ Sending(t)'
  BY <1>a, <1>1 DEF Walking, InHand, Sending
<1>3. OnePassAtATime' /\ \A u \in Ticks : Walking(u)' /\ InHand(u)' /\ Sending(u)'
  BY <1>0, <1>a, <1>1, <1>2, PassKept
<1>4. EndsInTime' /\ CopiesPermitted' /\ AcceptedIsStored'
  BY <1>0, CopiesKept DEF CrawlTypeOK, SharedTypeOK
<1> QED BY <1>1, <1>3, <1>4 DEF CrawlInv

\* The end of run.
LEMMA ReleaseKeeps == ASSUME CrawlInv, NEW t \in Ticks, Release(t) PROVE CrawlInv'
<1> USE DEF Release
<1>0. CrawlTypeOK /\ Goto(t, "idle")
  BY DEF CrawlInv
<1>1. pc'[t] = "idle" /\ CrawlTypeOK'
  <2>1. pc'[t] = "idle" /\ PassTypeOK'
    BY <1>0, Gone DEF CrawlTypeOK, PassTypeOK, passVars
  <2>2. FlagsOK'
    BY <1>0 DEF CrawlTypeOK, FlagsOK, passVars
  <2>3. SharedTypeOK'
    BY <1>0 DEF CrawlTypeOK, SharedTypeOK
  <2> QED BY <2>1, <2>2, <2>3 DEF CrawlTypeOK
<1>2. Walking(t)' /\ InHand(t)' /\ Sending(t)'
  BY <1>1 DEF Walking, InHand, Sending
<1>3. OnePassAtATime' /\ \A u \in Ticks : Walking(u)' /\ InHand(u)' /\ Sending(u)'
  BY <1>0, <1>1, <1>2, PassKept
<1>4. EndsInTime' /\ CopiesPermitted' /\ AcceptedIsStored'
  BY <1>0, CopiesKept DEF CrawlTypeOK, SharedTypeOK
<1> QED BY <1>1, <1>3, <1>4 DEF CrawlInv

\* run, the head of its loop: what there is of the network ends, at the latest,
\* when a copy taken now would.
LEMMA TurnKeeps == ASSUME CrawlInv, NEW t \in Ticks, Turn(t) PROVE CrawlInv'
<1>0. /\ CrawlTypeOK /\ running /\ pc[t] = "network"
      /\ UNCHANGED <<running, last, clock, copies, accepted, walked, faults, gave, page,
                     batches, refused>>
  BY DEF CrawlInv, OnePassAtATime, Turn, passVars
<1>1. PICK l \in {"network", "ask", "release"} : Goto(t, l)
  <2>1. CASE pc' = pc
    <3>1. pc = [pc EXCEPT ![t] = "network"]
      BY <1>0 DEF CrawlTypeOK, PassTypeOK
    <3> QED BY <2>1, <3>1 DEF Goto
  <2> QED BY <2>1 DEF Turn
<1>2. CrawlTypeOK' /\ pc'[t] = l
  <2>1. nets' \in [Ticks -> Seq(Sources)]
    <3>1. CASE nets' = nets
      BY <1>0, <3>1 DEF CrawlTypeOK, PassTypeOK
    <3>2. CASE nets[t] # <<>> /\ Drop(t)
      BY <1>0, <3>2, NetworkIsSource DEF CrawlTypeOK, PassTypeOK, Drop
    <3> QED BY <3>1, <3>2 DEF Turn, passVars
  <2>2. at' \in [Ticks -> Nat]
    BY <1>0 DEF Turn, passVars, CrawlTypeOK, PassTypeOK, SharedTypeOK
  <2>3. offset' \in [Ticks -> 0 .. MaxOffset]
    <3>1. 0 \in 0 .. MaxOffset
      BY NetworkCrawlAssumption
    <3>2. offset' = offset \/ offset' = [offset EXCEPT ![t] = 0]
      BY Zenon DEF Turn, passVars
    <3> QED BY <1>0, <3>1, <3>2 DEF CrawlTypeOK, PassTypeOK
  <2>4. PassTypeOK' /\ pc'[t] = l
    BY <1>0, <1>1, <2>1, <2>2, <2>3, Gone DEF CrawlTypeOK, PassTypeOK
  <2>5. FlagsOK'
    <3>1. lossy' = lossy \/ lossy' = [lossy EXCEPT ![t] = FALSE]
      BY Zenon DEF Turn, passVars
    <3> QED BY <1>0, <3>1 DEF CrawlTypeOK, FlagsOK
  <2>6. SharedTypeOK'
    BY <1>0 DEF CrawlTypeOK, SharedTypeOK
  <2> QED BY <2>4, <2>5, <2>6 DEF CrawlTypeOK
<1>3. Walking(t)' /\ InHand(t)' /\ Sending(t)'
  <2>1. CASE l # "ask"
    BY <1>1, <1>2, <2>1 DEF Walking, InHand, Sending
  <2>2. CASE l = "ask"
    <3> DEFINE n == Head(nets[t])
    <3>1. /\ nets[t] # <<>> /\ at' = [at EXCEPT ![t] = clock] /\ nets' = nets
          /\ n.ttl # 0 /\ n.packs # {}
      <4>1. pc' # pc /\ ~Goto(t, "release")
        BY <1>0, <1>2, <2>2, Gone
      <4> QED BY <4>1 DEF Turn
    <3>2. at'[t] = clock /\ clock' = clock /\ clock \in Nat
      BY <1>0, <3>1 DEF CrawlTypeOK, PassTypeOK, SharedTypeOK
    <3>3. n.ttl \in Nat /\ \A c \in CatalogsOf(n.id) : copies[c].until <= clock + n.ttl
      BY <1>0, <3>1, NetworkIsSource DEF CrawlInv, EndsInTime
    <3>4. Walking(t)'
      BY <1>0, <3>1, <3>2, <3>3 DEF Walking, Expires
    <3> QED BY <1>2, <2>2, <3>4 DEF InHand, Sending
  <2> QED BY <2>1, <2>2
<1>4. OnePassAtATime' /\ \A u \in Ticks : Walking(u)' /\ InHand(u)' /\ Sending(u)'
  BY <1>0, <1>1, <1>2, <1>3, PassKept
<1>5. EndsInTime' /\ CopiesPermitted' /\ AcceptedIsStored'
  BY <1>0, CopiesKept DEF CrawlTypeOK, SharedTypeOK
<1> QED BY <1>2, <1>4, <1>5 DEF CrawlInv

\* discover, discoverPage
LEMMA AskKeeps == ASSUME CrawlInv, NEW t \in Ticks, Ask(t) PROVE CrawlInv'
<1> DEFINE n == Head(nets[t])
<1>0. /\ CrawlTypeOK /\ running /\ pc[t] = "ask" /\ Walking(t)
      /\ UNCHANGED <<at, offset, batches, refused, lossy, running, last, clock, copies,
                     accepted, walked>>
  BY DEF CrawlInv, OnePassAtATime, Ask
<1>1. PICK l \in {"network", "page"} : Goto(t, l)
  BY DEF Ask
<1>2. /\ nets[t] # <<>> /\ n.id \in DOMAIN Holdings /\ CatalogsOf(n.id) \subseteq Catalogs
      /\ Tail(nets[t]) \in Seq(Sources)
  BY <1>0, NetworkIsSource DEF Walking
<1>3. Pages[n.id][offset[t]] \in PageOf(Seq(Docs(n.id)))
  BY <1>0, <1>2, PagesAssumption DEF CrawlTypeOK, PassTypeOK
<1>4. PageOf(Seq(Docs(n.id))) \subseteq PageOf(Seq([catalog : Catalogs, res : Seq(Resources)]))
  <2>1. Docs(n.id) \subseteq [catalog : Catalogs, res : Seq(Resources)]
    BY <1>2 DEF Docs
  <2>2. Seq(Docs(n.id)) \subseteq Seq([catalog : Catalogs, res : Seq(Resources)])
    <3> DEFINE E == [catalog : Catalogs, res : Seq(Resources)]
               D == Docs(n.id)
    <3> HIDE DEF E, D
    <3>1. D \subseteq E
      BY <2>1 DEF E, D
    <3>2. Seq(D) \subseteq Seq(E)
      BY <3>1
    <3> QED BY <3>2 DEF E, D
  <2> QED BY <2>2 DEF PageOf
<1>5. CrawlTypeOK' /\ pc'[t] = l
  <2>1. nets' \in [Ticks -> Seq(Sources)]
    BY <1>0, <1>2 DEF Ask, Drop, CrawlTypeOK, PassTypeOK
  <2>2. page' \in [Ticks -> PageOf(Seq([catalog : Catalogs, res : Seq(Resources)]))]
    BY <1>0, <1>3, <1>4 DEF Ask, CrawlTypeOK, PassTypeOK
  <2>3. gave' \in [Ticks -> Nat]
    BY <1>0 DEF Ask, CrawlTypeOK, PassTypeOK, SharedTypeOK
  <2>4. PassTypeOK' /\ pc'[t] = l
    BY <1>0, <1>1, <2>1, <2>2, <2>3, Gone DEF CrawlTypeOK, PassTypeOK
  <2>5. FlagsOK'
    BY <1>0 DEF CrawlTypeOK, FlagsOK
  <2>6. SharedTypeOK'
    BY <1>0 DEF Ask, CrawlTypeOK, SharedTypeOK
  <2> QED BY <2>4, <2>5, <2>6 DEF CrawlTypeOK
<1>6. Walking(t)' /\ InHand(t)' /\ Sending(t)'
  <2>1. CASE l # "page"
    BY <1>1, <1>5, <2>1 DEF Walking, InHand, Sending
  <2>2. CASE l = "page"
    <3>1. /\ page' = [page EXCEPT ![t] = Pages[n.id][offset[t]]]
          /\ gave' = [gave EXCEPT ![t] = clock] /\ nets' = nets
      <4>1. ~Goto(t, "network")
        BY <1>0, <1>5, <2>2, Gone
      <4> QED BY <4>1 DEF Ask
    <3>2. Walking(t)'
      BY <1>0, <3>1 DEF Walking, Expires
    <3>3. page'[t] = Pages[n.id][offset[t]] /\ gave'[t] = clock
      BY <1>0, <3>1 DEF CrawlTypeOK, PassTypeOK
    <3>4. page'[t].docs \in Seq(Docs(n.id))
      BY <1>3, <3>3 DEF PageOf
    <3>5. InHand(t)'
      BY <1>0, <3>1, <3>3, <3>4 DEF InHand, Walking
    <3> QED BY <1>5, <2>2, <3>2, <3>5 DEF Sending
  <2> QED BY <2>1, <2>2
<1>7. OnePassAtATime' /\ \A u \in Ticks : Walking(u)' /\ InHand(u)' /\ Sending(u)'
  BY <1>0, <1>1, <1>5, <1>6, PassKept
<1>8. EndsInTime' /\ CopiesPermitted' /\ AcceptedIsStored'
  BY <1>0, CopiesKept DEF CrawlTypeOK, SharedTypeOK
<1> QED BY <1>5, <1>7, <1>8 DEF CrawlInv

\* discover, the end of a page
LEMMA TurnedKeeps == ASSUME CrawlInv, NEW t \in Ticks, Turned(t) PROVE CrawlInv'
<1> DEFINE n == Head(nets[t])
           a == After(page[t], offset[t])
<1>0. /\ CrawlTypeOK /\ running /\ pc[t] = "page" /\ Walking(t)
      /\ UNCHANGED <<at, gave, page, batches, refused, lossy, running, last, clock, copies,
                     accepted, faults>>
  BY DEF CrawlInv, OnePassAtATime, Turned
<1>1. PICK l \in {"network", "ask"} : Goto(t, l)
  BY DEF Turned
<1>2. /\ nets[t] # <<>> /\ n.id \in DOMAIN Holdings /\ Tail(nets[t]) \in Seq(Sources)
  BY <1>0, NetworkIsSource DEF Walking
<1>3. CrawlTypeOK' /\ pc'[t] = l
  <2>1. nets' \in [Ticks -> Seq(Sources)]
    BY <1>0, <1>2 DEF Turned, Drop, CrawlTypeOK, PassTypeOK
  <2>2. offset' \in [Ticks -> 0 .. MaxOffset]
    <3>1. a.next \in Int
      <4>1. page[t].limit \in Int /\ page[t].offset \in Int
        BY <1>0 DEF CrawlTypeOK, PassTypeOK, PageOf
      <4>2. offset[t] \in Int /\ PageSize \in Int
        BY <1>0, NetworkCrawlAssumption DEF CrawlTypeOK, PassTypeOK
      <4>3. a.next = offset[t] + PageSize \/ a.next = page[t].offset + page[t].limit
        BY DEF After
      <4> QED BY <4>1, <4>2, <4>3
    <3>2. offset[t] \in 0 .. MaxOffset /\ MaxOffset \in Nat
      BY <1>0, NetworkCrawlAssumption DEF CrawlTypeOK, PassTypeOK
    <3> HIDE DEF a
    <3>3. ~Stalled(a, offset[t]) => Lesser(a.next, MaxOffset) \in 0 .. MaxOffset
      BY <3>1, <3>2 DEF Stalled, Lesser
    <3>4. \/ offset' = offset
          \/ /\ ~Stalled(a, offset[t])
             /\ offset' = [offset EXCEPT ![t] = Lesser(a.next, MaxOffset)]
      BY Zenon DEF Turned, a
    <3> QED BY <1>0, <3>3, <3>4 DEF CrawlTypeOK, PassTypeOK
  <2>3. PassTypeOK' /\ pc'[t] = l
    BY <1>0, <1>1, <2>1, <2>2, Gone DEF CrawlTypeOK, PassTypeOK
  <2>4. FlagsOK'
    BY <1>0 DEF CrawlTypeOK, FlagsOK
  <2>5. walked' \subseteq walked \cup {n.id}
    <3>1. walked' = walked \/ walked' = walked \cup {n.id}
      BY Zenon DEF Turned
    <3> QED BY <3>1
  <2>6. SharedTypeOK'
    BY <1>0, <1>2, <2>5 DEF CrawlTypeOK, SharedTypeOK
  <2> QED BY <2>3, <2>4, <2>6 DEF CrawlTypeOK
<1>4. Walking(t)' /\ InHand(t)' /\ Sending(t)'
  <2>1. CASE l # "ask"
    BY <1>1, <1>3, <2>1 DEF Walking, InHand, Sending
  <2>2. CASE l = "ask"
    <3>1. nets' = nets
      <4>1. ~Goto(t, "network")
        BY <1>0, <1>3, <2>2, Gone
      <4> QED BY <4>1 DEF Turned
    <3>2. Walking(t)'
      BY <1>0, <3>1 DEF Walking, Expires
    <3> QED BY <1>3, <2>2, <3>2 DEF InHand, Sending
  <2> QED BY <2>1, <2>2
<1>5. OnePassAtATime' /\ \A u \in Ticks : Walking(u)' /\ InHand(u)' /\ Sending(u)'
  BY <1>0, <1>1, <1>3, <1>4, PassKept
<1>6. EndsInTime' /\ CopiesPermitted' /\ AcceptedIsStored'
  BY <1>0, CopiesKept DEF CrawlTypeOK, SharedTypeOK
<1> QED BY <1>3, <1>5, <1>6 DEF CrawlInv

\* The catalog in hand is one of the network's, and with it gone the page is
\* still the network's.
LEMMA DealtKeeps ==
    ASSUME CrawlTypeOK, NEW t \in Ticks, NEW D,
           page[t].docs \in Seq(D), page[t].docs # <<>>
    PROVE  /\ Head(page[t].docs) \in D
           /\ Head(page[t].docs) \in [catalog : Catalogs, res : Seq(Resources)]
           /\ Dealt(t) => /\ page'[t].docs \in Seq(D)
                          /\ page' \in [Ticks -> PageOf(Seq([catalog : Catalogs,
                                                             res : Seq(Resources)]))]
<1> DEFINE E == [catalog : Catalogs, res : Seq(Resources)]
           ds == page[t].docs
<1>1. page \in [Ticks -> PageOf(Seq(E))]
  BY DEF CrawlTypeOK, PassTypeOK
<1>2. page[t] \in PageOf(Seq(E)) /\ ds \in Seq(E)
  BY <1>1 DEF PageOf
<1> HIDE DEF E
<1>3. Head(ds) \in D /\ Head(ds) \in E /\ Tail(ds) \in Seq(D) /\ Tail(ds) \in Seq(E)
  BY <1>2
<1>4. ASSUME Dealt(t) PROVE page'[t].docs \in Seq(D) /\ page' \in [Ticks -> PageOf(Seq(E))]
  <2> DEFINE p == [page[t] EXCEPT !.docs = Tail(ds)]
  <2>1. p \in PageOf(Seq(E)) /\ p.docs = Tail(ds)
    BY <1>2, <1>3 DEF PageOf
  <2>2. page' = [page EXCEPT ![t] = p]
    BY <1>4 DEF Dealt
  <2> HIDE DEF p
  <2> QED BY <1>1, <1>3, <2>1, <2>2
<1> QED BY <1>3, <1>4 DEF E

\* publishPage, one catalog
LEMMA PublishKeeps == ASSUME CrawlInv, NEW t \in Ticks, Publish(t) PROVE CrawlInv'
<1> DEFINE n == Head(nets[t])
           d == Head(page[t].docs)
<1>0. /\ CrawlTypeOK /\ running /\ pc[t] = "page" /\ Walking(t) /\ InHand(t)
      /\ page[t].docs # <<>> /\ page[t].docs \in Seq(Docs(n.id))
      /\ UNCHANGED <<nets, at, gave, offset, lossy, running, last, clock, copies, accepted,
                     walked, faults>>
  BY DEF CrawlInv, OnePassAtATime, Publish, InHand
<1>1. /\ d \in [catalog : Catalogs, res : Seq(Resources)]
      /\ Dealt(t) => /\ page'[t].docs \in Seq(Docs(n.id))
                     /\ page' \in [Ticks -> PageOf(Seq([catalog : Catalogs,
                                                        res : Seq(Resources)]))]
  BY <1>0, DealtKeeps
<1>2. /\ BatchCatalog(d.res) \in Batches
      /\ \A r \in ToSet(d.res) : Within(r, BatchCatalog(d.res))
  BY <1>1, BatchCatalogCovers
<1>3. CASE Dealt(t) /\ UNCHANGED <<pc, batches, refused>>
  <2>1. CrawlTypeOK'
    <3>1. PassTypeOK'
      BY <1>0, <1>1, <1>3 DEF CrawlTypeOK, PassTypeOK
    <3>2. FlagsOK'
      BY <1>0, <1>3 DEF CrawlTypeOK, FlagsOK
    <3>3. SharedTypeOK'
      BY <1>0 DEF CrawlTypeOK, SharedTypeOK
    <3> QED BY <3>1, <3>2, <3>3 DEF CrawlTypeOK
  <2>2. Walking(t)' /\ InHand(t)' /\ Sending(t)'
    <3>1. Walking(t)'
      BY <1>0, <1>3 DEF Walking, Expires
    <3>2. InHand(t)'
      BY <1>0, <1>1, <1>3 DEF InHand
    <3>3. Sending(t)'
      BY <1>0, <1>3 DEF Sending
    <3> QED BY <3>1, <3>2, <3>3
  <2>3. Goto(t, "page")
    BY <1>0, <1>3 DEF Goto, CrawlTypeOK, PassTypeOK
  <2>4. OnePassAtATime' /\ \A u \in Ticks : Walking(u)' /\ InHand(u)' /\ Sending(u)'
    BY <1>0, <1>3, <2>2, <2>3, PassKept
  <2>5. EndsInTime' /\ CopiesPermitted' /\ AcceptedIsStored'
    BY <1>0, CopiesKept DEF CrawlTypeOK, SharedTypeOK
  <2> QED BY <2>1, <2>4, <2>5 DEF CrawlInv
<1>4. CASE /\ batches' = [batches EXCEPT ![t] = BatchCatalog(d.res)]
           /\ refused' = [refused EXCEPT ![t] = FALSE]
           /\ Goto(t, "push") /\ UNCHANGED page
  <2>1. CrawlTypeOK' /\ pc'[t] = "push" /\ batches'[t] = BatchCatalog(d.res)
    <3>1. /\ batches' \in [Ticks -> Seq(Seq(Resources))]
          /\ batches'[t] = BatchCatalog(d.res)
      <4> DEFINE b == BatchCatalog(d.res)
      <4>1. b \in Seq(Seq(Resources)) /\ batches' = [batches EXCEPT ![t] = b]
        BY <1>2, <1>4 DEF Batches
      <4> HIDE DEF b
      <4> QED BY <1>0, <4>1 DEF b, CrawlTypeOK, PassTypeOK
    <3>2. PassTypeOK' /\ pc'[t] = "push"
      BY <1>0, <1>4, <3>1, Gone DEF CrawlTypeOK, PassTypeOK
    <3>3. FlagsOK'
      BY <1>0, <1>4 DEF CrawlTypeOK, FlagsOK
    <3>4. SharedTypeOK'
      BY <1>0 DEF CrawlTypeOK, SharedTypeOK
    <3> QED BY <3>1, <3>2, <3>3, <3>4 DEF CrawlTypeOK
  <2>2. Walking(t)' /\ InHand(t)' /\ Sending(t)'
    <3>1. Walking(t)'
      BY <1>0, <1>4 DEF Walking, Expires
    <3>2. InHand(t)'
      BY <1>0, <1>4 DEF InHand
    <3>3. Sending(t)'
      BY <1>0, <1>2, <1>4, <2>1 DEF Sending, Batches
    <3> QED BY <3>1, <3>2, <3>3
  <2>3. OnePassAtATime' /\ \A u \in Ticks : Walking(u)' /\ InHand(u)' /\ Sending(u)'
    BY <1>0, <1>4, <2>1, <2>2, PassKept
  <2>4. EndsInTime' /\ CopiesPermitted' /\ AcceptedIsStored'
    BY <1>0, CopiesKept DEF CrawlTypeOK, SharedTypeOK
  <2> QED BY <2>1, <2>3, <2>4 DEF CrawlInv
<1> QED BY <1>3, <1>4, Zenon DEF Publish

\* What our discovery holds once it has taken the batch.
Stored(t) ==
    [copies EXCEPT ![Head(page[t].docs).catalog] =
        Merged(Head(page[t].docs).catalog, ToSet(Head(batches[t])), Expires(t), gave[t])]

\* Whether or not the batch arrived: what is held only grows, ends no earlier
\* than it did and no later than the network permits.
LEMMA StoredKeeps ==
    ASSUME CrawlInv, NEW t \in Ticks, pc[t] = "push",
           copies' = copies \/ copies' = Stored(t), clock' = clock
    PROVE  /\ copies' \in [Catalogs -> [held : SUBSET Resources, until : Nat, gave : Nat]]
           /\ \A c \in CatalogsOf(Head(nets[t]).id) : copies'[c].until <= Expires(t)
           /\ EndsInTime' /\ CopiesPermitted'
           /\ \A c \in Catalogs : /\ copies[c].held \subseteq copies'[c].held
                                  /\ copies[c].until <= copies'[c].until
<1> DEFINE n == Head(nets[t])
           d == Head(page[t].docs)
           k == d.catalog
           rs == ToSet(Head(batches[t]))
           m == [held |-> copies[k].held \cup rs, until |-> Expires(t), gave |-> gave[t]]
           C == [held : SUBSET Resources, until : Nat, gave : Nat]
<1>0. /\ CrawlTypeOK /\ Walking(t) /\ InHand(t) /\ Sending(t)
      /\ copies \in [Catalogs -> C] /\ clock \in Nat
  BY DEF CrawlInv, CrawlTypeOK, SharedTypeOK
<1>1. /\ nets[t] # <<>> /\ n \in Sources /\ n.ttl \in Nat /\ n.ttl > 0 /\ n.packs # {}
      /\ n.id \in DOMAIN Holdings /\ CatalogsOf(n.id) \subseteq Catalogs
      /\ \E i \in DOMAIN Registry : Registry[i] = n
      /\ \A c \in CatalogsOf(n.id) : copies[c].until <= Expires(t)
  BY <1>0, NetworkIsSource DEF Walking
<1>2. k \in CatalogsOf(n.id) /\ k \in Catalogs
  <2>1. d \in Docs(n.id)
    BY <1>0, DealtKeeps DEF InHand, Sending
  <2> QED BY <1>1, <2>1 DEF Docs
<1>3. rs \subseteq Resources
  <2>1. batches[t] \in Seq(Seq(Resources)) /\ batches[t] # <<>>
    BY <1>0 DEF CrawlTypeOK, PassTypeOK, Sending
  <2>2. Head(batches[t]) \in Seq(Resources)
    BY <2>1
  <2> QED BY <2>2 DEF ToSet
<1>4. /\ at[t] \in Nat /\ gave[t] \in Nat /\ at[t] <= clock /\ at[t] <= gave[t]
      /\ Expires(t) \in Nat /\ Expires(t) = at[t] + n.ttl
  BY <1>0, <1>1 DEF CrawlTypeOK, PassTypeOK, Walking, InHand, Expires
<1>5. m \in C /\ m.until = Expires(t) /\ m.gave = gave[t] /\ copies[k].held \subseteq m.held
  BY <1>0, <1>2, <1>3, <1>4
<1>6. copies' = copies \/ copies' = [copies EXCEPT ![k] = m]
  BY DEF Stored, Merged
<1> HIDE DEF m, rs, C
<1>7. copies' \in [Catalogs -> C]
  BY <1>0, <1>5, <1>6
<1>8. ASSUME NEW c \in Catalogs PROVE copies'[c] = copies[c] \/ (c = k /\ copies'[c] = m)
  BY <1>0, <1>6
<1>9. ASSUME NEW c \in CatalogsOf(n.id) PROVE copies'[c].until <= Expires(t)
  BY <1>1, <1>4, <1>5, <1>8
<1>10. EndsInTime'
  <2> SUFFICES ASSUME NEW i \in DOMAIN Registry, NEW c \in CatalogsOf(Registry[i].id)
               PROVE  copies'[c].until <= clock + Registry[i].ttl
    BY DEF EndsInTime
  <2>1. copies[c].until <= clock + Registry[i].ttl
    BY DEF CrawlInv, EndsInTime
  <2>2. c \in Catalogs
    BY RegistryAssumption DEF Catalogs, ToSet
  <2>3. CASE copies'[c] = copies[c]
    BY <2>1, <2>3
  <2>4. CASE c = k /\ copies'[c] = m
    <3>1. PICK j \in DOMAIN Registry : Registry[j] = n
      BY <1>1
    <3>2. i = j
      BY <1>2, <2>4, <3>1, CatalogsAssumption
    <3> QED BY <1>0, <1>1, <1>4, <1>5, <2>4, <3>1, <3>2
  <2> QED BY <1>8, <2>2, <2>3, <2>4
<1>11. CopiesPermitted'
  <2> SUFFICES ASSUME NEW c \in Catalogs, copies'[c].held # {}
               PROVE  \E i \in DOMAIN Registry :
                         /\ Permits(Registry[i], c)
                         /\ copies'[c].until <= copies'[c].gave + Registry[i].ttl
    BY DEF CopiesPermitted
  <2>1. CASE copies'[c] = copies[c]
    BY <2>1 DEF CrawlInv, CopiesPermitted
  <2>2. CASE c = k /\ copies'[c] = m
    <3>1. Permits(n, c)
      BY <1>1, <1>2, <2>2 DEF Permits, Sources
    <3>2. copies'[c].until <= copies'[c].gave + n.ttl
      BY <1>1, <1>4, <1>5, <2>2
    <3> QED BY <1>1, <3>1, <3>2
  <2> QED BY <1>8, <2>1, <2>2
<1>12. ASSUME NEW c \in Catalogs
       PROVE  copies[c].held \subseteq copies'[c].held /\ copies[c].until <= copies'[c].until
  <2>1. copies[c].until \in Nat
    BY <1>0 DEF C
  <2> QED BY <1>1, <1>2, <1>4, <1>5, <1>8, <2>1
<1> QED BY <1>7, <1>9, <1>10, <1>11, <1>12 DEF C

\* An acknowledged batch was stored: verdict judges every result.
LEMMA AckedIsStored == ASSUME NEW a, Acked(a) PROVE Stores(a)
<1>1. a.http = 200 /\ a.readable /\ \A i \in DOMAIN a.results : a.results[i] = "ACCEPTED"
  BY Zenon DEF Acked, Verdict
<1>2. ToSet(a.results) \subseteq {"ACCEPTED"}
  BY <1>1, Zenon DEF ToSet
<1> QED BY <1>1, <1>2, Zenon DEF Stores

\* What was reported done stays stored when what is held only grows.
LEMMA AcceptedKept ==
    ASSUME CrawlInv, accepted' = accepted,
           copies' \in [Catalogs -> [held : SUBSET Resources, until : Nat, gave : Nat]],
           \A c \in Catalogs : /\ copies[c].held \subseteq copies'[c].held
                               /\ copies[c].until <= copies'[c].until
    PROVE  AcceptedIsStored'
<1> SUFFICES ASSUME NEW a \in accepted
             PROVE  /\ a.res \subseteq copies'[a.catalog].held
                    /\ copies'[a.catalog].until >= a.until
  BY DEF AcceptedIsStored
<1>1. a \in [catalog : Catalogs, res : SUBSET Resources, until : Nat]
  BY DEF CrawlInv, CrawlTypeOK, SharedTypeOK
<1>2. a.res \subseteq copies[a.catalog].held /\ copies[a.catalog].until >= a.until
  BY DEF CrawlInv, AcceptedIsStored
<1>3. a.catalog \in Catalogs /\ a.until \in Nat
  BY <1>1
<1>4. copies[a.catalog].until \in Nat /\ copies'[a.catalog].until \in Nat
  BY <1>3 DEF CrawlInv, CrawlTypeOK, SharedTypeOK
<1>5. /\ copies[a.catalog].held \subseteq copies'[a.catalog].held
      /\ copies[a.catalog].until <= copies'[a.catalog].until
  BY <1>3
<1> QED BY <1>2, <1>3, <1>4, <1>5

\* What follows the first batch.
LEMMA Tails ==
    ASSUME NEW S, NEW s \in Seq(S), Len(s) > 1
    PROVE  /\ Tail(s) # <<>>
           /\ \A i \in 2 .. Len(s) : i - 1 \in DOMAIN Tail(s) /\ Tail(s)[i - 1] = s[i]
<1>1. Len(s) \in Nat /\ s # <<>>
  OBVIOUS
<1>2. Tail(s) \in Seq(S) /\ Len(Tail(s)) = Len(s) - 1
  BY <1>1
<1>3. \A j \in 1 .. (Len(s) - 1) : Tail(s)[j] = s[j + 1]
  BY <1>1
<1>4. DOMAIN Tail(s) = 1 .. (Len(s) - 1)
  BY <1>2
<1>5. Tail(s) # <<>>
  <2>1. 1 \in DOMAIN Tail(s)
    BY <1>1, <1>4
  <2>2. DOMAIN << >> = {}
    OBVIOUS
  <2> QED BY <2>1, <2>2, Zenon
<1>6. ASSUME NEW i \in 2 .. Len(s) PROVE i - 1 \in DOMAIN Tail(s) /\ Tail(s)[i - 1] = s[i]
  <2>1. i - 1 \in 1 .. (Len(s) - 1) /\ (i - 1) + 1 = i
    BY <1>1
  <2>2. Tail(s)[i - 1] = s[(i - 1) + 1]
    BY <1>3, <2>1
  <2> QED BY <1>4, <2>1, <2>2
<1> QED BY <1>5, <1>6

\* What is not in the first batch is in those that follow.
LEMMA WithinTail ==
    ASSUME NEW bs \in Seq(Seq(Resources)), bs # <<>>
    PROVE  \A r : Within(r, bs) => r \in ToSet(Head(bs)) \/ (Len(bs) > 1 /\ Within(r, Tail(bs)))
<1> SUFFICES ASSUME NEW r, Within(r, bs), r \notin ToSet(Head(bs))
             PROVE  Len(bs) > 1 /\ Within(r, Tail(bs))
  OBVIOUS
<1>0. Len(bs) \in Nat \ {0} /\ Head(bs) = bs[1]
  OBVIOUS
<1>1. PICK i \in DOMAIN bs : \E j \in DOMAIN bs[i] : r = bs[i][j]
  BY DEF Within
<1>2. i # 1
  BY <1>0, <1>1 DEF ToSet
<1>3. i \in 2 .. Len(bs) /\ Len(bs) > 1
  BY <1>0, <1>1, <1>2
<1>4. i - 1 \in DOMAIN Tail(bs) /\ Tail(bs)[i - 1] = bs[i]
  BY <1>3, Tails
<1>5. Within(r, Tail(bs))
  BY <1>1, <1>4 DEF Within
<1> QED BY <1>3, <1>5

\* Send: a batch that is taken moves its resources from what is to be sent to
\* what is stored; the last one completes the catalog.
LEMMA PushKeeps == ASSUME CrawlInv, NEW t \in Ticks, Push(t) PROVE CrawlInv'
<1> DEFINE n == Head(nets[t])
           d == Head(page[t].docs)
           bs == batches[t]
           E == [catalog : Catalogs, res : Seq(Resources)]
<1>0. /\ CrawlTypeOK /\ running /\ pc[t] = "push" /\ Walking(t) /\ InHand(t) /\ Sending(t)
      /\ page[t].docs # <<>> /\ page[t].docs \in Seq(Docs(n.id)) /\ bs # <<>>
      /\ UNCHANGED <<nets, at, gave, offset, running, last, clock, walked>>
  BY DEF CrawlInv, OnePassAtATime, Push, InHand, Sending
<1>1. /\ d \in E
      /\ Dealt(t) => page'[t].docs \in Seq(Docs(n.id)) /\ page' \in [Ticks -> PageOf(Seq(E))]
  BY <1>0, DealtKeeps
<1>2. copies' = copies \/ copies' = Stored(t)
  BY Zenon DEF Push, Stored
<1>3. /\ copies' \in [Catalogs -> [held : SUBSET Resources, until : Nat, gave : Nat]]
      /\ \A c \in CatalogsOf(n.id) : copies'[c].until <= Expires(t)
      /\ EndsInTime' /\ CopiesPermitted'
      /\ \A c \in Catalogs : /\ copies[c].held \subseteq copies'[c].held
                             /\ copies[c].until <= copies'[c].until
  BY <1>0, <1>2, StoredKeeps
<1>4. bs \in Seq(Seq(Resources)) /\ Len(bs) \in Nat \ {0} /\ Head(bs) = bs[1]
  BY <1>0 DEF CrawlTypeOK, PassTypeOK
<1>5. Expires(t) \in Nat /\ Expires(t)' = Expires(t)
  <2>1. n.ttl \in Nat
    BY <1>0, NetworkIsSource DEF Walking
  <2>2. at[t] \in Nat
    BY <1>0 DEF CrawlTypeOK, PassTypeOK
  <2> QED BY <1>0, <2>1, <2>2 DEF Expires
<1>6. pc'[t] \in {"page", "push"} => Walking(t)'
  BY <1>0, <1>3, <1>5 DEF Walking
<1>7. faults' \in Nat
  BY <1>0 DEF Push, CrawlTypeOK, SharedTypeOK
<1>8. FlagsOK'
  <2>1. \/ refused' = refused
        \/ \E b \in BOOLEAN : refused' = [refused EXCEPT ![t] = b]
    BY Zenon DEF Push
  <2>2. \E b \in BOOLEAN : lossy' = [lossy EXCEPT ![t] = b]
    BY Zenon DEF Push
  <2> QED BY <1>0, <2>1, <2>2 DEF CrawlTypeOK, FlagsOK
<1>9. batches' \in [Ticks -> Seq(Seq(Resources))]
  <2>1. Tail(bs) \in Seq(Seq(Resources))
    BY <1>0, <1>4
  <2>2. batches' = batches \/ batches' = [batches EXCEPT ![t] = Tail(bs)]
    BY Zenon DEF Push
  <2> QED BY <1>0, <2>1, <2>2 DEF CrawlTypeOK, PassTypeOK
<1> HIDE DEF E
\* The catalog is over, and not reported done.
<1>10. CASE Dealt(t) /\ Goto(t, "page") /\ accepted' = accepted
  <2>1. pc'[t] = "page" /\ CrawlTypeOK'
    <3>1. pc'[t] = "page" /\ PassTypeOK'
      BY <1>0, <1>1, <1>9, <1>10, Gone DEF E, CrawlTypeOK, PassTypeOK
    <3>2. SharedTypeOK'
      BY <1>0, <1>3, <1>7, <1>10 DEF CrawlTypeOK, SharedTypeOK
    <3> QED BY <1>8, <3>1, <3>2 DEF CrawlTypeOK
  <2>2. Walking(t)' /\ InHand(t)' /\ Sending(t)'
    BY <1>0, <1>1, <1>6, <1>10, <2>1 DEF InHand, Sending
  <2>3. OnePassAtATime' /\ \A u \in Ticks : Walking(u)' /\ InHand(u)' /\ Sending(u)'
    BY <1>0, <1>10, <2>1, <2>2, PassKept
  <2>4. AcceptedIsStored'
    BY <1>3, <1>10, AcceptedKept
  <2> QED BY <1>3, <2>1, <2>3, <2>4 DEF CrawlInv
\* There are batches left, or the catalog is reported done.
<1>11. CASE \E a \in Answers :
               /\ copies' = IF Stores(a) THEN Stored(t) ELSE copies
               /\ refused' = [refused EXCEPT ![t] = refused[t] \/ ~Acked(a)]
               /\ batches' = [batches EXCEPT ![t] = Tail(bs)]
               /\ \/ Len(bs) > 1 /\ UNCHANGED <<pc, page, accepted>>
                  \/ /\ ~(Len(bs) > 1) /\ Dealt(t) /\ Goto(t, "page") /\ ~refused'[t]
                     /\ accepted' = accepted \cup {[catalog |-> d.catalog, res |-> ToSet(d.res),
                                                    until |-> Expires(t)]}
  <2>1. PICK a \in Answers :
               /\ copies' = IF Stores(a) THEN Stored(t) ELSE copies
               /\ refused' = [refused EXCEPT ![t] = refused[t] \/ ~Acked(a)]
               /\ batches' = [batches EXCEPT ![t] = Tail(bs)]
               /\ \/ Len(bs) > 1 /\ UNCHANGED <<pc, page, accepted>>
                  \/ /\ ~(Len(bs) > 1) /\ Dealt(t) /\ Goto(t, "page") /\ ~refused'[t]
                     /\ accepted' = accepted \cup {[catalog |-> d.catalog, res |-> ToSet(d.res),
                                                    until |-> Expires(t)]}
    BY <1>11, Zenon
  <2>2. ~refused'[t] => ~refused[t] /\ Acked(a)
    BY <1>0, <2>1, Zenon DEF CrawlTypeOK, FlagsOK
  <2>3. ~refused'[t] => copies' = Stored(t) /\ ~refused[t]
    BY <2>1, <2>2, AckedIsStored
  <2>4. d.catalog \in Catalogs /\ d.res \in Seq(Resources)
    BY <1>1 DEF E
  <2>5. copies' = Stored(t) => /\ copies'[d.catalog].held = copies[d.catalog].held \cup ToSet(Head(bs))
                               /\ copies'[d.catalog].until = Expires(t)
    BY <1>0, <2>4 DEF Stored, Merged, CrawlTypeOK, SharedTypeOK
  <2>6. \A r \in ToSet(d.res) : ~refused[t] => r \in copies[d.catalog].held \/ Within(r, bs)
    BY <1>0 DEF Sending
  <2>7. batches'[t] = Tail(bs)
    BY <1>0, <2>1 DEF CrawlTypeOK, PassTypeOK
  <2>8. \A r : Within(r, bs) => r \in ToSet(Head(bs)) \/ (Len(bs) > 1 /\ Within(r, Tail(bs)))
    BY <1>0, <1>4, WithinTail
  <2>9. CASE Len(bs) > 1 /\ UNCHANGED <<pc, page, accepted>>
    <3>1. CrawlTypeOK'
      <4>1. PassTypeOK'
        BY <1>0, <1>9, <2>9 DEF CrawlTypeOK, PassTypeOK
      <4>2. SharedTypeOK'
        BY <1>0, <1>3, <1>7, <2>9 DEF CrawlTypeOK, SharedTypeOK
      <4> QED BY <1>8, <4>1, <4>2 DEF CrawlTypeOK
    <3>2. Goto(t, "push") /\ pc'[t] = "push"
      BY <1>0, <2>9 DEF Goto, CrawlTypeOK, PassTypeOK
    <3>3. InHand(t)'
      BY <1>0, <2>9 DEF InHand
    <3>4. Sending(t)'
      <4>1. Tail(bs) # <<>>
        BY <1>4, <2>9, Tails
      <4>2. ASSUME ~refused'[t], NEW r \in ToSet(d.res)
            PROVE  r \in copies'[d.catalog].held \/ Within(r, Tail(bs))
        BY <2>3, <2>5, <2>6, <2>8, <4>2
      <4> QED BY <1>0, <2>7, <2>9, <4>1, <4>2 DEF Sending
    <3>5. OnePassAtATime' /\ \A u \in Ticks : Walking(u)' /\ InHand(u)' /\ Sending(u)'
      BY <1>0, <1>6, <3>2, <3>3, <3>4, PassKept
    <3>6. AcceptedIsStored'
      BY <1>3, <2>9, AcceptedKept
    <3> QED BY <1>3, <3>1, <3>5, <3>6 DEF CrawlInv
  <2>10. CASE /\ ~(Len(bs) > 1) /\ Dealt(t) /\ Goto(t, "page") /\ ~refused'[t]
              /\ accepted' = accepted \cup {[catalog |-> d.catalog, res |-> ToSet(d.res),
                                             until |-> Expires(t)]}
    <3> DEFINE new == [catalog |-> d.catalog, res |-> ToSet(d.res), until |-> Expires(t)]
    <3>1. /\ new \in [catalog : Catalogs, res : SUBSET Resources, until : Nat]
          /\ new.catalog = d.catalog /\ new.res = ToSet(d.res) /\ new.until = Expires(t)
      BY <1>5, <2>4 DEF ToSet
    <3>2. accepted' = accepted \cup {new}
      BY <2>10
    <3> HIDE DEF new
    <3>3. pc'[t] = "page" /\ CrawlTypeOK'
      <4>1. pc'[t] = "page" /\ PassTypeOK'
        BY <1>0, <1>1, <1>9, <2>10, Gone DEF E, CrawlTypeOK, PassTypeOK
      <4>2. SharedTypeOK'
        BY <1>0, <1>3, <1>7, <3>1, <3>2 DEF CrawlTypeOK, SharedTypeOK
      <4> QED BY <1>8, <4>1, <4>2 DEF CrawlTypeOK
    <3>4. Walking(t)' /\ InHand(t)' /\ Sending(t)'
      BY <1>0, <1>1, <1>6, <2>10, <3>3 DEF InHand, Sending
    <3>5. OnePassAtATime' /\ \A u \in Ticks : Walking(u)' /\ InHand(u)' /\ Sending(u)'
      BY <1>0, <2>10, <3>3, <3>4, PassKept
    <3>6. new.res \subseteq copies'[new.catalog].held /\ copies'[new.catalog].until >= new.until
      <4>1. ASSUME NEW r \in ToSet(d.res) PROVE r \in copies'[d.catalog].held
        BY <2>3, <2>5, <2>6, <2>8, <2>10
      <4> QED BY <1>5, <2>3, <2>5, <2>10, <3>1, <4>1
    <3>7. AcceptedIsStored'
      <4> SUFFICES ASSUME NEW b \in accepted
                   PROVE  /\ b.res \subseteq copies'[b.catalog].held
                          /\ copies'[b.catalog].until >= b.until
        BY <3>2, <3>6 DEF AcceptedIsStored
      <4>1. b \in [catalog : Catalogs, res : SUBSET Resources, until : Nat]
        BY <1>0 DEF CrawlTypeOK, SharedTypeOK
      <4>2. b.res \subseteq copies[b.catalog].held /\ copies[b.catalog].until >= b.until
        BY DEF CrawlInv, AcceptedIsStored
      <4>3. b.catalog \in Catalogs /\ b.until \in Nat
        BY <4>1
      <4>4. copies[b.catalog].until \in Nat /\ copies'[b.catalog].until \in Nat
        BY <1>0, <1>3, <4>3 DEF CrawlTypeOK, SharedTypeOK
      <4> QED BY <1>3, <4>2, <4>3, <4>4
    <3> QED BY <1>3, <3>3, <3>5, <3>7 DEF CrawlInv
  <2> QED BY <2>1, <2>9, <2>10
<1> QED BY <1>10, <1>11, Zenon DEF Push, Stored

-----------------------------------------------------------------------------
(* What is proved of the crawl.                                            *)

LEMMA CrawlInvKept == CrawlInv /\ [CrawlNext]_crawlVars => CrawlInv'
<1> SUFFICES ASSUME CrawlInv, [CrawlNext]_crawlVars PROVE CrawlInv'
  OBVIOUS
<1>1. CASE UNCHANGED crawlVars
  BY <1>1 DEF crawlVars, passVars, CrawlInv, CrawlTypeOK, PassTypeOK, FlagsOK, SharedTypeOK,
              OnePassAtATime, Walking, InHand, Sending, EndsInTime, CopiesPermitted,
              AcceptedIsStored, Expires
<1>2. CASE Advance
  BY <1>2, AdvanceKeeps
<1>3. ASSUME NEW t \in Ticks, Claim(t) \/ Step(t) PROVE CrawlInv'
  BY <1>3, ClaimKeeps, ListKeeps, TurnKeeps, AskKeeps, TurnedKeeps, PublishKeeps, PushKeeps,
     ReleaseKeeps DEF Step
<1> QED BY <1>1, <1>2, <1>3 DEF CrawlNext

\* The strengthened invariant holds of every crawl.
THEOREM CrawlInvariant == CrawlSpec => []CrawlInv
<1> QED BY CrawlStarts, CrawlInvKept, PTL DEF CrawlSpec

\* Two passes never run at once (networkCrawl.claim), whatever ticks come.
THEOREM CrawlOnePass == CrawlSpec => []OnePassAtATime
<1>1. CrawlInv => OnePassAtATime
  BY DEF CrawlInv
<1> QED BY <1>1, CrawlInvariant, PTL

\* Our discovery holds copies only of networks we agreed to read from, and none
\* longer after the network gave it than the network permits
\* (crawlableNetworks, publishPage), whatever the networks answer and however
\* slow the walk.
THEOREM CrawlCopiesPermitted == CrawlSpec => []CopiesPermitted
<1>1. CrawlInv => CopiesPermitted
  BY DEF CrawlInv
<1> QED BY <1>1, CrawlInvariant, PTL

\* A catalog reported as published is stored whole and until the time it was
\* stamped with (BatchCatalog, Send, verdict), for any sizes and any budget.
THEOREM CrawlAcceptedStored == CrawlSpec => []AcceptedIsStored
<1>1. CrawlInv => AcceptedIsStored
  BY DEF CrawlInv
<1> QED BY <1>1, CrawlInvariant, PTL

-----------------------------------------------------------------------------
(* What is left of a catalog.                                              *)

\* The batches left are an end of the catalog, all of it before the first is
\* sent; bs is what is left of rs.
EndOf(bs, rs) ==
    /\ \E p \in Seq(Resources) : rs = p \o FlattenSeq(bs)
    /\ Len(bs) <= Len(BatchCatalog(rs))
    /\ Len(bs) = Len(BatchCatalog(rs)) => FlattenSeq(bs) = rs
    /\ MaxDocBytes > 0 => Fits(bs, Len(bs) = Len(BatchCatalog(rs)))

Cut(t) == pc[t] = "push" => EndOf(batches[t], Head(page[t].docs).res)

LEMMA WholeIsEnd ==
    ASSUME NEW rs \in Seq(Resources) PROVE EndOf(BatchCatalog(rs), rs)
<1>1. /\ BatchCatalog(rs) \in Batches /\ FlattenSeq(BatchCatalog(rs)) = rs
      /\ MaxDocBytes > 0 => Fits(BatchCatalog(rs), TRUE)
  BY BatchCatalogCovers
<1>2. <<>> \in Seq(Resources) /\ rs = <<>> \o rs
  OBVIOUS
<1>3. \E p \in Seq(Resources) : rs = p \o FlattenSeq(BatchCatalog(rs))
  BY <1>1, <1>2, Zenon
<1>4. Len(BatchCatalog(rs)) \in Nat
  BY <1>1 DEF Batches
<1>5. Len(BatchCatalog(rs)) <= Len(BatchCatalog(rs))
  BY <1>4
<1> DEFINE all == Len(BatchCatalog(rs)) = Len(BatchCatalog(rs))
<1>6. all = TRUE
  OBVIOUS
<1> QED BY <1>1, <1>3, <1>5, <1>6, Zenon DEF EndOf

LEMMA TailIsEnd ==
    ASSUME NEW rs \in Seq(Resources), NEW bs \in Seq(Seq(Resources)), bs # <<>>, EndOf(bs, rs)
    PROVE  EndOf(Tail(bs), rs)
<1> DEFINE c == Tail(bs)
           h == Head(bs)
           f == FlattenSeq(c)
           n == Len(BatchCatalog(rs))
<1>1. c \in Seq(Seq(Resources)) /\ Len(c) = Len(bs) - 1 /\ Len(bs) \in Nat \ {0}
  OBVIOUS
<1>2. h \in Seq(Resources)
  OBVIOUS
<1>3. FlattenSeq(bs) = h \o f
  BY FlattenHead, Zenon
<1>4. f \in Seq(Resources)
  <2> HIDE DEF c
  <2> QED BY <1>1, FlattenType
<1>5. PICK p \in Seq(Resources) : rs = p \o FlattenSeq(bs)
  BY Zenon DEF EndOf
<1>6. n \in Nat
  BY BatchCatalogCovers DEF Batches
<1>7. Len(c) < n
  <2> HIDE DEF c, n
  <2>1. Len(bs) <= n
    BY DEF EndOf, n
  <2> QED BY <1>1, <1>6, <2>1
<1>8. \E q \in Seq(Resources) : rs = q \o f
  <2> HIDE DEF h, f
  <2>1. p \o h \in Seq(Resources)
    BY <1>2
  <2>2. p \o (h \o f) = (p \o h) \o f
    BY <1>2, <1>4, SMTT(30)
  <2> QED BY <1>3, <1>5, <2>1, <2>2, Zenon
<1>9. ASSUME NEW whole, Fits(bs, whole) PROVE Fits(c, FALSE)
  <2>1. DOMAIN bs = 1 .. Len(bs) /\ DOMAIN c = 1 .. (Len(bs) - 1)
    BY <1>1
  <2>2. \A i \in 1 .. (Len(bs) - 1) : c[i] = bs[i + 1]
    BY <1>1
  <2> HIDE DEF c
  <2>3. ASSUME NEW i \in 1 .. (Len(bs) - 1) PROVE i + 1 \in DOMAIN bs /\ i + 1 # 1
    BY <1>1, <2>1
  <2> QED BY <1>9, <2>1, <2>2, <2>3 DEF Fits
<1>10. Len(c) <= n /\ Len(c) # n
  <2> HIDE DEF c, n
  <2> QED BY <1>1, <1>6, <1>7
<1>11. MaxDocBytes > 0 => Fits(c, Len(c) = n)
  <2>1. (Len(c) = n) = FALSE
    BY <1>10
  <2>2. MaxDocBytes > 0 => Fits(c, FALSE)
    BY <1>9, Zenon DEF EndOf
  <2> QED BY <2>1, <2>2, Zenon
<1> QED BY <1>8, <1>10, <1>11, Zenon DEF EndOf

\* A step of one pass does not touch what another has in hand, and only publishing
\* and pushing go to "push".
LEMMA CutKept ==
    ASSUME CrawlInv, \A t \in Ticks : Cut(t), [CrawlNext]_crawlVars
    PROVE  \A t \in Ticks : Cut(t)'
<1> SUFFICES ASSUME NEW t \in Ticks, pc'[t] = "push"
             PROVE  EndOf(batches'[t], Head(page'[t].docs).res)
  BY DEF Cut, EndOf
<1>0. CrawlTypeOK
  BY DEF CrawlInv
<1>a. CASE pc[t] = "push" /\ page'[t] = page[t] /\ batches'[t] = batches[t]
  BY <1>a DEF Cut
<1>1. CASE UNCHANGED <<pc, page, batches>>
  BY <1>1, <1>a
<1>2. ASSUME NEW u \in Ticks, Claim(u) \/ Step(u), u # t
      PROVE  pc[t] = "push" /\ page'[t] = page[t] /\ batches'[t] = batches[t]
  <2>1. pc'[t] = pc[t]
    <3>1. pc' = pc \/ \E l : Goto(u, l)
      BY <1>2, Zenon DEF Claim, Step, List, Turn, Ask, Turned, Publish, Push, Release
    <3> QED BY <1>0, <1>2, <3>1 DEF Goto, CrawlTypeOK, PassTypeOK
  <2>2. page'[t] = page[t]
    <3>1. page' = page \/ Dealt(u) \/ \E x : page' = [page EXCEPT ![u] = x]
      BY <1>2, Zenon DEF Claim, Step, List, Turn, Ask, Turned, Publish, Push, Release, passVars
    <3> QED BY <1>0, <1>2, <3>1 DEF Dealt, CrawlTypeOK, PassTypeOK
  <2>3. batches'[t] = batches[t]
    <3>1. batches' = batches \/ \E x : batches' = [batches EXCEPT ![u] = x]
      BY <1>2, Zenon DEF Claim, Step, List, Turn, Ask, Turned, Publish, Push, Release, passVars
    <3> QED BY <1>0, <1>2, <3>1 DEF CrawlTypeOK, PassTypeOK
  <2> QED BY <2>1, <2>2, <2>3
<1>3. CASE Claim(t) \/ List(t) \/ Turn(t) \/ Ask(t) \/ Turned(t) \/ Release(t)
  <2>1. \/ pc' = pc /\ pc[t] # "push"
        \/ \E l \in {"idle", "list", "network", "ask", "page", "release"} : Goto(t, l)
    BY <1>3 DEF Claim, List, Turn, Ask, Turned, Release
  <2> QED BY <1>0, <2>1, Gone
<1>4. CASE Publish(t)
  <2> DEFINE d == Head(page[t].docs)
  <2>1. d.res \in Seq(Resources)
    <3>1. page[t].docs # <<>> /\ page[t].docs \in Seq(Docs(Head(nets[t]).id))
      BY <1>4 DEF Publish, CrawlInv, InHand
    <3>2. d \in [catalog : Catalogs, res : Seq(Resources)]
      BY <1>0, <3>1, DealtKeeps
    <3> QED BY <3>2
  <2>2. batches' = [batches EXCEPT ![t] = BatchCatalog(d.res)] /\ page' = page
    <3>1. pc' # pc
      BY <1>4 DEF Publish
    <3> QED BY <1>4, <3>1 DEF Publish
  <2>3. batches'[t] = BatchCatalog(d.res)
    BY <1>0, <2>2 DEF CrawlTypeOK, PassTypeOK
  <2> QED BY <2>1, <2>2, <2>3, WholeIsEnd
<1>5. CASE Push(t)
  <2> DEFINE d == Head(page[t].docs)
  <2>1. /\ batches[t] \in Seq(Seq(Resources)) /\ batches[t] # <<>> /\ pc[t] = "push"
        /\ EndOf(batches[t], d.res)
    BY <1>0, <1>5 DEF Push, CrawlInv, Sending, CrawlTypeOK, PassTypeOK, Cut
  <2>2. d.res \in Seq(Resources)
    <3>1. page[t].docs # <<>> /\ page[t].docs \in Seq(Docs(Head(nets[t]).id))
      BY <2>1 DEF CrawlInv, InHand, Sending
    <3>2. d \in [catalog : Catalogs, res : Seq(Resources)]
      BY <1>0, <3>1, DealtKeeps
    <3> QED BY <3>2
  <2>3. page' = page /\ batches' = [batches EXCEPT ![t] = Tail(batches[t])]
    <3>1. ~Goto(t, "page")
      BY <1>0, Gone
    <3> QED BY <1>5, <3>1, Zenon DEF Push
  <2>4. batches'[t] = Tail(batches[t])
    BY <1>0, <2>3 DEF CrawlTypeOK, PassTypeOK
  <2> QED BY <2>1, <2>2, <2>3, <2>4, TailIsEnd
<1>6. CASE Advance
  BY <1>1, <1>6 DEF Advance, passVars
<1>7. CASE UNCHANGED crawlVars
  BY <1>1, <1>7 DEF crawlVars, passVars
<1>8. CASE \E u \in Ticks : Claim(u) \/ Step(u)
  <2>1. PICK u \in Ticks : Claim(u) \/ Step(u)
    BY <1>8
  <2>2. CASE u # t
    BY <1>2, <1>a, <2>1, <2>2
  <2>3. CASE u = t
    BY <1>3, <1>4, <1>5, <2>1, <2>3 DEF Step
  <2> QED BY <2>2, <2>3
<1> QED BY <1>6, <1>7, <1>8 DEF CrawlNext

\* What is left of a catalog adds up (BatchCatalog, Send): the batches left are
\* an end of the catalog's resources, each once and in order, and a document with
\* more than one, the lead's offers included, is over the budget by no more than
\* the frame, for any sizes, any budget and any catalog.
THEOREM CrawlBatchesAddUp == CrawlSpec => []BatchesAddUp
<1> DEFINE Inv == CrawlInv /\ \A t \in Ticks : Cut(t)
<1>1. CrawlInit => Inv
  BY CrawlStarts DEF CrawlInit, Cut
<1>2. Inv /\ [CrawlNext]_crawlVars => Inv'
  BY CrawlInvKept, CutKept
<1>3. Inv => BatchesAddUp
  <2> SUFFICES ASSUME Inv, NEW t \in Ticks, pc[t] = "push"
               PROVE  LET rs == Head(page[t].docs).res
                          bs == batches[t]
                          whole == Len(bs) = Len(BatchCatalog(rs))
                      IN  /\ bs # <<>> /\ IsSuffix(FlattenSeq(bs), rs)
                          /\ (whole => FlattenSeq(bs) = rs)
                          /\ \A i \in DOMAIN bs :
                                Len(bs[i]) > 1 /\ MaxDocBytes > 0 =>
                                    DocBytes(bs[i], whole /\ i = 1) <= MaxDocBytes + Frame
    BY Zenon DEF BatchesAddUp
  <2> DEFINE rs == Head(page[t].docs).res
             bs == batches[t]
             whole == Len(bs) = Len(BatchCatalog(rs))
  <2>1. EndOf(bs, rs) /\ bs # <<>> /\ bs \in Seq(Seq(Resources))
    BY DEF Cut, CrawlInv, Sending, CrawlTypeOK, PassTypeOK
  <2> HIDE DEF rs, bs
  <2>2. FlattenSeq(bs) \in Seq(Resources)
    BY <2>1, FlattenType
  <2>3. IsSuffix(FlattenSeq(bs), rs)
    <3> DEFINE q == FlattenSeq(bs)
    <3>1. PICK p \in Seq(Resources) : rs = p \o q
      BY <2>1, Zenon DEF EndOf
    <3> HIDE DEF q
    <3>2. IsSuffix(q, p \o q)
      BY <2>2, SuffixOfConcat DEF q
    <3> QED BY <3>1, <3>2, Zenon DEF q
  <2>4. \A i \in DOMAIN bs :
           Len(bs[i]) > 1 /\ MaxDocBytes > 0 =>
               DocBytes(bs[i], whole /\ i = 1) <= MaxDocBytes + Frame
    BY <2>1, Zenon DEF EndOf, Fits
  <2>5. Len(bs) = Len(BatchCatalog(rs)) => FlattenSeq(bs) = rs
    BY <2>1, Zenon DEF EndOf
  <2> QED BY <2>1, <2>3, <2>4, <2>5, Zenon DEF rs, bs
<1> HIDE DEF Inv
<1> QED BY <1>1, <1>2, <1>3, PTL DEF CrawlSpec

-----------------------------------------------------------------------------
(* What a walk collects.                                                   *)

\* Where a network that counts one way has each of its resources (Countable).
Place(n) ==
    CHOOSE place \in [DOMAIN Holdings[n] -> 1 .. (MaxOffset + PageSize + 1)] :
        \A o \in 0 .. MaxOffset : Counts(place, Pages[n][o], n, o)

\* The i-th resource of n is in our discovery, or its catalog has no id; a
\* catalog as a page has it is.
Arrived(n, i) ==
    Holdings[n][i].catalog \notin Nameless
        => Holdings[n][i].res \in copies[Holdings[n][i].catalog].held
There(d) == d.catalog \notin Nameless => ToSet(d.res) \subseteq copies[d.catalog].held

\* Everything of a countable network up to place o has arrived; of page p,
\* everything but ds is there.
Past(n, o) ==
    n \in Countable => \A i \in DOMAIN Holdings[n] : Place(n)[i] <= o => Arrived(n, i)
DownTo(p, ds) ==
    \A k \in DOMAIN p.docs : There(p.docs[k]) \/ \E j \in DOMAIN ds : ds[j] = p.docs[k]

\* Of a walk without loss: what lies before its offset has arrived, what it has
\* in hand is what is left of the page at its offset, and of the catalog under
\* way what is not stored is still to be sent.
Walked(t) ==
    pc[t] \in {"ask", "page", "push"} /\ ~lossy[t] => Past(Head(nets[t]).id, offset[t])
Reading(t) ==
    pc[t] \in {"page", "push"} /\ ~lossy[t] =>
        /\ page[t] = [Pages[Head(nets[t]).id][offset[t]] EXCEPT !.docs = page[t].docs]
        /\ DownTo(Pages[Head(nets[t]).id][offset[t]], page[t].docs)
Pushing(t) ==
    pc[t] = "push" /\ ~lossy[t] =>
        \A r \in ToSet(Head(page[t].docs).res) :
            r \in copies[Head(page[t].docs).catalog].held \/ Within(r, batches[t])

WalkInv == (\A t \in Ticks : Walked(t) /\ Reading(t) /\ Pushing(t)) /\ WalkCollectsAll

LEMMA Places ==
    ASSUME NEW n \in Countable
    PROVE  /\ \A i \in DOMAIN Holdings[n] : Place(n)[i] \in Nat \ {0}
           /\ \A o \in 0 .. MaxOffset : Counts(Place(n), Pages[n][o], n, o)
<1> DEFINE F == [DOMAIN Holdings[n] -> 1 .. (MaxOffset + PageSize + 1)]
           P(f) == \A o \in 0 .. MaxOffset : Counts(f, Pages[n][o], n, o)
<1>1. \E f \in F : P(f)
  BY DEF Countable
<1>2. Place(n) = CHOOSE f \in F : P(f)
  BY DEF Place
<1> HIDE DEF P
<1>3. Place(n) \in F /\ P(Place(n))
  BY <1>1, <1>2
<1>4. \A x \in 1 .. (MaxOffset + PageSize + 1) : x \in Nat \ {0}
  BY NetworkCrawlAssumption
<1> QED BY <1>3, <1>4 DEF P

\* What a network holds, and what its pages have, is of our catalogs.
LEMMA PageCatalogs ==
    ASSUME NEW n \in DOMAIN Holdings
    PROVE  /\ \A i \in DOMAIN Holdings[n] : Holdings[n][i].catalog \in Catalogs
           /\ \A o \in 0 .. MaxOffset :
                 /\ Pages[n][o] \in PageOf(Seq(Docs(n))) /\ Pages[n][o].docs \in Seq(Docs(n))
                 /\ \A k \in DOMAIN Pages[n][o].docs : Pages[n][o].docs[k].catalog \in Catalogs
<1>1. CatalogsOf(n) \subseteq Catalogs
  BY DEF Catalogs
<1>2. ASSUME NEW i \in DOMAIN Holdings[n] PROVE Holdings[n][i].catalog \in Catalogs
  BY <1>1 DEF CatalogsOf, ToSet
<1>3. ASSUME NEW o \in 0 .. MaxOffset
      PROVE  /\ Pages[n][o] \in PageOf(Seq(Docs(n))) /\ Pages[n][o].docs \in Seq(Docs(n))
             /\ \A k \in DOMAIN Pages[n][o].docs : Pages[n][o].docs[k].catalog \in Catalogs
  <2>1. Pages[n][o] \in PageOf(Seq(Docs(n)))
    BY PagesAssumption
  <2> DEFINE ds == Pages[n][o].docs
  <2>2. ds \in Seq(Docs(n))
    BY <2>1 DEF PageOf
  <2> HIDE DEF ds
  <2>3. \A k \in DOMAIN ds : ds[k] \in Docs(n)
    BY <2>2
  <2>4. \A k \in DOMAIN ds : ds[k].catalog \in Catalogs
    BY <1>1, <2>3 DEF Docs
  <2> QED BY <2>1, <2>2, <2>4 DEF ds
<1> QED BY <1>2, <1>3

\* Our discovery drops nothing: every batch is merged.
LEMMA HeldGrows ==
    ASSUME CrawlInv, [CrawlNext]_crawlVars
    PROVE  \A c \in Catalogs : copies[c].held \subseteq copies'[c].held
<1>1. CASE UNCHANGED copies
  BY <1>1
<1>2. ASSUME NEW t \in Ticks, Push(t)
      PROVE  \A c \in Catalogs : copies[c].held \subseteq copies'[c].held
  <2>1. copies' = copies \/ copies' = Stored(t)
    BY <1>2, Zenon DEF Push, Stored
  <2> QED BY <1>2, <2>1, StoredKeeps DEF Push
<1> QED BY <1>1, <1>2 DEF CrawlNext, Advance, Claim, Step, List, Turn, Ask, Turned, Publish,
                         Release, crawlVars

\* So what has arrived stays.
LEMMA ArrivedStays ==
    ASSUME CrawlInv, [CrawlNext]_crawlVars, NEW n \in DOMAIN Holdings
    PROVE  /\ \A i \in DOMAIN Holdings[n] : Arrived(n, i) => Arrived(n, i)'
           /\ \A o : Past(n, o) /\ n \in Countable =>
                 \A i \in DOMAIN Holdings[n] : Place(n)[i] <= o => Arrived(n, i)'
           /\ \A d : d.catalog \in Catalogs /\ There(d) =>
                 (d.catalog \notin Nameless => ToSet(d.res) \subseteq copies'[d.catalog].held)
<1>1. \A c \in Catalogs : copies[c].held \subseteq copies'[c].held
  BY HeldGrows
<1>2. ASSUME NEW i \in DOMAIN Holdings[n], Arrived(n, i) PROVE Arrived(n, i)'
  BY <1>1, <1>2, PageCatalogs DEF Arrived
<1>3. ASSUME NEW d, d.catalog \in Catalogs, There(d), d.catalog \notin Nameless
      PROVE  ToSet(d.res) \subseteq copies'[d.catalog].held
  BY <1>1, <1>3 DEF There
<1> QED BY <1>2, <1>3 DEF Past

\* While one pass makes a step no other is under way.
LEMMA Alone ==
    ASSUME CrawlInv, NEW t \in Ticks, NEW u \in Ticks, Claim(u) \/ Step(u), t # u
    PROVE  pc'[t] = "idle"
<1>0. CrawlTypeOK /\ OnePassAtATime
  BY DEF CrawlInv
<1>1. pc[t] = "idle"
  <2>1. CASE Claim(u)
    BY <1>0, <2>1 DEF Claim, Free, OnePassAtATime
  <2>2. CASE Step(u)
    <3>1. pc[u] # "idle"
      BY <2>2 DEF Step, List, Turn, Ask, Turned, Publish, Push, Release
    <3> QED BY <1>0, <3>1 DEF OnePassAtATime
  <2> QED BY <2>1, <2>2
<1>2. pc' = pc \/ \E l : Goto(u, l)
  BY Zenon DEF Claim, Step, List, Turn, Ask, Turned, Publish, Push, Release
<1> QED BY <1>0, <1>1, <1>2 DEF Goto, CrawlTypeOK, PassTypeOK

\* The first of a page's catalogs is dealt with, the others are still there.
LEMMA Dropped ==
    ASSUME NEW S, NEW s \in Seq(S), s # <<>>, NEW j \in DOMAIN s
    PROVE  s[j] = Head(s) \/ \E i \in DOMAIN Tail(s) : Tail(s)[i] = s[j]
<1>1. Len(s) \in Nat /\ j \in 1 .. Len(s)
  OBVIOUS
<1>2. CASE j = 1
  BY <1>2
<1>3. CASE j # 1
  <2>1. Len(s) > 1 /\ j \in 2 .. Len(s)
    BY <1>1, <1>3
  <2>2. j - 1 \in DOMAIN Tail(s) /\ Tail(s)[j - 1] = s[j]
    BY <2>1, Tails
  <2> QED BY <2>2
<1> QED BY <1>2, <1>3

\* Asking: the page is all to be read.
LEMMA AskCollects ==
    ASSUME CrawlInv, WalkInv, NEW t \in Ticks, Ask(t)
    PROVE  Walked(t)' /\ Reading(t)' /\ Pushing(t)'
<1> DEFINE n == Head(nets[t]).id
           p == Pages[n][offset[t]]
<1>0. /\ CrawlTypeOK /\ Walked(t) /\ pc[t] = "ask" /\ lossy' = lossy /\ copies' = copies
      /\ offset' = offset
  BY DEF CrawlInv, WalkInv, Ask
<1>1. CASE pc'[t] = "network"
  BY <1>1 DEF Walked, Reading, Pushing
<1>2. CASE page' = [page EXCEPT ![t] = p] /\ Goto(t, "page") /\ nets' = nets
  <2>1. pc'[t] = "page" /\ page'[t] = p
    BY <1>0, <1>2, Gone DEF CrawlTypeOK, PassTypeOK
  <2>2. Walked(t)'
    BY <1>0, <1>2, <2>1 DEF Walked, Past, Arrived
  <2>3. p = [p EXCEPT !.docs = p.docs]
    <3>1. n \in DOMAIN Holdings /\ offset[t] \in 0 .. MaxOffset
      BY <1>0, NetworkIsSource DEF CrawlInv, Walking, CrawlTypeOK, PassTypeOK
    <3>2. p \in PageOf(Seq(Docs(n)))
      BY <3>1, PageCatalogs
    <3> QED BY <3>2 DEF PageOf
  <2>4. Reading(t)'
    <3> HIDE DEF p
    <3>1. \A k \in DOMAIN p.docs : \E j \in DOMAIN p.docs : p.docs[j] = p.docs[k]
      OBVIOUS
    <3> QED BY <1>0, <1>2, <2>1, <2>3, <3>1, Zenon DEF Reading, DownTo, p
  <2>5. Pushing(t)'
    BY <2>1 DEF Pushing
  <2> QED BY <2>2, <2>4, <2>5
<1>3. Goto(t, "network") => pc'[t] = "network"
  BY <1>0, Gone
<1> QED BY <1>1, <1>2, <1>3, Zenon DEF Ask

\* The end of a page: with what came before it, everything up to the next offset
\* has arrived, or everything there is (appliedPage.after).
LEMMA PageRead ==
    ASSUME CrawlInv, WalkInv, NEW t \in Ticks, pc[t] = "page", page[t].docs = <<>>, ~lossy[t],
           Head(nets[t]).id \in Countable,
           NEW i \in DOMAIN Holdings[Head(nets[t]).id],
           \/ After(page[t], offset[t]).done
           \/ Place(Head(nets[t]).id)[i] <= After(page[t], offset[t]).next
    PROVE  Arrived(Head(nets[t]).id, i)
<1> DEFINE n == Head(nets[t]).id
           o == offset[t]
           p == Pages[n][o]
           pl == Place(n)[i]
<1>0. CrawlTypeOK /\ Walked(t) /\ Reading(t) /\ Walking(t)
  BY DEF CrawlInv, WalkInv
<1>1. n \in DOMAIN Holdings /\ o \in 0 .. MaxOffset /\ o \in Nat
  <2>1. n \in DOMAIN Holdings
    BY <1>0, NetworkIsSource DEF Walking
  <2>2. o \in 0 .. MaxOffset
    BY <1>0 DEF CrawlTypeOK, PassTypeOK
  <2> QED BY <2>1, <2>2, NetworkCrawlAssumption
<1>2. /\ p.limit \in Int /\ p.offset \in Int /\ p.total \in Int /\ p.returned \in Int
  <2>1. p \in PageOf(Seq(Docs(n)))
    BY <1>1, PageCatalogs
  <2> HIDE DEF p
  <2> QED BY <2>1 DEF PageOf
<1>3. page[t] = [p EXCEPT !.docs = <<>>] /\ DownTo(p, <<>>) /\ Past(n, o)
  BY <1>0 DEF Walked, Reading
<1>4. /\ page[t].limit = p.limit /\ page[t].offset = p.offset /\ page[t].total = p.total
      /\ page[t].returned = p.returned
  <2>1. p \in PageOf(Seq(Docs(n)))
    BY <1>1, PageCatalogs
  <2> HIDE DEF p
  <2> QED BY <1>3, <2>1 DEF PageOf
<1>5. Counts(Place(n), p, n, o) /\ pl \in Nat \ {0}
  BY <1>1, Places
<1>6. ASSUME Shows(p, n, i) PROVE Arrived(n, i)
  <2>1. PICK k \in DOMAIN p.docs : /\ p.docs[k].catalog = Holdings[n][i].catalog
                                   /\ Holdings[n][i].res \in ToSet(p.docs[k].res)
    BY <1>6 DEF Shows
  <2>2. There(p.docs[k])
    <3>1. DOMAIN << >> = {}
      OBVIOUS
    <3> QED BY <1>3, <3>1, Zenon DEF DownTo
  <2> QED BY <2>1, <2>2 DEF There, Arrived
<1>7. ASSUME pl <= o PROVE Arrived(n, i)
  BY <1>3, <1>7 DEF Past
<1> DEFINE a == After(page[t], o)
<1>8. a.done \/ pl <= a.next
  OBVIOUS
<1>9. CASE p.limit > 0
  <2>1. /\ p.offset <= o /\ pl <= p.total
        /\ p.offset < pl /\ pl <= p.offset + p.limit => Shows(p, n, i)
    BY <1>5, <1>9 DEF Counts
  <2>2. a.next = p.offset + p.limit /\ (a.done => p.offset + p.limit >= p.total)
    <3>1. ~(page[t].limit <= 0)
      BY <1>2, <1>4, <1>9
    <3>2. a = [next |-> p.offset + p.limit, done |-> p.offset + p.limit >= p.total]
      BY <1>4, <3>1, Zenon DEF After
    <3> HIDE DEF a, p
    <3> QED BY <3>2
  <2> HIDE DEF a, p, pl
  <2>3. pl <= p.offset + p.limit
    BY <1>2, <1>5, <1>8, <2>1, <2>2
  <2>4. pl <= o \/ p.offset < pl
    BY <1>1, <1>2, <1>5, <2>1
  <2> QED BY <1>6, <1>7, <2>1, <2>3, <2>4
<1>10. CASE ~(p.limit > 0)
  <2>1. /\ o < pl /\ pl <= o + PageSize => Shows(p, n, i)
        /\ p.returned < PageSize => pl <= o + PageSize
    BY <1>5, <1>10 DEF Counts
  <2>2. a.next = o + PageSize /\ (a.done => p.returned < PageSize)
    <3>1. page[t].limit <= 0
      BY <1>2, <1>4, <1>10
    <3>2. a = [next |-> o + PageSize, done |-> p.returned < PageSize]
      BY <1>4, <3>1, Zenon DEF After
    <3> HIDE DEF a, p
    <3> QED BY <3>2
  <2> HIDE DEF a, p, pl
  <2>3. pl <= o + PageSize
    BY <1>8, <2>1, <2>2
  <2>4. pl <= o \/ o < pl
    BY <1>1, <1>5
  <2> QED BY <1>6, <1>7, <2>1, <2>3, <2>4
<1> QED BY <1>9, <1>10

LEMMA TurnedCollects ==
    ASSUME CrawlInv, WalkInv, NEW t \in Ticks, Turned(t)
    PROVE  Walked(t)' /\ Reading(t)' /\ Pushing(t)' /\ WalkCollectsAll'
<1> DEFINE n == Head(nets[t]).id
           a == After(page[t], offset[t])
<1>0. /\ CrawlTypeOK /\ pc[t] = "page" /\ page[t].docs = <<>> /\ lossy' = lossy
      /\ copies' = copies /\ WalkCollectsAll
  BY DEF CrawlInv, WalkInv, Turned
<1>1. CASE /\ walked' = IF a.done /\ ~lossy[t] THEN walked \cup {n} ELSE walked
           /\ Goto(t, "network")
  <2>1. pc'[t] = "network"
    BY <1>0, <1>1, Gone
  <2>2. a.done /\ ~lossy[t] /\ n \in Countable => \A i \in DOMAIN Holdings[n] : Arrived(n, i)
    BY <1>0, PageRead
  <2>3. WalkCollectsAll'
    <3> HIDE DEF n, a
    <3> QED BY <1>0, <1>1, <2>2 DEF WalkCollectsAll, Arrived
  <2> QED BY <2>1, <2>3 DEF Walked, Reading, Pushing
<1>2. CASE /\ offset' = [offset EXCEPT ![t] = Lesser(a.next, MaxOffset)]
           /\ Goto(t, "ask") /\ walked' = walked /\ nets' = nets
  <2>1. pc'[t] = "ask" /\ offset'[t] = Lesser(a.next, MaxOffset)
    BY <1>0, <1>2, Gone DEF CrawlTypeOK, PassTypeOK
  <2>2. Walked(t)'
    <3> SUFFICES ASSUME ~lossy[t], n \in Countable, NEW i \in DOMAIN Holdings[n],
                        Place(n)[i] <= offset'[t]
                 PROVE  Arrived(n, i)
      BY <1>0, <1>2 DEF Walked, Past, Arrived
    <3>1. n \in DOMAIN Holdings
      BY <1>0, NetworkIsSource DEF CrawlInv, Walking
    <3>2. Place(n)[i] \in Nat
      BY <3>1, Places
    <3>3. a.next \in Int
      <4>1. page[t].limit \in Int /\ page[t].offset \in Int
        BY <1>0 DEF CrawlTypeOK, PassTypeOK, PageOf
      <4>2. offset[t] \in Int /\ PageSize \in Int
        BY <1>0, NetworkCrawlAssumption DEF CrawlTypeOK, PassTypeOK
      <4> QED BY <4>1, <4>2 DEF After
    <3>4. Place(n)[i] <= a.next
      <4> HIDE DEF n, a
      <4> QED BY <2>1, <3>2, <3>3, NetworkCrawlAssumption DEF Lesser
    <3> QED BY <1>0, <3>4, PageRead
  <2>3. Reading(t)' /\ Pushing(t)'
    BY <2>1 DEF Reading, Pushing
  <2>4. WalkCollectsAll'
    BY <1>0, <1>2 DEF WalkCollectsAll
  <2> QED BY <2>2, <2>3, <2>4
<1> QED BY <1>1, <1>2, Zenon DEF Turned, Drop

\* The catalog in hand is dealt with and there: so is one more of the page.
LEMMA DealtCollects ==
    ASSUME CrawlInv, WalkInv, [CrawlNext]_crawlVars, NEW t \in Ticks, pc[t] \in {"page", "push"},
           page[t].docs # <<>>, Dealt(t), pc'[t] = "page", UNCHANGED <<nets, offset>>,
           ~lossy'[t] => ~lossy[t] /\ (LET d == Head(page[t].docs) IN d.catalog \notin Nameless =>
               ToSet(d.res) \subseteq copies'[d.catalog].held)
    PROVE  Walked(t)' /\ Reading(t)' /\ Pushing(t)'
<1> DEFINE n == Head(nets[t]).id
           p == Pages[n][offset[t]]
           ds == page[t].docs
<1>0. /\ CrawlTypeOK /\ Walked(t) /\ Reading(t) /\ Walking(t) /\ InHand(t)
  BY DEF CrawlInv, WalkInv
<1>1. n \in DOMAIN Holdings /\ offset[t] \in 0 .. MaxOffset
  BY <1>0, NetworkIsSource DEF Walking, CrawlTypeOK, PassTypeOK
<1>2. p \in PageOf(Seq(Docs(n))) /\ \A k \in DOMAIN p.docs : p.docs[k].catalog \in Catalogs
  BY <1>1, PageCatalogs
<1>3. ds \in Seq(Docs(n))
  BY <1>0 DEF InHand
<1>4. page'[t] = [page[t] EXCEPT !.docs = Tail(ds)]
  BY <1>0 DEF Dealt, CrawlTypeOK, PassTypeOK
<1>5. CASE lossy'[t]
  BY <1>5 DEF Walked, Reading, Pushing
<1>6. CASE ~lossy'[t]
  <2>1. /\ ~lossy[t] /\ Past(n, offset[t])
        /\ Head(ds).catalog \notin Nameless =>
              ToSet(Head(ds).res) \subseteq copies'[Head(ds).catalog].held
        /\ page[t] = [p EXCEPT !.docs = ds] /\ DownTo(p, ds)
    BY <1>0, <1>6 DEF Walked, Reading
  <2>2. Walked(t)'
    BY <1>1, <2>1, ArrivedStays DEF Walked, Past
  <2>3. page'[t] = [p EXCEPT !.docs = page'[t].docs] /\ page'[t].docs = Tail(ds)
    <3>1. page[t] \in PageOf(Seq([catalog : Catalogs, res : Seq(Resources)]))
      BY <1>0 DEF CrawlTypeOK, PassTypeOK
    <3>2. page'[t].docs = Tail(ds)
      BY <1>4, <3>1 DEF PageOf
    <3> HIDE DEF p, ds
    <3> QED BY <1>2, <1>4, <2>1, <3>2 DEF PageOf
  <2>4. ASSUME NEW k \in DOMAIN p.docs
        PROVE  \/ p.docs[k].catalog \notin Nameless =>
                     ToSet(p.docs[k].res) \subseteq copies'[p.docs[k].catalog].held
               \/ \E j \in DOMAIN Tail(ds) : Tail(ds)[j] = p.docs[k]
    <3>1. CASE There(p.docs[k])
      BY <1>1, <1>2, <3>1, ArrivedStays
    <3>2. CASE \E j \in DOMAIN ds : ds[j] = p.docs[k]
      <4>1. PICK j \in DOMAIN ds : ds[j] = p.docs[k]
        BY <3>2
      <4>2. ds[j] = Head(ds) \/ \E i \in DOMAIN Tail(ds) : Tail(ds)[i] = ds[j]
        BY <1>3, Dropped
      <4> HIDE DEF ds, p
      <4> QED BY <2>1, <4>1, <4>2
    <3> QED BY <2>1, <3>1, <3>2 DEF DownTo
  <2>5. Reading(t)'
    <3>1. Pages[Head(nets'[t]).id][offset'[t]] = p
      OBVIOUS
    <3> HIDE DEF p, ds
    <3>2. \A k \in DOMAIN p.docs :
              \/ p.docs[k].catalog \notin Nameless =>
                     ToSet(p.docs[k].res) \subseteq copies'[p.docs[k].catalog].held
              \/ \E j \in DOMAIN page'[t].docs : page'[t].docs[j] = p.docs[k]
      BY <2>3, <2>4, Zenon
    <3> DEFINE q == Pages[Head(nets'[t]).id][offset'[t]]
    <3>3. q = p
      BY <3>1
    <3> HIDE DEF q
    <3>4. page'[t] = [q EXCEPT !.docs = page'[t].docs]
      BY <2>3, <3>3
    <3>5. \A k \in DOMAIN q.docs :
              \/ q.docs[k].catalog \notin Nameless =>
                     ToSet(q.docs[k].res) \subseteq copies'[q.docs[k].catalog].held
              \/ \E j \in DOMAIN page'[t].docs : page'[t].docs[j] = q.docs[k]
      BY <3>2, <3>3
    <3> QED BY <3>4, <3>5, Zenon DEF Reading, DownTo, There, q
  <2> QED BY <2>2, <2>5 DEF Pushing
<1> QED BY <1>5, <1>6

LEMMA PublishCollects ==
    ASSUME CrawlInv, WalkInv, [CrawlNext]_crawlVars, NEW t \in Ticks, Publish(t)
    PROVE  Walked(t)' /\ Reading(t)' /\ Pushing(t)'
<1> DEFINE d == Head(page[t].docs)
<1>0. /\ CrawlTypeOK /\ Walked(t) /\ Reading(t) /\ InHand(t) /\ pc[t] = "page"
      /\ page[t].docs # <<>> /\ UNCHANGED <<nets, offset, lossy, copies>>
  BY DEF CrawlInv, WalkInv, Publish
<1>1. CASE d.catalog \in Nameless /\ Dealt(t) /\ pc' = pc
  BY <1>0, <1>1, DealtCollects
<1>2. CASE /\ batches' = [batches EXCEPT ![t] = BatchCatalog(d.res)]
           /\ Goto(t, "push") /\ page' = page
  <2>1. d.res \in Seq(Resources)
    <3>1. d \in [catalog : Catalogs, res : Seq(Resources)]
      BY <1>0, DealtKeeps DEF InHand
    <3> QED BY <3>1
  <2>2. \A r \in ToSet(d.res) : Within(r, BatchCatalog(d.res))
    BY <2>1, BatchCatalogCovers
  <2>3. batches'[t] = BatchCatalog(d.res) /\ pc'[t] = "push"
    BY <1>0, <1>2, Gone DEF CrawlTypeOK, PassTypeOK
  <2>4. Walked(t)'
    BY <1>0 DEF Walked, Past, Arrived
  <2>5. Reading(t)'
    BY <1>0, <1>2 DEF Reading, DownTo, There
  <2>6. Pushing(t)'
    BY <1>2, <2>2, <2>3 DEF Pushing
  <2> QED BY <2>4, <2>5, <2>6
<1> QED BY <1>1, <1>2, Zenon DEF Publish

\* The catalog under way arrives batch by batch.
LEMMA PushCollects ==
    ASSUME CrawlInv, WalkInv, [CrawlNext]_crawlVars, NEW t \in Ticks, Push(t)
    PROVE  Walked(t)' /\ Reading(t)' /\ Pushing(t)'
<1> DEFINE n == Head(nets[t]).id
           d == Head(page[t].docs)
           bs == batches[t]
<1>0. /\ CrawlTypeOK /\ Walked(t) /\ Reading(t) /\ Pushing(t) /\ Walking(t) /\ InHand(t)
      /\ Sending(t) /\ pc[t] = "push" /\ UNCHANGED <<nets, offset>>
  BY DEF CrawlInv, WalkInv, Push
<1>1. /\ page[t].docs # <<>> /\ bs # <<>> /\ bs \in Seq(Seq(Resources)) /\ d.catalog \in Catalogs
  <2>1. page[t].docs # <<>> /\ bs # <<>> /\ bs \in Seq(Seq(Resources))
    BY <1>0 DEF Sending, CrawlTypeOK, PassTypeOK
  <2>2. d \in [catalog : Catalogs, res : Seq(Resources)]
    BY <1>0, <2>1, DealtKeeps DEF InHand
  <2> QED BY <2>1, <2>2
<1>2. CASE lossy'[t]
  BY <1>2 DEF Walked, Reading, Pushing
<1>3. CASE ~lossy'[t]
  <2>1. PICK a \in Answers :
           /\ copies' = IF Stores(a) THEN Stored(t) ELSE copies
           /\ lossy' = [lossy EXCEPT ![t] = lossy[t] \/ ~Stores(a)]
           /\ batches' = [batches EXCEPT ![t] = Tail(bs)]
           /\ \/ Len(bs) > 1 /\ UNCHANGED <<pc, page>>
              \/ ~(Len(bs) > 1) /\ Dealt(t) /\ Goto(t, "page")
    <3>1. lossy' # [lossy EXCEPT ![t] = TRUE]
      BY <1>0, <1>3 DEF CrawlTypeOK, FlagsOK
    <3> QED BY <3>1, Zenon DEF Push, Stored
  <2>2. ~lossy[t] /\ Stores(a)
    BY <1>0, <1>3, <2>1, Zenon DEF CrawlTypeOK, FlagsOK
  <2>3. copies'[d.catalog].held = copies[d.catalog].held \cup ToSet(Head(bs))
    <3>1. copies' = Stored(t)
      BY <2>1, <2>2
    <3> QED BY <1>0, <1>1, <3>1 DEF Stored, Merged, CrawlTypeOK, SharedTypeOK
  <2>4. batches'[t] = Tail(bs)
    BY <1>0, <2>1 DEF CrawlTypeOK, PassTypeOK
  <2>5. ASSUME NEW r \in ToSet(d.res)
        PROVE  r \in copies'[d.catalog].held \/ (Len(bs) > 1 /\ Within(r, Tail(bs)))
    <3>1. r \in copies[d.catalog].held \/ Within(r, bs)
      BY <1>0, <2>2 DEF Pushing
    <3> QED BY <1>1, <2>3, <3>1, WithinTail
  <2>6. CASE Len(bs) > 1 /\ UNCHANGED <<pc, page>>
    <3>1. n \in DOMAIN Holdings /\ offset[t] \in 0 .. MaxOffset
      BY <1>0, NetworkIsSource DEF Walking, CrawlTypeOK, PassTypeOK
    <3>2. Walked(t)'
      BY <1>0, <2>2, <3>1, ArrivedStays DEF Walked, Past
    <3>3. Reading(t)'
      <4> DEFINE p == Pages[n][offset[t]]
      <4>1. \A k \in DOMAIN p.docs : p.docs[k].catalog \in Catalogs
        BY <3>1, PageCatalogs
      <4>2. page[t] = [p EXCEPT !.docs = page[t].docs] /\ DownTo(p, page[t].docs)
        BY <1>0, <2>2 DEF Reading
      <4>3. ASSUME NEW k \in DOMAIN p.docs, There(p.docs[k]), p.docs[k].catalog \notin Nameless
            PROVE  ToSet(p.docs[k].res) \subseteq copies'[p.docs[k].catalog].held
        BY <3>1, <4>1, <4>3, ArrivedStays
      <4>4. DownTo(p, page[t].docs)'
        BY <1>0, <2>6, <4>2, <4>3 DEF DownTo, There
      <4> QED BY <1>0, <2>6, <4>2, <4>4 DEF Reading
    <3>4. Pushing(t)'
      BY <1>0, <2>4, <2>5, <2>6 DEF Pushing
    <3> QED BY <3>2, <3>3, <3>4
  <2>7. CASE ~(Len(bs) > 1) /\ Dealt(t) /\ Goto(t, "page")
    <3>1. pc'[t] = "page"
      BY <1>0, <2>7, Gone
    <3>2. ToSet(d.res) \subseteq copies'[d.catalog].held
      BY <2>5, <2>7
    <3> QED BY <1>0, <1>1, <2>2, <2>7, <3>1, <3>2, DealtCollects
  <2> QED BY <2>1, <2>6, <2>7
<1> QED BY <1>2, <1>3

LEMMA WalkInvKept == CrawlInv /\ WalkInv /\ [CrawlNext]_crawlVars => WalkInv'
<1> SUFFICES ASSUME CrawlInv, WalkInv, [CrawlNext]_crawlVars PROVE WalkInv'
  OBVIOUS
<1>0. CrawlTypeOK /\ WalkCollectsAll /\ walked \subseteq DOMAIN Holdings
  BY DEF CrawlInv, WalkInv, CrawlTypeOK, SharedTypeOK
<1>1. walked' = walked => WalkCollectsAll'
  BY <1>0, ArrivedStays DEF WalkCollectsAll, Arrived
<1>2. CASE UNCHANGED <<pc, nets, offset, page, batches, lossy, copies, walked>>
  <2>1. ASSUME NEW t \in Ticks PROVE Walked(t)' /\ Reading(t)' /\ Pushing(t)'
    <3>1. Walked(t) /\ Reading(t) /\ Pushing(t)
      BY DEF WalkInv
    <3>2. Walked(t)'
      BY <1>2, <3>1 DEF Walked, Past, Arrived
    <3>3. Reading(t)'
      BY <1>2, <3>1 DEF Reading, DownTo, There
    <3>4. Pushing(t)'
      BY <1>2, <3>1 DEF Pushing
    <3> QED BY <3>2, <3>3, <3>4
  <2> QED BY <1>1, <1>2, <2>1 DEF WalkInv
<1>3. ASSUME NEW t \in Ticks, Claim(t) \/ Step(t) PROVE WalkInv'
  <2>1. Walked(t)' /\ Reading(t)' /\ Pushing(t)' /\ WalkCollectsAll'
    <3>1. CASE Claim(t) \/ List(t) \/ Release(t)
      <4>1. Goto(t, "list") \/ Goto(t, "network") \/ Goto(t, "release") \/ Goto(t, "idle")
        BY <3>1, Zenon DEF Claim, List, Release
      <4>2. pc'[t] \in {"list", "network", "release", "idle"} /\ walked' = walked
        BY <1>0, <3>1, <4>1, Gone DEF Claim, List, Release
      <4> QED BY <1>1, <4>2 DEF Walked, Reading, Pushing
    <3>2. CASE Turn(t)
      <4>1. pc'[t] \in {"network", "release"} \/ (pc'[t] = "ask" /\ offset'[t] = 0 /\ nets' = nets)
        <5>1. \/ Goto(t, "release")
              \/ pc' = pc /\ pc[t] = "network"
              \/ Goto(t, "ask") /\ offset' = [offset EXCEPT ![t] = 0] /\ nets' = nets
          BY <3>2, Zenon DEF Turn
        <5> QED BY <1>0, <5>1, Gone DEF CrawlTypeOK, PassTypeOK
      <4>2. pc'[t] = "ask" => Head(nets[t]).id \in DOMAIN Holdings
        <5>1. pc'[t] = "ask" => nets[t] # <<>>
          BY <1>0, <3>2, Gone DEF Turn
        <5> QED BY <1>0, <5>1, NetworkIsSource
      <4>3. Walked(t)'
        BY <4>1, <4>2, Places DEF Walked, Past
      <4>4. walked' = walked
        BY <3>2 DEF Turn
      <4> QED BY <1>1, <4>1, <4>3, <4>4 DEF Reading, Pushing
    <3>3. CASE Ask(t)
      BY <1>1, <3>3, AskCollects DEF Ask
    <3>4. CASE Turned(t)
      BY <3>4, TurnedCollects
    <3>5. CASE Publish(t)
      BY <1>1, <3>5, PublishCollects DEF Publish
    <3>6. CASE Push(t)
      BY <1>1, <3>6, PushCollects DEF Push
    <3> QED BY <1>3, <3>1, <3>2, <3>3, <3>4, <3>5, <3>6 DEF Step
  <2>2. ASSUME NEW u \in Ticks, u # t PROVE Walked(u)' /\ Reading(u)' /\ Pushing(u)'
    BY <1>3, <2>2, Alone DEF Walked, Reading, Pushing
  <2> QED BY <2>1, <2>2 DEF WalkInv
<1> QED BY <1>2, <1>3 DEF CrawlNext, Advance, crawlVars, passVars

\* A walk that ends without loss has put everything the network holds into our
\* discovery (discover, appliedPage.after, BatchCatalog, Send), for any network
\* that counts what it holds in one way (Countable): whatever limit it applies if
\* it reports it, wherever its pages cut a catalog, but not one that clamps and
\* reports no page.
THEOREM CrawlCollectsAll == CrawlSpec => []WalkCollectsAll
<1>1. CrawlInit => CrawlInv /\ WalkInv
  BY CrawlStarts DEF CrawlInit, WalkInv, Walked, Reading, Pushing, WalkCollectsAll
<1>2. CrawlInv /\ WalkInv /\ [CrawlNext]_crawlVars => (CrawlInv /\ WalkInv)'
  BY CrawlInvKept, WalkInvKept
<1>3. WalkInv => WalkCollectsAll
  BY DEF WalkInv
<1> QED BY <1>1, <1>2, <1>3, PTL DEF CrawlSpec
=============================================================================
