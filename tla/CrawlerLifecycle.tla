-------------------------- MODULE CrawlerLifecycle --------------------------
(***************************************************************************)
(* The life of the crawler inside the adapter process: the Scheduler of     *)
(* catalogcrawler/scheduler.go (its loops, the jobs that ride the sync      *)
(* tick, on-demand runs and Stop), started by initCrawler and ended by the  *)
(* shutdown goroutine of cmd/adapter/main.go, which runs the closers in the *)
(* order run() appended them: the plugin manager's, which closes the        *)
(* crawler's database, and then the crawler's own, which calls Stop.        *)
(*                                                                         *)
(* The WaitGroup is the set of goroutines it counts; a critical section     *)
(* under Scheduler.mu that does not block is one action.  What a tick does  *)
(* is abstracted to its running, except that an after-sync job whose run    *)
(* fails gives its pipeline claim back before it returns.                   *)
(***************************************************************************)
CONSTANTS Jobs,      \* after-sync jobs registered before Start
          Requests,  \* slots for concurrent POST /crawl/trigger requests
          HasStore   \* is a database configured (params.Store # nil)?

ASSUME ConstantsAssumption == HasStore \in BOOLEAN

VARIABLES main,       \* run(): the loop Start launches next, or past it
          ctx,        \* Scheduler.ctx: "nil" until Start sets it
          signal,     \* the process context has ended (SIGINT / SIGTERM)
          cancelled,  \* Stop has called Scheduler.cancel
          mu,         \* does Stop hold Scheduler.mu?
          loop,       \* the loop goroutines
          launch,     \* after-sync jobs the sync loop has still to launch
          job,        \* after-sync job goroutines
          request,    \* trigger requests, and the goroutine RunOnce starts
          closing,    \* the shutdown goroutine
          storeOpen,  \* is the crawler's database open?
          lostClaims  \* history: jobs whose claim release found it closed

vars == <<main, ctx, signal, cancelled, mu, loop, launch, job, request,
          closing, storeOpen, lostClaims>>

Loops == {"poll", "sync", "park"}

\* The loops Start launches, in order; without a store only the sync ticker.
FirstLoop == IF HasStore THEN "poll" ELSE "sync"

\* What Start does after launching a loop.
AfterLoop == [poll |-> "sync",
              sync |-> IF HasStore THEN "park" ELSE "serving",
              park |-> "serving"]

TypeOK ==
    /\ main \in {"init", "serving"} \cup Loops
    /\ ctx \in {"nil", "set"}
    /\ signal \in BOOLEAN /\ cancelled \in BOOLEAN /\ mu \in BOOLEAN
    /\ loop \in [Loops -> {"none", "tick", "launch", "wait", "done"}]
    /\ launch \subseteq Jobs
    /\ job \in [Jobs -> {"none", "running", "releasing"}]
    /\ request \in [Requests -> {"none", "handling", "running"}]
    /\ closing \in {"waiting", "http", "store", "stop", "draining", "stopped"}
    /\ storeOpen \in BOOLEAN
    /\ lostClaims \subseteq Jobs

Init ==
    /\ main = "init"
    /\ ctx = "nil"
    /\ signal = FALSE /\ cancelled = FALSE /\ mu = FALSE
    /\ loop = [l \in Loops |-> "none"]
    /\ launch = {}
    /\ job = [j \in Jobs |-> "none"]
    /\ request = [q \in Requests |-> "none"]
    /\ closing = "waiting"
    /\ storeOpen = HasStore
    /\ lostClaims = {}

\* ctx.Err() # nil for the context Start derived from the process context.
CtxEnded == signal \/ cancelled

LoopLive(l) == loop[l] \in {"tick", "launch", "wait"}

\* The WaitGroup counter is zero.
Quiet ==
    /\ \A l \in Loops : ~LoopLive(l)
    /\ \A j \in Jobs : job[j] = "none"
    /\ \A q \in Requests : request[q] # "running"

-----------------------------------------------------------------------------
(* Start.                                                                  *)

\* Scheduler.Start publishes its context under the lock.
StartSetsContext ==
    /\ main = "init"
    /\ ~mu
    /\ ctx' = "set"
    /\ main' = FirstLoop
    /\ UNCHANGED <<signal, cancelled, mu, loop, launch, job, request, closing,
                   storeOpen, lostClaims>>

\* Start launches one loop after the other, outside the lock; run() then
\* serves HTTP and starts the shutdown goroutine.
StartLoop ==
    /\ main \in Loops
    /\ loop' = [loop EXCEPT ![main] = "tick"]
    /\ main' = AfterLoop[main]
    /\ UNCHANGED <<ctx, signal, cancelled, mu, launch, job, request, closing,
                   storeOpen, lostClaims>>

-----------------------------------------------------------------------------
(* The loops and the jobs that ride the sync tick.                         *)

\* The tick's own work is done; the sync loop goes on to startAfterSync.
TickEnds(l) ==
    /\ loop[l] = "tick"
    /\ IF l = "sync"
         THEN /\ loop' = [loop EXCEPT ![l] = "launch"]
              /\ launch' = Jobs
         ELSE /\ loop' = [loop EXCEPT ![l] = "wait"]
              /\ UNCHANGED launch
    /\ UNCHANGED <<main, ctx, signal, cancelled, mu, job, request, closing,
                   storeOpen, lostClaims>>

\* startAfterSync launches one job.  A job still running from an earlier
\* tick makes the new goroutine return at once (publishSweep.claim).
LaunchJob(j) ==
    /\ loop["sync"] = "launch"
    /\ j \in launch
    /\ ~CtxEnded
    /\ launch' = launch \ {j}
    /\ job' = [job EXCEPT ![j] = IF @ = "none" THEN "running" ELSE @]
    /\ UNCHANGED <<main, ctx, signal, cancelled, mu, loop, request, closing,
                   storeOpen, lostClaims>>

\* startAfterSync returns: nothing left to launch, or the context has ended.
LaunchEnds ==
    /\ loop["sync"] = "launch"
    /\ launch = {} \/ CtxEnded
    /\ launch' = {}
    /\ loop' = [loop EXCEPT !["sync"] = "wait"]
    /\ UNCHANGED <<main, ctx, signal, cancelled, mu, job, request, closing,
                   storeOpen, lostClaims>>

\* The ticker fires.  select picks either ready case, so a loop whose context
\* has already ended may still run one more tick.
TickerFires(l) ==
    /\ loop[l] = "wait"
    /\ loop' = [loop EXCEPT ![l] = "tick"]
    /\ UNCHANGED <<main, ctx, signal, cancelled, mu, launch, job, request,
                   closing, storeOpen, lostClaims>>

\* The loop sees ctx.Done.
LoopExits(l) ==
    /\ loop[l] = "wait"
    /\ CtxEnded
    /\ loop' = [loop EXCEPT ![l] = "done"]
    /\ UNCHANGED <<main, ctx, signal, cancelled, mu, launch, job, request,
                   closing, storeOpen, lostClaims>>

\* A job's run succeeds and its goroutine returns.
JobSucceeds(j) ==
    /\ job[j] = "running"
    /\ job' = [job EXCEPT ![j] = "none"]
    /\ UNCHANGED <<main, ctx, signal, cancelled, mu, loop, launch, request,
                   closing, storeOpen, lostClaims>>

\* A job's run fails while it holds a pipeline claim (pipeline.run).
JobFails(j) ==
    /\ HasStore
    /\ job[j] = "running"
    /\ job' = [job EXCEPT ![j] = "releasing"]
    /\ UNCHANGED <<main, ctx, signal, cancelled, mu, loop, launch, request,
                   closing, storeOpen, lostClaims>>

\* The claim is given back on a context of its own; a closed database makes
\* that fail and the claim stays.
JobReleases(j) ==
    /\ job[j] = "releasing"
    /\ job' = [job EXCEPT ![j] = "none"]
    /\ lostClaims' = IF storeOpen THEN lostClaims ELSE lostClaims \cup {j}
    /\ UNCHANGED <<main, ctx, signal, cancelled, mu, loop, launch, request,
                   closing, storeOpen>>

-----------------------------------------------------------------------------
(* On-demand runs.                                                         *)

\* The HTTP server accepts a trigger request.
Accept(q) ==
    /\ main = "serving"
    /\ closing = "waiting"
    /\ request[q] = "none"
    /\ request' = [request EXCEPT ![q] = "handling"]
    /\ UNCHANGED <<main, ctx, signal, cancelled, mu, loop, launch, job,
                   closing, storeOpen, lostClaims>>

\* Mutant: RunOnce does not look at the context.
RunOnce_Unchecked(q) ==
    /\ request[q] = "handling"
    /\ ~mu
    /\ request' = [request EXCEPT ![q] = "running"]
    /\ UNCHANGED <<main, ctx, signal, cancelled, mu, loop, launch, job,
                   closing, storeOpen, lostClaims>>

\* Scheduler.RunOnce: the not-done check and wg.Add are one critical section;
\* a stopped or unstarted scheduler refuses.
RunOnce(q) ==
    /\ request[q] = "handling"
    /\ ~mu
    /\ request' = [request EXCEPT ![q] =
          IF ctx = "nil" \/ CtxEnded THEN "none" ELSE "running"]
    /\ UNCHANGED <<main, ctx, signal, cancelled, mu, loop, launch, job,
                   closing, storeOpen, lostClaims>>

\* Mutant: the goroutine takes the lock before it leaves the WaitGroup.
RunOnceEnds_NeedsLock(q) ==
    /\ request[q] = "running"
    /\ ~mu
    /\ request' = [request EXCEPT ![q] = "none"]
    /\ UNCHANGED <<main, ctx, signal, cancelled, mu, loop, launch, job,
                   closing, storeOpen, lostClaims>>

\* The on-demand poll ends.
RunOnceEnds(q) ==
    /\ request[q] = "running"
    /\ request' = [request EXCEPT ![q] = "none"]
    /\ UNCHANGED <<main, ctx, signal, cancelled, mu, loop, launch, job,
                   closing, storeOpen, lostClaims>>

-----------------------------------------------------------------------------
(* Shutdown.                                                               *)

\* The process context ends; the crawler's contexts are derived from it.
Signal ==
    /\ ~signal
    /\ signal' = TRUE
    /\ UNCHANGED <<main, ctx, cancelled, mu, loop, launch, job, request,
                   closing, storeOpen, lostClaims>>

\* httpServer.Shutdown stops accepting.
HTTPShutdown ==
    /\ main = "serving"
    /\ closing = "waiting"
    /\ signal
    /\ closing' = "http"
    /\ UNCHANGED <<main, ctx, signal, cancelled, mu, loop, launch, job,
                   request, storeOpen, lostClaims>>

\* Shutdown returns once the requests are handled, or after ten seconds with
\* some of them still going on.
HTTPShutdownReturns ==
    /\ closing = "http"
    /\ closing' = "store"
    /\ UNCHANGED <<main, ctx, signal, cancelled, mu, loop, launch, job,
                   request, storeOpen, lostClaims>>

\* The first closer: the plugin manager closes every plugin, the crawler's
\* database among them.
CloseManager ==
    /\ closing = "store"
    /\ storeOpen' = FALSE
    /\ closing' = "stop"
    /\ UNCHANGED <<main, ctx, signal, cancelled, mu, loop, launch, job,
                   request, lostClaims>>

\* The second closer: Scheduler.Stop takes the lock and cancels.
StopCancels ==
    /\ closing = "stop"
    /\ ~mu
    /\ mu' = TRUE
    /\ cancelled' = TRUE
    /\ closing' = "draining"
    /\ UNCHANGED <<main, ctx, signal, loop, launch, job, request, storeOpen,
                   lostClaims>>

\* Stop's Wait returns and the lock is released.
StopReturns ==
    /\ closing = "draining"
    /\ Quiet
    /\ mu' = FALSE
    /\ closing' = "stopped"
    /\ UNCHANGED <<main, ctx, signal, cancelled, loop, launch, job, request,
                   storeOpen, lostClaims>>

-----------------------------------------------------------------------------

LoopStep(l) == TickEnds(l) \/ TickerFires(l) \/ LoopExits(l)
JobStep(j) == JobSucceeds(j) \/ JobFails(j) \/ JobReleases(j)
RequestStep(q) == RunOnce(q) \/ RunOnceEnds(q)
Shutdown ==
    \/ HTTPShutdown \/ HTTPShutdownReturns
    \/ CloseManager \/ StopCancels \/ StopReturns

Next ==
    \/ StartSetsContext \/ StartLoop
    \/ \E l \in Loops : LoopStep(l)
    \/ \E j \in Jobs : LaunchJob(j) \/ JobStep(j)
    \/ LaunchEnds
    \/ \E q \in Requests : Accept(q) \/ RequestStep(q)
    \/ Signal
    \/ Shutdown

Spec == Init /\ [][Next]_vars

\* Goroutines are scheduled, ticks, jobs and on-demand polls return (they run
\* under a context that ends and clients with timeouts), and a loop that keeps
\* coming back to its select with the context ended takes that case at last.
Fairness ==
    /\ WF_vars(StartSetsContext \/ StartLoop)
    /\ \A l \in Loops : WF_vars(TickEnds(l)) /\ SF_vars(LoopExits(l))
    /\ WF_vars(LaunchEnds) /\ \A j \in Jobs : WF_vars(LaunchJob(j))
    /\ \A j \in Jobs : WF_vars(JobStep(j))
    /\ \A q \in Requests : WF_vars(RequestStep(q))
    /\ WF_vars(Shutdown)

FairSpec == Spec /\ Fairness

-----------------------------------------------------------------------------

\* When Stop has returned, no loop, no after-sync job and no on-demand run is
\* still going or can be started again (Stop: "waits for the in-flight tick
\* (if any), and any RunOnce call already in flight, to finish").
NothingOutlivesStop == closing = "stopped" => Quiet

\* Once Stop is waiting and the counter has reached zero, nothing is added:
\* an Add from zero concurrent with Wait is a misuse of the WaitGroup
\* (startAfterSync: "the Add cannot race a Stop already in Wait").
AddNeverRacesWait ==
    [][closing = "draining" /\ Quiet => Quiet']_vars

\* A failed run gives its claim back even when the shutdown made it fail
\* (pipeline.run releases on a context "decoupled from ctx", because
\* otherwise the firing is silently lost "for the rest of the window").
ReleaseReachesStore == lostClaims = {}

\* A signalled process gets through its shutdown: nobody waits on anybody.
ShutdownCompletes == signal ~> closing = "stopped"

\* An accepted on-demand run always ends.
RequestsEnd ==
    \A q \in Requests : request[q] = "handling" ~> request[q] = "none"
=============================================================================
