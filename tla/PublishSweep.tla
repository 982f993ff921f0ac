---------------------------- MODULE PublishSweep ----------------------------
(***************************************************************************)
(* The scheduled publish sweep.  Every replica of the crawler runs the same *)
(* sweep (catalogcrawler/publishsweep.go) over the pipelines the registry   *)
(* sanctions, each pipeline through pipeline.Run                            *)
(* (catalogpublisher/pipeline/run.go), and the replicas coordinate through  *)
(* one row per pipeline in the run log (internal/store/pipelinerun.go).     *)
(*                                                                         *)
(* Every run-log call is one SQL statement and so one action; a replica's   *)
(* `now', `previous' and `firing' are read once and used in later calls.    *)
(* Instants are natural numbers, 0 is the zero time.Time ("never ran", no   *)
(* row).  The registry, the pipeline file and the upstream are abstracted   *)
(* to what they decide: the pipelines a sweep finds, and whether a run      *)
(* published, failed for a reason that may pass, or met a permanent fault   *)
(* of the pipeline file, before its due check or after its claim.           *)
(***************************************************************************)
EXTENDS Naturals, FiniteSets

CONSTANTS Replicas, Pipelines,
          MaxTime,               \* bound: instants 1..MaxTime
          Firings,               \* the instants the cron expression fires
          LegacyRun,             \* run-log row keyed by capability, 0 if none
          MaxAttemptsPerFiring,
          Overruns,              \* may a run outlast its schedule window?
          MaxFaults              \* bound: crashes and graceful stops of a replica,
                                 \* and run-log calls and fetches that fail

ASSUME ConstantsAssumption ==
    /\ MaxTime \in Nat \ {0}
    /\ Firings \subseteq 1 .. MaxTime /\ 1 \in Firings
    /\ LegacyRun \in 0 .. MaxTime
    /\ MaxAttemptsPerFiring \in Nat \ {0}
    /\ Overruns \in BOOLEAN
    /\ MaxFaults \in Nat

VARIABLES clock,
          marker,      \* crawler_pipeline_run.last_run_at per pipeline
          run,         \* what each replica's sweep is doing
          budget,      \* publishSweep.failures: each replica's attemptBudgets
          ctxEnded,    \* replicas whose sweep context has ended
          published,   \* history: successful runs per pipeline and firing
          tries,       \* history: a process's counted failures of one firing
          ends,        \* crashes and stops so far
          storeErrors  \* failed run-log calls and fetches so far

vars == <<clock, marker, run, budget, ctxEnded, published, tries,
          ends, storeErrors>>

faults == <<ends, storeErrors>>
history == <<published, tries>>

Times == 0 .. MaxTime
Never == 0

\* cronSchedule.prevFiring: the latest firing at or before t.
PrevFiring(t) ==
    CHOOSE f \in Firings : f <= t /\ \A g \in Firings : g <= t => g <= f

Faults == {"transient", "permanent"}
NoBudget == [count |-> 0, gaveUp |-> FALSE]
NoTries == [firing |-> Never, n |-> 0, gaveUp |-> FALSE]
Idle == [pc |-> "idle"]

\* What one replica's sweep carries from call to call: between two targets,
\* and within pipeline.Run and afterRun for one of them.
Between == [pc : {"next"}, todo : SUBSET Pipelines]
Running == [pc : {"due", "executing", "recording", "releasing", "giveup"},
            todo : SUBSET Pipelines, pipeline : Pipelines,
            now : Times, previous : Times, firing : Firings,
            fault : Faults \cup {"none"}]

TypeOK ==
    /\ clock \in 1 .. MaxTime
    /\ marker \in [Pipelines -> Times]
    /\ run \in [Replicas -> Running \cup Between \cup {Idle}]
    /\ budget \in [Replicas -> [Pipelines -> [count : Nat, gaveUp : BOOLEAN]]]
    /\ ctxEnded \subseteq Replicas
    /\ published \in [Pipelines -> [Firings -> Nat]]
    /\ tries \in [Replicas -> [Pipelines -> [firing : Times, n : Nat, gaveUp : BOOLEAN]]]
    /\ ends \in Nat /\ storeErrors \in Nat

Init ==
    /\ clock = 1
    /\ marker = [p \in Pipelines |-> Never]
    /\ run = [r \in Replicas |-> Idle]
    /\ budget = [r \in Replicas |-> [p \in Pipelines |-> NoBudget]]
    /\ ctxEnded = {}
    /\ published = [p \in Pipelines |-> [f \in Firings |-> 0]]
    /\ tries = [r \in Replicas |-> [p \in Pipelines |-> NoTries]]
    /\ ends = 0 /\ storeErrors = 0

Active(r) == run[r] # Idle

\* Past the due check of one pipeline and not yet done with it.
InRun(r) == Active(r) /\ run[r].pc # "next"

\* The work itself is going on, or its outcome is not yet in the run log.
Executing(r) ==
    Active(r) /\ run[r].pc \in {"executing", "recording", "releasing"}

-----------------------------------------------------------------------------
(* The tick.                                                               *)

\* publishSweep.tick: claim the in-flight flag (a tick that finds a sweep
\* running does nothing) and discover the pipelines to run; a binding that
\* cannot be resolved this time is skipped.
Tick(r, targets) ==
    /\ ~Active(r)
    /\ r \notin ctxEnded
    /\ run' = [run EXCEPT ![r] = [pc |-> "next", todo |-> targets]]
    /\ UNCHANGED <<clock, marker, budget, ctxEnded, history, faults>>

\* The last target is done, or the context ended mid-sweep: tick returns and
\* releases the in-flight flag.
FinishTick(r) ==
    /\ Active(r)
    /\ run[r].pc = "next"
    /\ run[r].todo = {} \/ r \in ctxEnded
    /\ run' = [run EXCEPT ![r] = Idle]
    /\ UNCHANGED <<clock, marker, budget, ctxEnded, history, faults>>

\* The sweep goes on to the next target.
NextTarget(r) ==
    run' = [run EXCEPT ![r] = [pc |-> "next", todo |-> @.todo \ {@.pipeline}]]

\* A sweep may start the run of p: pipeline.Run on a context that has not
\* ended.
MayRun(r, p) ==
    /\ Active(r)
    /\ run[r].pc = "next"
    /\ p \in run[r].todo
    /\ r \notin ctxEnded

\* What a run of p starting now carries: the clock and the run log as read.
Target(r, p) ==
    [pc |-> "due", todo |-> run[r].todo, pipeline |-> p, now |-> clock,
     previous |-> marker[p], firing |-> PrevFiring(clock), fault |-> "none"]

\* dueNow, the capability's legacy row standing in for a missing one.
Due(p) ==
    LET lastRun == IF marker[p] = Never THEN LegacyRun ELSE marker[p]
    IN  lastRun = Never \/ lastRun < PrevFiring(clock)

\* pipeline.Run up to and including the due check.
ReadRunLog(r, p) ==
    /\ MayRun(r, p)
    /\ run' = [run EXCEPT ![r] = IF Due(p) THEN Target(r, p)
                                 ELSE [pc |-> "next", todo |-> @.todo \ {p}]]
    /\ UNCHANGED <<clock, marker, budget, ctxEnded, history, faults>>

-----------------------------------------------------------------------------
(* What a failure costs: publishSweep.afterRun.                            *)

MayFail == ends + storeErrors < MaxFaults

StoreFails == MayFail /\ storeErrors' = storeErrors + 1

\* The attempt budget after a failure: a failure after a give-up starts a
\* fresh one, and only a transient failure is counted.
SpentBudget(b, fault) ==
    LET fresh == IF b.gaveUp THEN NoBudget ELSE b
    IN  IF fault = "permanent" THEN fresh ELSE [fresh EXCEPT !.count = @ + 1]

\* History: one more counted failure of firing f, saturating just above the
\* limit BudgetBounds compares with.
OneMore(t, f) ==
    IF t.firing # f THEN [firing |-> f, n |-> 1, gaveUp |-> FALSE]
    ELSE IF t.n > MaxAttemptsPerFiring + MaxFaults THEN t
    ELSE [t EXCEPT !.n = @ + 1]

\* afterRun for a failed run u of replica r, on a context that has not ended:
\* the budget is charged, and at the limit the firing is to be given up;
\* counts is the history so far.
Charge(r, u, fault, counts) ==
    LET p == u.pipeline
        spent == SpentBudget(budget[r][p], fault)
        counted == fault = "transient"
    IN  /\ budget' = [budget EXCEPT ![r][p] = spent]
        /\ tries' = IF ~counted THEN counts
                    ELSE [counts EXCEPT ![r][p] = OneMore(@, u.firing)]
        /\ run' = [run EXCEPT ![r] =
              IF counted /\ spent.count >= MaxAttemptsPerFiring
                THEN [u EXCEPT !.pc = "giveup"]
                ELSE [pc |-> "next", todo |-> u.todo \ {p}]]

\* A failure before the due check: the pipeline file cannot be fetched or the
\* run log cannot be read (transient), or the file is broken (permanent).
EarlyFault(r, p, fault) ==
    /\ MayRun(r, p)
    /\ IF fault = "transient" THEN StoreFails ELSE UNCHANGED storeErrors
    /\ Charge(r, Target(r, p), fault, tries)
    /\ UNCHANGED <<clock, marker, ctxEnded, published, ends>>

-----------------------------------------------------------------------------
(* The claim and the work.                                                 *)

\* Mutant: the marker is overwritten whatever it is.
Unclaimed_Always(p, firing) == TRUE

\* Mutant: a plain UPDATE, which finds no row to claim on a first run.
Unclaimed_UpdateOnly(p, firing) == marker[p] # Never /\ marker[p] < firing

\* The WHERE of ClaimPipelineRun: no row yet, or a marker before the firing.
Unclaimed(p, firing) == marker[p] = Never \/ marker[p] < firing

\* Store.ClaimPipelineRun: the marker moves to now while it is unclaimed.
\* The loser stands down with its budget untouched, and so does a run whose
\* context has ended; a claim that fails is a failed run.
ClaimPipelineRun(r) ==
    /\ Active(r)
    /\ run[r].pc = "due"
    /\ LET p == run[r].pipeline
           free == Unclaimed(p, run[r].firing)
       IN  \/ /\ r \notin ctxEnded
              /\ free
              /\ marker' = [marker EXCEPT ![p] = run[r].now]
              /\ run' = [run EXCEPT ![r].pc = "executing"]
              /\ UNCHANGED <<budget, tries, storeErrors>>
           \/ /\ r \in ctxEnded \/ ~free
              /\ NextTarget(r)
              /\ UNCHANGED <<marker, budget, tries, storeErrors>>
           \/ /\ r \notin ctxEnded
              /\ StoreFails
              /\ Charge(r, run[r], "transient", tries)
              /\ UNCHANGED marker
    /\ UNCHANGED <<clock, ctxEnded, published, ends>>

\* execute: every catalog reached the network.
ExecuteSucceeds(r) ==
    /\ Active(r)
    /\ run[r].pc = "executing"
    /\ run' = [run EXCEPT ![r].pc = "recording"]
    /\ published' = [published EXCEPT ![run[r].pipeline][run[r].firing] = @ + 1]
    /\ UNCHANGED <<clock, marker, budget, ctxEnded, tries, faults>>

\* execute returns an error.
ExecuteFails(r, fault) ==
    /\ Active(r)
    /\ run[r].pc = "executing"
    /\ run' = [run EXCEPT ![r].pc = "releasing", ![r].fault = fault]
    /\ UNCHANGED <<clock, marker, budget, ctxEnded, history, faults>>

-----------------------------------------------------------------------------
(* The outcome of a run.                                                   *)

\* Store.RecordPipelineRun with the run's own now; a failure, or an ended
\* context, is logged and ignored.  afterRun then drops the budget.
RecordPipelineRun(r) ==
    /\ Active(r)
    /\ run[r].pc = "recording"
    /\ \/ /\ r \notin ctxEnded
          /\ marker' = [marker EXCEPT ![run[r].pipeline] = run[r].now]
          /\ UNCHANGED storeErrors
       \/ /\ r \in ctxEnded
          /\ UNCHANGED <<marker, storeErrors>>
       \/ StoreFails /\ UNCHANGED marker
    /\ budget' = IF r \in ctxEnded THEN budget
                 ELSE [budget EXCEPT ![r][run[r].pipeline] = NoBudget]
    /\ NextTarget(r)
    /\ UNCHANGED <<clock, ctxEnded, history, ends>>

\* History: r's release takes back the mark of a replica that had given up on
\* the firing, and with that the other is owed a fresh count.
Outvotes(r, q) ==
    LET t == tries[q][run[r].pipeline]
    IN  q # r /\ t.gaveUp /\ t.firing = run[r].firing

TakenBack(r) ==
    [q \in Replicas |-> IF Outvotes(r, q) THEN [tries[q] EXCEPT ![run[r].pipeline] = NoTries]
                        ELSE tries[q]]

\* Store.ReleasePipelineRun, on a context of its own, restores what was read
\* before the claim (and may fail); afterRun then charges the budget, unless
\* the sweep itself is shutting down.
ReleasePipelineRun(r) ==
    /\ Active(r)
    /\ run[r].pc = "releasing"
    /\ \E released \in BOOLEAN :
         /\ marker' = IF released THEN [marker EXCEPT ![run[r].pipeline] = run[r].previous]
                      ELSE marker
         /\ IF released THEN UNCHANGED storeErrors ELSE StoreFails
         /\ LET counts == IF released THEN TakenBack(r) ELSE tries
            IN  IF r \in ctxEnded
                  THEN NextTarget(r) /\ tries' = counts /\ UNCHANGED budget
                  ELSE Charge(r, run[r], run[r].fault, counts)
    /\ UNCHANGED <<clock, ctxEnded, published, ends>>

\* Mutant: the give-up never reaches the run log.
GiveUp_InMemory(r) ==
    /\ Active(r)
    /\ run[r].pc = "giveup"
    /\ budget' = [budget EXCEPT ![r][run[r].pipeline].gaveUp = TRUE]
    /\ NextTarget(r)
    /\ UNCHANGED <<clock, marker, ctxEnded, history, faults>>

\* afterRun at the exhausted budget: the firing is marked served, with the
\* time the give-up happens at; if that write fails, gaveUp stays unset.
GiveUp(r) ==
    /\ Active(r)
    /\ run[r].pc = "giveup"
    /\ \/ /\ r \notin ctxEnded
          /\ marker' = [marker EXCEPT ![run[r].pipeline] = clock]
          /\ budget' = [budget EXCEPT ![r][run[r].pipeline] =
                                    [count |-> @.count, gaveUp |-> TRUE]]
          /\ tries' = [tries EXCEPT ![r][run[r].pipeline] =
                                    [firing |-> @.firing, n |-> @.n, gaveUp |-> TRUE]]
          /\ UNCHANGED storeErrors
       \/ r \in ctxEnded /\ UNCHANGED <<marker, budget, tries, storeErrors>>
       \/ StoreFails /\ UNCHANGED <<marker, budget, tries>>
    /\ NextTarget(r)
    /\ UNCHANGED <<clock, ctxEnded, published, ends>>

-----------------------------------------------------------------------------
(* The environment.                                                        *)

Forget(r) ==
    /\ budget' = [budget EXCEPT ![r] = [p \in Pipelines |-> NoBudget]]
    /\ tries' = [tries EXCEPT ![r] = [p \in Pipelines |-> NoTries]]

\* The process dies and comes back: its claim stays in the run log, its
\* budgets are gone.
Crash(r) ==
    /\ MayFail
    /\ Active(r)
    /\ ends' = ends + 1
    /\ run' = [run EXCEPT ![r] = Idle]
    /\ Forget(r)
    /\ UNCHANGED <<clock, marker, ctxEnded, published, storeErrors>>

\* Scheduler.Stop cancels the context the sweep runs under.
Stop(r) ==
    /\ MayFail
    /\ r \notin ctxEnded
    /\ ends' = ends + 1
    /\ ctxEnded' = ctxEnded \cup {r}
    /\ UNCHANGED <<clock, marker, run, budget, history, storeErrors>>

\* The replica is started again after a graceful stop.
Restart(r) ==
    /\ r \in ctxEnded
    /\ ~Active(r)
    /\ ctxEnded' = ctxEnded \ {r}
    /\ Forget(r)
    /\ UNCHANGED <<clock, marker, run, published, faults>>

\* Time passes.  Without overruns the schedule does not fire again while a
\* replica is between its due check and its last run-log write.
Advance ==
    /\ clock < MaxTime
    /\ \/ Overruns
       \/ clock + 1 \notin Firings
       \/ \A r \in Replicas : ~InRun(r)
    /\ clock' = clock + 1
    /\ UNCHANGED <<marker, run, budget, ctxEnded, history, faults>>

-----------------------------------------------------------------------------

Step(r) ==
    \/ \E targets \in SUBSET Pipelines : Tick(r, targets)
    \/ FinishTick(r)
    \/ \E p \in Pipelines : ReadRunLog(r, p)
    \/ ClaimPipelineRun(r)
    \/ ExecuteSucceeds(r)
    \/ \E fault \in Faults :
          \/ ExecuteFails(r, fault)
          \/ \E p \in Pipelines : EarlyFault(r, p, fault)
    \/ RecordPipelineRun(r)
    \/ ReleasePipelineRun(r)
    \/ GiveUp(r)
    \/ Restart(r)

Next ==
    \/ \E r \in Replicas : Step(r) \/ Crash(r) \/ Stop(r)
    \/ Advance

Spec == Init /\ [][Next]_vars

\* The sync ticker fires again and again and a replica under way takes its
\* next step; the registry lists every binding again and a broken pipeline
\* file is mended, so the sweeps do not for ever miss a pipeline or meet
\* permanent faults only.
Fairness ==
    /\ \A r \in Replicas : WF_vars(Step(r))
    /\ \A r \in Replicas : SF_vars(Tick(r, Pipelines))
    /\ \A r \in Replicas :
         SF_vars(ExecuteSucceeds(r) \/ ExecuteFails(r, "transient"))
    /\ \A r \in Replicas, p \in Pipelines : SF_vars(ReadRunLog(r, p))

FairSpec == Spec /\ Fairness

-----------------------------------------------------------------------------
(* Safety.                                                                 *)

\* A firing is published once: a run that succeeded is not run again by
\* another replica, after a restart, or after a failed run gave its claim back.
PublishedOnce ==
    \A p \in Pipelines, f \in Firings : published[p][f] <= 1

\* While a replica executes, the run log shows its firing as taken.
ClaimStands ==
    \A r \in Replicas :
        Executing(r) => marker[run[r].pipeline] >= run[r].firing

\* A process counts at most MaxAttemptsPerFiring failures against one firing,
\* and one more for each run-log call or fetch that failed, for as long as no
\* other replica's release takes back its give-up
\* (attemptBudget.gaveUp: "The next FAILURE to arrive must then belong to a
\* later firing").
BudgetBounds ==
    \A r \in Replicas, p \in Pipelines :
        tries[r][p].n <= MaxAttemptsPerFiring + storeErrors

-----------------------------------------------------------------------------
(* Liveness.                                                               *)

\* A release is about to take back what another replica marked giving up.
Undone(p) ==
    \E r \in Replicas :
        /\ Active(r) /\ run[r].pc = "releasing" /\ run[r].pipeline = p
        /\ \E q \in Replicas : Outvotes(r, q)

\* The last firing is served in the end: published, given up on after its
\* attempts, or lost to a crash that left its claim behind.  Only replicas that
\* keep taking back one another's give-ups may go on for ever.
EventuallyServed ==
    \A p \in Pipelines :
        <>[](marker[p] >= PrevFiring(clock)) \/ []<>Undone(p)
=============================================================================
