------------------------- MODULE PublishSweepProofs -------------------------
(***************************************************************************)
(* Machine-checked proofs about PublishSweep, for any number of replicas,   *)
(* pipelines, firings, attempts and faults, as long as no run outlasts its  *)
(* schedule window.                                                         *)
(*                                                                         *)
(* Everything rests on InStep: whoever is in a run works on the firing that *)
(* is due now.  Then a claim that stands keeps every other replica out      *)
(* (OneExecutor), so the only release that can lower a marker is the one of *)
(* the run that raised it, and a firing once published stays claimed        *)
(* (ServedOnce).  BudgetBounds needs the attempt budget compared with the   *)
(* history: while a firing may still be tried, every failure counted        *)
(* against it is in the budget too (Counted), and a budget at its limit is  *)
(* about to be given up (WithinBudget).                                     *)
(***************************************************************************)
EXTENDS PublishSweep, FiniteSetTheorems, WellFoundedInduction, TLAPS

\* The firing that is due now.
Current == PrevFiring(clock)

\* A run's firing is the current one, and its clock reading is later.
InStep ==
    \A r \in Replicas : InRun(r) =>
        run[r].firing = Current /\ Current <= run[r].now /\ run[r].now <= clock

\* A run gives its claim back because its work failed, and knows how.
Faulted ==
    \A r \in Replicas : InRun(r) /\ run[r].pc = "releasing" => run[r].fault \in Faults

OneExecutor ==
    \A r, q \in Replicas :
        Executing(r) /\ Executing(q) /\ run[r].pipeline = run[q].pipeline => r = q

\* A firing that has been published stays claimed and is not under way again;
\* one that lies ahead has not been published, and a run that records its
\* success has published.
ServedOnce ==
    /\ \A p \in Pipelines, f \in Firings : f > Current => published[p][f] = 0
    /\ \A p \in Pipelines : published[p][Current] > 0 =>
          /\ marker[p] >= Current
          /\ \A r \in Replicas : Executing(r) /\ run[r].pipeline = p => run[r].pc = "recording"
    /\ \A r \in Replicas : Executing(r) /\ run[r].pc = "recording" =>
          published[run[r].pipeline][run[r].firing] > 0

\* The failures a budget stands for.
Spent(b) == IF b.gaveUp THEN 0 ELSE b.count

\* History and budget agree while the current firing is open.
Counted ==
    \A r \in Replicas, p \in Pipelines :
        /\ tries[r][p].firing <= Current
        /\ tries[r][p].firing = Current /\ tries[r][p].gaveUp =>
              /\ marker[p] >= Current
              /\ ~(Executing(r) /\ run[r].pipeline = p)
        /\ tries[r][p].firing = Current /\ ~tries[r][p].gaveUp /\ published[p][Current] = 0 =>
              tries[r][p].n <= Spent(budget[r][p])

\* A replica that has used up its budget is about to give up, or was stopped.
WithinBudget ==
    \A r \in Replicas, p \in Pipelines : r \notin ctxEnded =>
        \/ Spent(budget[r][p]) < MaxAttemptsPerFiring + storeErrors
        \/ /\ Active(r) /\ run[r].pc = "giveup" /\ run[r].pipeline = p
           /\ Spent(budget[r][p]) <= MaxAttemptsPerFiring + storeErrors

IInv ==
    /\ TypeOK /\ InStep /\ Faulted /\ OneExecutor /\ ClaimStands /\ ServedOnce
    /\ PublishedOnce /\ Counted /\ WithinBudget /\ BudgetBounds

-----------------------------------------------------------------------------
(* The schedule.                                                           *)

\* A set of naturals with a bound has a largest element.
LEMMA Largest ==
    ASSUME NEW S \in SUBSET Nat, S # {}, NEW n \in Nat, \A s \in S : s <= n
    PROVE  \E m \in S : \A s \in S : s <= m
<1> DEFINE Above(x) == {s \in S : s >= x}
           T == {Above(x) : x \in S}
<1>1. \A x \in S : Above(x) \in FiniteSubsetsOf(Nat)
  <2> TAKE x \in S
  <2>1. Above(x) \in SUBSET Nat /\ \A s \in Above(x) : s <= n
    OBVIOUS
  <2>2. IsFiniteSet(Above(x))
    BY <2>1, FS_BoundedSetOfNaturals
  <2> QED BY <2>1, <2>2 DEF FiniteSubsetsOf
<1>2. T \subseteq FiniteSubsetsOf(Nat) /\ T # {}
  BY <1>1
<1>3. IsWellFoundedOn(StrictSubsetOrdering(Nat), FiniteSubsetsOf(Nat))
  BY FS_StrictSubsetOrderingWellFounded
<1> HIDE DEF T
<1>4. \E y \in T : \A z \in T : <<z, y>> \notin StrictSubsetOrdering(Nat)
  BY <1>2, <1>3, WFMin
<1>5. PICK m \in S : \A z \in T : <<z, Above(m)>> \notin StrictSubsetOrdering(Nat)
  BY <1>4 DEF T
<1>6. ASSUME NEW s \in S, s > m PROVE FALSE
  <2>1. Above(s) \in T /\ Above(s) \in SUBSET Nat /\ Above(m) \in SUBSET Nat
    BY DEF T
  <2>2. \A x \in S : x >= s => x >= m
    BY <1>6
  <2>3. Above(s) \subseteq Above(m)
    BY <2>2
  <2>4. m >= m /\ ~(m >= s)
    BY <1>6
  <2>5. Above(s) # Above(m)
    BY <2>4
  <2>6. <<Above(s), Above(m)>> \in StrictSubsetOrdering(Nat)
    BY <2>1, <2>3, <2>5 DEF StrictSubsetOrdering
  <2> QED BY <1>5, <2>1, <2>6
<1> QED BY <1>6

LEMMA FiringsAreTimes == \A f \in Firings : f \in Nat /\ f >= 1 /\ f \in Times
<1> TAKE f \in Firings
<1>1. f \in 1 .. MaxTime
  BY ConstantsAssumption
<1> QED BY <1>1, ConstantsAssumption DEF Times

\* prevFiring is a firing, not later than now, and none lies between.
LEMMA PrevFiringIs ==
    ASSUME NEW t \in 1 .. MaxTime
    PROVE  /\ PrevFiring(t) \in Firings /\ PrevFiring(t) <= t
           /\ \A g \in Firings : g <= t => g <= PrevFiring(t)
<1> DEFINE S == {f \in Firings : f <= t}
<1>1. t \in Nat /\ \A f \in Firings : f \in Nat
  BY ConstantsAssumption
<1>2. 1 \in S
  BY ConstantsAssumption
<1>3. S \in SUBSET Nat /\ \A s \in S : s <= t
  BY <1>1
<1>4. \E m \in S : \A s \in S : s <= m
  BY <1>1, <1>2, <1>3, Largest
<1>5. \E f \in Firings : f <= t /\ \A g \in Firings : g <= t => g <= f
  BY <1>4
<1> QED BY <1>5 DEF PrevFiring

\* The schedule does not go back, and moves only when it fires.
LEMMA PrevFiringMoves ==
    ASSUME NEW t \in 1 .. MaxTime, t + 1 \in 1 .. MaxTime
    PROVE  /\ t + 1 \notin Firings => PrevFiring(t + 1) = PrevFiring(t)
           /\ t + 1 \in Firings => PrevFiring(t + 1) = t + 1 /\ PrevFiring(t) < t + 1
<1>1. t \in Nat /\ \A f \in Firings : f \in Nat
  BY ConstantsAssumption
<1>2. /\ PrevFiring(t) \in Firings /\ PrevFiring(t) <= t
      /\ \A g \in Firings : g <= t => g <= PrevFiring(t)
  BY PrevFiringIs
<1>3. /\ PrevFiring(t + 1) \in Firings /\ PrevFiring(t + 1) <= t + 1
      /\ \A g \in Firings : g <= t + 1 => g <= PrevFiring(t + 1)
  BY PrevFiringIs
<1>4. ASSUME t + 1 \notin Firings PROVE PrevFiring(t + 1) = PrevFiring(t)
  <2>1. PrevFiring(t + 1) <= t /\ PrevFiring(t) <= t + 1
    BY <1>1, <1>2, <1>3, <1>4
  <2>2. PrevFiring(t + 1) <= PrevFiring(t) /\ PrevFiring(t) <= PrevFiring(t + 1)
    BY <1>2, <1>3, <2>1
  <2> QED BY <1>1, <1>2, <1>3, <2>2
<1>5. ASSUME t + 1 \in Firings PROVE PrevFiring(t + 1) = t + 1 /\ PrevFiring(t) < t + 1
  <2>1. t + 1 <= PrevFiring(t + 1)
    BY <1>3, <1>5
  <2> QED BY <1>1, <1>2, <1>3, <2>1
<1> QED BY <1>4, <1>5

-----------------------------------------------------------------------------
(* Types.                                                                  *)

\* The type of a function that changes in one place, or in one of two.
LEMMA Slot ==
    ASSUME NEW S, NEW T, NEW f \in [S -> T], NEW i \in S, NEW t \in T
    PROVE  [f EXCEPT ![i] = t] \in [S -> T]
    OBVIOUS

LEMMA SlotOfSlot ==
    ASSUME NEW S, NEW U, NEW T, NEW f \in [S -> [U -> T]], NEW i \in S, NEW j \in U, NEW t \in T
    PROVE  [f EXCEPT ![i][j] = t] \in [S -> [U -> T]]
    OBVIOUS

\* What a sweep carries: an active one is between two targets or in a run.
LEMMA RunShape ==
    ASSUME TypeOK, NEW r \in Replicas, Active(r)
    PROVE  /\ run[r].pc = "next" => run[r] \in Between
           /\ run[r].pc # "next" => run[r] \in Running
    BY DEF TypeOK, Active, Between, Running, Idle

Budgets == [count : Nat, gaveUp : BOOLEAN]
Tallies == [firing : Times, n : Nat, gaveUp : BOOLEAN]

\* What a run starts with.
LEMMA TargetTyped ==
    ASSUME TypeOK, NEW r \in Replicas, NEW p \in Pipelines, MayRun(r, p)
    PROVE  Target(r, p) \in Running
<1>1. run[r] \in Between
  BY RunShape DEF MayRun
<1>2. clock \in Times /\ marker[p] \in Times /\ PrevFiring(clock) \in Firings
  BY PrevFiringIs, ConstantsAssumption DEF TypeOK, Times
<1> QED BY <1>1, <1>2 DEF Target, Running, Between

\* The sweep goes on to the next target, or an idle one.
LEMMA NextTyped ==
    ASSUME NEW u \in Running
    PROVE  [pc |-> "next", todo |-> u.todo \ {u.pipeline}] \in Between
    BY DEF Running, Between

\* The budget and the tally of one more failure.
LEMMA SpentIs ==
    ASSUME NEW b \in Budgets, NEW fault
    PROVE  /\ SpentBudget(b, fault) \in Budgets /\ ~SpentBudget(b, fault).gaveUp
           /\ SpentBudget(b, fault).count =
                IF fault = "permanent" THEN Spent(b) ELSE Spent(b) + 1
           /\ Spent(b) \in Nat
<1> DEFINE fresh == IF b.gaveUp THEN NoBudget ELSE b
<1>1. fresh \in Budgets /\ ~fresh.gaveUp /\ fresh.count = Spent(b) /\ Spent(b) \in Nat
  BY DEF Budgets, NoBudget, Spent
<1>2. SpentBudget(b, fault) = IF fault = "permanent" THEN fresh ELSE [fresh EXCEPT !.count = @ + 1]
  BY DEF SpentBudget
<1> HIDE DEF fresh
<1>3. [fresh EXCEPT !.count = @ + 1] \in Budgets
  BY <1>1 DEF Budgets
<1>4. /\ [fresh EXCEPT !.count = @ + 1].count = fresh.count + 1
      /\ [fresh EXCEPT !.count = @ + 1].gaveUp = fresh.gaveUp
  BY <1>1 DEF Budgets
<1> QED BY <1>1, <1>2, <1>3, <1>4

LEMMA OneMoreIs ==
    ASSUME NEW t \in Tallies, NEW f \in Times
    PROVE  /\ OneMore(t, f) \in Tallies
           /\ OneMore(t, f).firing = f
           /\ t.firing # f => OneMore(t, f).n = 1 /\ ~OneMore(t, f).gaveUp
           /\ t.firing = f => OneMore(t, f).n <= t.n + 1 /\ OneMore(t, f).gaveUp = t.gaveUp
<1>1. CASE t.firing # f
  BY <1>1 DEF OneMore, Tallies
<1>2. CASE t.firing = f /\ t.n > MaxAttemptsPerFiring + MaxFaults
  <2>1. OneMore(t, f) = t
    BY <1>2 DEF OneMore
  <2> QED BY <1>2, <2>1 DEF Tallies
<1>3. CASE t.firing = f /\ ~(t.n > MaxAttemptsPerFiring + MaxFaults)
  <2>1. OneMore(t, f) = [t EXCEPT !.n = @ + 1]
    BY <1>3 DEF OneMore
  <2> QED BY <1>3, <2>1 DEF Tallies
<1> QED BY <1>1, <1>2, <1>3

\* Charging a failed run changes one budget, one tally and the run.
LEMMA ChargeTyped ==
    ASSUME TypeOK, NEW r \in Replicas, NEW u \in Running, NEW fault,
           NEW counts \in [Replicas -> [Pipelines -> Tallies]], Charge(r, u, fault, counts)
    PROVE  /\ run' \in [Replicas -> Running \cup Between \cup {Idle}]
           /\ budget' \in [Replicas -> [Pipelines -> Budgets]]
           /\ tries' \in [Replicas -> [Pipelines -> Tallies]]
<1> DEFINE p == u.pipeline
           spent == SpentBudget(budget[r][p], fault)
           more == OneMore(counts[r][p], u.firing)
<1>1. p \in Pipelines /\ u.firing \in Times
  <2>1. u.firing \in Firings /\ u.pipeline \in Pipelines
    BY DEF Running
  <2> QED BY <2>1, FiringsAreTimes
<1>2. budget[r][p] \in Budgets /\ counts[r][p] \in Tallies
  BY <1>1 DEF TypeOK, Budgets
<1>3. spent \in Budgets
  BY <1>2, SpentIs
<1>4. more \in Tallies
  BY <1>1, <1>2, OneMoreIs
<1>5. budget' = [budget EXCEPT ![r][p] = spent]
  BY DEF Charge
<1>6. tries' = counts \/ tries' = [counts EXCEPT ![r][p] = more]
  BY DEF Charge
<1>7. [u EXCEPT !.pc = "giveup"] \in Running
  BY DEF Running
<1>8. \E v \in Running \cup Between \cup {Idle} : run' = [run EXCEPT ![r] = v]
  BY <1>7, NextTyped DEF Charge
<1>9. run \in [Replicas -> Running \cup Between \cup {Idle}]
      /\ budget \in [Replicas -> [Pipelines -> Budgets]]
  BY DEF TypeOK, Budgets
<1> HIDE DEF spent, more, p
<1>10. run' \in [Replicas -> Running \cup Between \cup {Idle}]
  BY <1>8, <1>9, Slot
<1>11. budget' \in [Replicas -> [Pipelines -> Budgets]]
  BY <1>1, <1>3, <1>5, <1>9, SlotOfSlot
<1>12. tries' \in [Replicas -> [Pipelines -> Tallies]]
  <2>1. CASE tries' = counts
    BY <2>1
  <2>2. CASE tries' = [counts EXCEPT ![r][p] = more]
    BY <1>1, <1>4, <2>2, SlotOfSlot
  <2> QED BY <1>6, <2>1, <2>2
<1> QED BY <1>10, <1>11, <1>12

\* Steps keep the types.
LEMMA TypeOKStep == TypeOK /\ [Next]_vars => TypeOK'
<1> SUFFICES ASSUME TypeOK, [Next]_vars PROVE TypeOK'
  OBVIOUS
<1> DEFINE Runs == [Replicas -> Running \cup Between \cup {Idle}]
           Bs == [Replicas -> [Pipelines -> Budgets]]
           Ts == [Replicas -> [Pipelines -> Tallies]]
<1>0. /\ clock \in 1 .. MaxTime /\ marker \in [Pipelines -> Times] /\ run \in Runs
      /\ budget \in Bs /\ ctxEnded \subseteq Replicas
      /\ published \in [Pipelines -> [Firings -> Nat]]
      /\ tries \in Ts /\ ends \in Nat /\ storeErrors \in Nat
  BY DEF TypeOK, Budgets, Tallies
<1>a. clock \in Times /\ Never \in Times /\ 0 \in Nat
  BY <1>0, ConstantsAssumption DEF Times, Never
<1>b. NoBudget \in Budgets /\ NoTries \in Tallies
  BY <1>a DEF NoBudget, Budgets, NoTries, Tallies
<1>c. ASSUME run' \in Runs, budget' \in Bs, tries' \in Ts, marker' \in [Pipelines -> Times],
             UNCHANGED <<clock, ctxEnded, published, ends>>,
             storeErrors' \in {storeErrors, storeErrors + 1}
      PROVE  TypeOK'
  BY <1>0, <1>c DEF TypeOK, Budgets, Tallies
<1>d. ASSUME NEW r \in Replicas, Active(r), run[r].pc # "next", NextTarget(r)
      PROVE  run' \in Runs
  BY <1>0, <1>d, RunShape, NextTyped, Slot DEF NextTarget
<1>1. ASSUME NEW r \in Replicas, NEW targets \in SUBSET Pipelines, Tick(r, targets) PROVE TypeOK'
  <2>1. [pc |-> "next", todo |-> targets] \in Between
    BY DEF Between
  <2>2. run' \in Runs
    BY <1>0, <1>1, <2>1, Slot DEF Tick
  <2> QED BY <1>0, <1>1, <1>c, <2>2 DEF Tick, history, faults
<1>2. ASSUME NEW r \in Replicas, FinishTick(r) PROVE TypeOK'
  <2>1. run' \in Runs
    BY <1>0, <1>2, Slot DEF FinishTick
  <2> QED BY <1>0, <1>2, <1>c, <2>1 DEF FinishTick, history, faults
<1>3. ASSUME NEW r \in Replicas, NEW p \in Pipelines, ReadRunLog(r, p) PROVE TypeOK'
  <2>1. MayRun(r, p) /\ run[r] \in Between
    BY <1>3, RunShape DEF ReadRunLog, MayRun
  <2>2. [pc |-> "next", todo |-> run[r].todo \ {p}] \in Between
    BY <2>1 DEF Between
  <2>3. Target(r, p) \in Running
    BY <2>1, TargetTyped
  <2>4. \E v \in Running \cup Between : run' = [run EXCEPT ![r] = v]
    BY <1>3, <2>2, <2>3 DEF ReadRunLog
  <2>5. run' \in Runs
    BY <1>0, <2>4, Slot
  <2> QED BY <1>0, <1>3, <1>c, <2>5 DEF ReadRunLog, history, faults
<1>4. ASSUME NEW r \in Replicas, ClaimPipelineRun(r) PROVE TypeOK'
  <2>1. Active(r) /\ run[r] \in Running
    BY <1>4, RunShape DEF ClaimPipelineRun
  <2>2. [run[r] EXCEPT !.pc = "executing"] \in Running /\ run[r].now \in Times
        /\ run[r].pipeline \in Pipelines
    BY <2>1 DEF Running
  <2>3. marker' \in [Pipelines -> Times]
    BY <1>0, <1>4, <2>2, Slot DEF ClaimPipelineRun
  <2>4. run' \in Runs /\ budget' \in Bs /\ tries' \in Ts
    <3>1. CASE run' = [run EXCEPT ![r].pc = "executing"] /\ UNCHANGED <<budget, tries>>
      BY <1>0, <2>2, <3>1, Slot
    <3>2. CASE NextTarget(r) /\ UNCHANGED <<budget, tries>>
      BY <1>0, <1>4, <1>d, <3>2 DEF ClaimPipelineRun
    <3>3. CASE Charge(r, run[r], "transient", tries)
      BY <1>0, <2>1, <3>3, ChargeTyped DEF Faults
    <3> QED BY <1>4, <3>1, <3>2, <3>3 DEF ClaimPipelineRun
  <2>5. storeErrors' \in {storeErrors, storeErrors + 1} /\ UNCHANGED <<clock, ctxEnded, published, ends>>
    BY <1>4 DEF ClaimPipelineRun, StoreFails
  <2> QED BY <1>c, <2>3, <2>4, <2>5
<1>5. ASSUME NEW r \in Replicas, ExecuteSucceeds(r) PROVE TypeOK'
  <2>1. Active(r) /\ run[r] \in Running
    BY <1>5, RunShape DEF ExecuteSucceeds
  <2>2. [run[r] EXCEPT !.pc = "recording"] \in Running /\ run[r].pipeline \in Pipelines
        /\ run[r].firing \in Firings
    BY <2>1 DEF Running
  <2>3. run' \in Runs
    BY <1>0, <1>5, <2>2, Slot DEF ExecuteSucceeds
  <2>4. published' \in [Pipelines -> [Firings -> Nat]]
    <3>1. published[run[r].pipeline][run[r].firing] + 1 \in Nat
      BY <1>0, <2>2
    <3>2. published' = [published EXCEPT ![run[r].pipeline][run[r].firing] =
                          published[run[r].pipeline][run[r].firing] + 1]
      BY <1>5 DEF ExecuteSucceeds
    <3> QED BY <1>0, <2>2, <3>1, <3>2, SlotOfSlot
  <2> QED BY <1>0, <1>5, <2>3, <2>4 DEF ExecuteSucceeds, faults, TypeOK, Budgets, Tallies
<1>6. ASSUME NEW r \in Replicas, NEW fault \in Faults, ExecuteFails(r, fault) PROVE TypeOK'
  <2>1. Active(r) /\ run[r] \in Running
    BY <1>6, RunShape DEF ExecuteFails
  <2>2. [run[r] EXCEPT !.pc = "releasing", !.fault = fault] \in Running
    BY <2>1 DEF Running
  <2>3. run' = [run EXCEPT ![r] = [run[r] EXCEPT !.pc = "releasing", !.fault = fault]]
    BY <1>0, <1>6 DEF ExecuteFails
  <2>4. run' \in Runs
    BY <1>0, <2>2, <2>3, Slot
  <2> QED BY <1>0, <1>6, <1>c, <2>4 DEF ExecuteFails, history, faults
<1>7. ASSUME NEW r \in Replicas, NEW fault \in Faults, NEW p \in Pipelines,
             EarlyFault(r, p, fault) PROVE TypeOK'
  <2>1. Target(r, p) \in Running
    BY <1>7, TargetTyped DEF EarlyFault
  <2>2. run' \in Runs /\ budget' \in Bs /\ tries' \in Ts
    BY <1>0, <1>7, <2>1, ChargeTyped DEF EarlyFault
  <2> QED BY <1>0, <1>7, <1>c, <2>2 DEF EarlyFault, StoreFails
<1>8. ASSUME NEW r \in Replicas, RecordPipelineRun(r) PROVE TypeOK'
  <2>1. Active(r) /\ run[r] \in Running /\ run[r].pc # "next" /\ NextTarget(r)
    BY <1>8, RunShape DEF RecordPipelineRun
  <2>2. run[r].now \in Times /\ run[r].pipeline \in Pipelines
    BY <2>1 DEF Running
  <2>3. marker' \in [Pipelines -> Times]
    BY <1>0, <1>8, <2>2, Slot DEF RecordPipelineRun
  <2>4. budget' \in Bs
    BY <1>0, <1>8, <1>b, <2>2, SlotOfSlot DEF RecordPipelineRun
  <2> QED BY <1>0, <1>8, <1>c, <1>d, <2>1, <2>3, <2>4 DEF RecordPipelineRun, history, StoreFails
<1>9. ASSUME NEW r \in Replicas, ReleasePipelineRun(r) PROVE TypeOK'
  <2>1. Active(r) /\ run[r] \in Running /\ run[r].pc = "releasing"
    BY <1>9, RunShape DEF ReleasePipelineRun
  <2>2. run[r].previous \in Times /\ run[r].pipeline \in Pipelines
    BY <2>1 DEF Running
  <2>3. marker' \in [Pipelines -> Times]
    BY <1>0, <1>9, <2>2, Slot DEF ReleasePipelineRun
  <2>4. TakenBack(r) \in Ts
    BY <1>0, <1>b, <2>2, Slot DEF TakenBack
  <2>5. PICK counts \in {TakenBack(r), tries} :
           \/ NextTarget(r) /\ tries' = counts /\ UNCHANGED budget
           \/ Charge(r, run[r], run[r].fault, counts)
    BY <1>9 DEF ReleasePipelineRun
  <2>6. counts \in Ts
    BY <1>0, <2>4
  <2>7. run' \in Runs /\ budget' \in Bs /\ tries' \in Ts
    <3>1. CASE NextTarget(r) /\ tries' = counts /\ UNCHANGED budget
      BY <1>0, <1>d, <2>1, <2>6, <3>1
    <3>2. CASE Charge(r, run[r], run[r].fault, counts)
      BY <2>1, <2>6, <3>2, ChargeTyped
    <3> QED BY <2>5, <3>1, <3>2
  <2> QED BY <1>9, <1>c, <2>3, <2>7 DEF ReleasePipelineRun, StoreFails
<1>10. ASSUME NEW r \in Replicas, GiveUp(r) PROVE TypeOK'
  <2>1. Active(r) /\ run[r] \in Running /\ run[r].pc # "next" /\ NextTarget(r)
    BY <1>10, RunShape DEF GiveUp
  <2>2. run[r].pipeline \in Pipelines
    BY <2>1 DEF Running
  <2>3. marker' \in [Pipelines -> Times]
    BY <1>0, <1>10, <1>a, <2>2, Slot DEF GiveUp
  <2>4. budget[r][run[r].pipeline] \in Budgets /\ tries[r][run[r].pipeline] \in Tallies
    BY <1>0, <2>2
  <2> DEFINE p == run[r].pipeline
             b == [count |-> budget[r][p].count, gaveUp |-> TRUE]
             t == [firing |-> tries[r][p].firing, n |-> tries[r][p].n, gaveUp |-> TRUE]
  <2>5. b \in Budgets /\ t \in Tallies
    BY <2>4 DEF Budgets, Tallies
  <2>6. budget' \in Bs
    <3>1. UNCHANGED budget \/ budget' = [budget EXCEPT ![r][p] = b]
      BY <1>10 DEF GiveUp
    <3>2. p \in Pipelines
      BY <2>2
    <3> HIDE DEF p, b, t
    <3>3. CASE UNCHANGED budget
      BY <1>0, <3>3
    <3>4. CASE budget' = [budget EXCEPT ![r][p] = b]
      BY <1>0, <3>2, <2>5, <3>4, SlotOfSlot
    <3> QED BY <3>1, <3>3, <3>4
  <2>7. tries' \in Ts
    <3>1. UNCHANGED tries \/ tries' = [tries EXCEPT ![r][p] = t]
      BY <1>10 DEF GiveUp
    <3>2. p \in Pipelines
      BY <2>2
    <3> HIDE DEF p, b, t
    <3>3. CASE UNCHANGED tries
      BY <1>0, <3>3
    <3>4. CASE tries' = [tries EXCEPT ![r][p] = t]
      BY <1>0, <3>2, <2>5, <3>4, SlotOfSlot
    <3> QED BY <3>1, <3>3, <3>4
  <2> QED BY <1>10, <1>c, <1>d, <2>1, <2>3, <2>6, <2>7 DEF GiveUp, StoreFails
<1>e. ASSUME NEW r \in Replicas, Forget(r) PROVE budget' \in Bs /\ tries' \in Ts
  <2>1. [p \in Pipelines |-> NoBudget] \in [Pipelines -> Budgets]
        /\ [p \in Pipelines |-> NoTries] \in [Pipelines -> Tallies]
    BY <1>b
  <2> QED BY <1>0, <1>e, <2>1, Slot DEF Forget
<1>11. ASSUME NEW r \in Replicas, Restart(r) PROVE TypeOK'
  BY <1>0, <1>11, <1>e DEF Restart, faults, TypeOK, Budgets, Tallies
<1>12. ASSUME NEW r \in Replicas, Crash(r) PROVE TypeOK'
  <2>1. run' \in Runs
    BY <1>0, <1>12, Slot DEF Crash
  <2> QED BY <1>0, <1>12, <1>e, <2>1 DEF Crash, TypeOK, Budgets, Tallies
<1>13. ASSUME NEW r \in Replicas, Stop(r) PROVE TypeOK'
  BY <1>0, <1>13 DEF Stop, history, TypeOK, Budgets, Tallies
<1>14. ASSUME Advance PROVE TypeOK'
  BY <1>0, <1>14, ConstantsAssumption DEF Advance, history, faults, TypeOK, Budgets, Tallies
<1>15. ASSUME UNCHANGED vars PROVE TypeOK'
  BY <1>0, <1>15 DEF vars, TypeOK, Budgets, Tallies
<1> QED
  BY <1>1, <1>2, <1>3, <1>4, <1>5, <1>6, <1>7, <1>8, <1>9, <1>10, <1>11, <1>12, <1>13, <1>14,
     <1>15 DEF Next, Step
-----------------------------------------------------------------------------
(* What a step does to the runs.                                           *)

InRunPcs == {"due", "executing", "recording", "releasing", "giveup"}
ExecutingPcs == {"executing", "recording", "releasing"}

\* The pc tells whether a sweep is in a run, now and after a step.
LEMMA PcIs ==
    ASSUME TypeOK, NEW r \in Replicas
    PROVE  /\ InRun(r) <=> run[r].pc \in InRunPcs
           /\ InRun(r) => run[r] \in Running
           /\ Executing(r) <=> run[r].pc \in ExecutingPcs
           /\ Executing(r) => InRun(r)
    BY DEF TypeOK, InRun, Executing, Active, Between, Running, Idle, InRunPcs, ExecutingPcs

LEMMA PcIsNext ==
    ASSUME TypeOK', NEW r \in Replicas
    PROVE  /\ InRun(r)' <=> run'[r].pc \in InRunPcs
           /\ InRun(r)' => run'[r] \in Running
           /\ Executing(r)' <=> run'[r].pc \in ExecutingPcs
           /\ Executing(r)' => InRun(r)'
    BY DEF TypeOK, InRun, Executing, Active, Between, Running, Idle, InRunPcs, ExecutingPcs

\* What a charged failure does to the run.
LEMMA ChargeRuns ==
    ASSUME TypeOK, NEW r \in Replicas, NEW u \in Running, NEW fault, NEW counts,
           Charge(r, u, fault, counts)
    PROVE  /\ \A q \in Replicas : q # r => run'[q] = run[q]
           /\ \/ run'[r].pc = "next"
              \/ /\ run'[r].pc = "giveup" /\ run'[r].pipeline = u.pipeline
                 /\ run'[r].firing = u.firing /\ run'[r].now = u.now
<1>1. run \in [Replicas -> Running \cup Between \cup {Idle}]
  BY DEF TypeOK
<1>2. \/ run' = [run EXCEPT ![r] = [u EXCEPT !.pc = "giveup"]]
      \/ run' = [run EXCEPT ![r] = [pc |-> "next", todo |-> u.todo \ {u.pipeline}]]
  BY DEF Charge
<1>3. /\ [u EXCEPT !.pc = "giveup"].pc = "giveup"
      /\ [u EXCEPT !.pc = "giveup"].pipeline = u.pipeline
      /\ [u EXCEPT !.pc = "giveup"].firing = u.firing
      /\ [u EXCEPT !.pc = "giveup"].now = u.now
  BY DEF Running
<1> DEFINE quit == [u EXCEPT !.pc = "giveup"]
           next == [pc |-> "next", todo |-> u.todo \ {u.pipeline}]
<1>4. next.pc = "next"
  OBVIOUS
<1> HIDE DEF quit, next
<1>5. ASSUME NEW v, run' = [run EXCEPT ![r] = v]
      PROVE  run'[r] = v /\ \A q \in Replicas : q # r => run'[q] = run[q]
  BY <1>1, <1>5
<1>6. CASE run' = [run EXCEPT ![r] = quit]
  <2>1. run'[r] = quit /\ \A q \in Replicas : q # r => run'[q] = run[q]
    BY <1>5, <1>6
  <2> QED BY <1>3, <2>1 DEF quit
<1>7. CASE run' = [run EXCEPT ![r] = next]
  <2>1. run'[r] = next /\ \A q \in Replicas : q # r => run'[q] = run[q]
    BY <1>5, <1>7
  <2> QED BY <1>4, <2>1
<1> QED BY <1>2, <1>6, <1>7 DEF quit, next

\* Others(r): a step of r leaves every other sweep alone.  It takes r out of
\* a run, moves it on within one, or lets it begin one for the current firing.
Others(r) == \A q \in Replicas : q # r => run'[q] = run[q]
Leaves(r) == run'[r].pc \notin InRunPcs
Begins(r) ==
    /\ run'[r].pc \in {"due", "giveup"}
    /\ run'[r].firing = Current /\ run'[r].now = clock
Moves(r, from, to) ==
    /\ run[r].pc = from /\ run'[r].pc = to
    /\ run'[r].pipeline = run[r].pipeline
    /\ run'[r].firing = run[r].firing /\ run'[r].now = run[r].now
    /\ to = "releasing" => run'[r].fault \in Faults

LEMMA RunSteps ==
    ASSUME TypeOK, NEW r \in Replicas, Step(r) \/ Crash(r) \/ Stop(r)
    PROVE  /\ clock' = clock /\ Others(r)
           /\ \/ Leaves(r) \/ Begins(r) \/ run'[r] = run[r]
              \/ \E from, to \in InRunPcs : Moves(r, from, to)
<1>0. run \in [Replicas -> Running \cup Between \cup {Idle}]
  BY DEF TypeOK
<1> DEFINE Goal == /\ clock' = clock /\ Others(r)
                   /\ \/ Leaves(r) \/ Begins(r) \/ run'[r] = run[r]
                      \/ \E from, to \in InRunPcs : Moves(r, from, to)
<1>a. ASSUME NEW v, run' = [run EXCEPT ![r] = v], v.pc \notin InRunPcs, clock' = clock PROVE Goal
  BY <1>0, <1>a DEF Others, Leaves
<1>b. ASSUME NextTarget(r), clock' = clock PROVE Goal
  <2>1. [pc |-> "next", todo |-> run[r].todo \ {run[r].pipeline}].pc \notin InRunPcs
    BY DEF InRunPcs
  <2>2. run' = [run EXCEPT ![r] = [pc |-> "next", todo |-> run[r].todo \ {run[r].pipeline}]]
    BY <1>b DEF NextTarget
  <2> QED BY <1>a, <1>b, <2>1, <2>2
<1>c. ASSUME NEW u \in Running, NEW fault, NEW counts, Charge(r, u, fault, counts), clock' = clock,
             \/ u = run[r] /\ run[r].pc \in InRunPcs
             \/ u.firing = Current /\ u.now = clock
      PROVE  Goal
  <2>1. /\ \A q \in Replicas : q # r => run'[q] = run[q]
        /\ \/ run'[r].pc = "next"
           \/ /\ run'[r].pc = "giveup" /\ run'[r].pipeline = u.pipeline
              /\ run'[r].firing = u.firing /\ run'[r].now = u.now
    BY <1>c, ChargeRuns
  <2>2. CASE run'[r].pc = "next"
    BY <1>c, <2>1, <2>2 DEF Others, Leaves, InRunPcs
  <2>3. CASE run'[r].pc = "giveup"
    BY <1>c, <2>1, <2>3 DEF Others, Begins, Moves, InRunPcs
  <2> QED BY <2>1, <2>2, <2>3
<1>1. ASSUME NEW targets \in SUBSET Pipelines, Tick(r, targets) PROVE Goal
  BY <1>1, <1>a DEF Tick, InRunPcs
<1>2. ASSUME FinishTick(r) PROVE Goal
  BY <1>2, <1>a DEF FinishTick, InRunPcs, Idle
<1>3. ASSUME NEW p \in Pipelines, ReadRunLog(r, p) PROVE Goal
  <2>1. CASE Due(p)
    BY <1>0, <1>3, <2>1 DEF ReadRunLog, Target, Others, Begins, Current
  <2>2. CASE ~Due(p)
    BY <1>3, <1>a, <2>2 DEF ReadRunLog, InRunPcs
  <2> QED BY <2>1, <2>2
<1>4. ASSUME ClaimPipelineRun(r) PROVE Goal
  <2>1. Active(r) /\ run[r].pc = "due" /\ run[r] \in Running /\ clock' = clock
    BY <1>4, RunShape DEF ClaimPipelineRun
  <2>2. CASE run' = [run EXCEPT ![r].pc = "executing"]
    BY <1>0, <2>1, <2>2 DEF Others, Moves, InRunPcs, Running
  <2>3. CASE NextTarget(r)
    BY <1>b, <2>1, <2>3
  <2>4. CASE Charge(r, run[r], "transient", tries)
    BY <1>c, <2>1, <2>4 DEF InRunPcs
  <2> QED BY <1>4, <2>2, <2>3, <2>4 DEF ClaimPipelineRun
<1>5. ASSUME ExecuteSucceeds(r) PROVE Goal
  <2>1. Active(r) /\ run[r].pc = "executing" /\ run[r] \in Running /\ clock' = clock
    BY <1>5, RunShape DEF ExecuteSucceeds
  <2> QED BY <1>0, <1>5, <2>1 DEF ExecuteSucceeds, Others, Moves, InRunPcs, Running
<1>6. ASSUME NEW fault \in Faults, ExecuteFails(r, fault) PROVE Goal
  <2>1. Active(r) /\ run[r].pc = "executing" /\ run[r] \in Running /\ clock' = clock
    BY <1>6, RunShape DEF ExecuteFails
  <2>2. run' = [run EXCEPT ![r] = [run[r] EXCEPT !.pc = "releasing", !.fault = fault]]
    BY <1>0, <1>6 DEF ExecuteFails
  <2> QED BY <1>0, <2>1, <2>2 DEF Others, Moves, InRunPcs, Running
<1>7. ASSUME NEW fault \in Faults, NEW p \in Pipelines, EarlyFault(r, p, fault) PROVE Goal
  <2>1. Target(r, p) \in Running
    BY <1>7, TargetTyped DEF EarlyFault
  <2>2. Target(r, p).firing = Current /\ Target(r, p).now = clock
    BY DEF Target, Current
  <2> QED BY <1>7, <1>c, <2>1, <2>2 DEF EarlyFault
<1>8. ASSUME RecordPipelineRun(r) PROVE Goal
  BY <1>8, <1>b DEF RecordPipelineRun
<1>9. ASSUME ReleasePipelineRun(r) PROVE Goal
  <2>1. Active(r) /\ run[r].pc = "releasing" /\ run[r] \in Running /\ clock' = clock
    BY <1>9, RunShape DEF ReleasePipelineRun
  <2>2. NextTarget(r) \/ \E counts : Charge(r, run[r], run[r].fault, counts)
    BY <1>9 DEF ReleasePipelineRun
  <2> QED BY <1>b, <1>c, <2>1, <2>2 DEF InRunPcs
<1>10. ASSUME GiveUp(r) PROVE Goal
  BY <1>10, <1>b DEF GiveUp
<1>11. ASSUME Restart(r) \/ Stop(r) PROVE Goal
  BY <1>11 DEF Restart, Stop, Others
<1>12. ASSUME Crash(r) PROVE Goal
  BY <1>12, <1>a DEF Crash, Idle, InRunPcs
<1> QED
  BY <1>1, <1>2, <1>3, <1>4, <1>5, <1>6, <1>7, <1>8, <1>9, <1>10, <1>11, <1>12 DEF Step

\* Without overruns every run is for the current firing.
LEMMA InStepStep ==
    ASSUME ~Overruns, TypeOK, TypeOK', InStep, [Next]_vars
    PROVE  InStep'
<1>1. CASE UNCHANGED vars
  BY <1>1 DEF InStep, vars, InRun, Active, Current
<1>2. CASE Advance
  <2>1. clock \in 1 .. MaxTime /\ clock + 1 \in 1 .. MaxTime /\ clock' = clock + 1 /\ run' = run
    BY <1>2 DEF Advance, TypeOK
  <2>2. CASE clock + 1 \notin Firings
    <3>1. Current' = Current
      BY <2>1, <2>2, PrevFiringMoves DEF Current
    <3>2. \A r \in Replicas : InRun(r) => run[r].now \in Nat
      BY PcIs DEF Running, Times
    <3> QED BY <2>1, <3>1, <3>2 DEF InStep, InRun, Active
  <2>3. CASE \A r \in Replicas : ~InRun(r)
    BY <2>1, <2>3 DEF InStep, InRun, Active
  <2> QED BY <1>2, <2>2, <2>3 DEF Advance
<1>3. ASSUME NEW r \in Replicas, Step(r) \/ Crash(r) \/ Stop(r) PROVE InStep'
  <2>1. /\ clock' = clock /\ Others(r)
        /\ \/ Leaves(r) \/ Begins(r) \/ run'[r] = run[r]
           \/ \E from, to \in InRunPcs : Moves(r, from, to)
    BY <1>3, RunSteps
  <2>2. Current' = Current /\ Current \in Nat /\ clock \in Nat /\ Current <= clock
    BY <2>1, PrevFiringIs, FiringsAreTimes DEF Current, TypeOK
  <2> SUFFICES ASSUME NEW q \in Replicas, InRun(q)'
               PROVE  run'[q].firing = Current /\ Current <= run'[q].now /\ run'[q].now <= clock
    BY <2>1, <2>2 DEF InStep
  <2>3. CASE run'[q] = run[q]
    BY <2>3, PcIs, PcIsNext DEF InStep
  <2>4. CASE q = r /\ Begins(r)
    BY <2>2, <2>4 DEF Begins
  <2>5. CASE q = r /\ \E from, to \in InRunPcs : Moves(r, from, to)
    BY <2>5, PcIs DEF InStep, Moves
  <2>6. CASE q = r /\ Leaves(r)
    BY <2>6, PcIsNext DEF Leaves
  <2> QED BY <2>1, <2>3, <2>4, <2>5, <2>6 DEF Others
<1> QED BY <1>1, <1>2, <1>3 DEF Next

LEMMA FaultedStep ==
    ASSUME TypeOK, TypeOK', Faulted, [Next]_vars
    PROVE  Faulted'
<1>1. CASE UNCHANGED vars \/ Advance
  BY <1>1 DEF Faulted, vars, Advance, InRun, Active
<1>2. ASSUME NEW r \in Replicas, Step(r) \/ Crash(r) \/ Stop(r) PROVE Faulted'
  <2>1. /\ Others(r)
        /\ \/ Leaves(r) \/ Begins(r) \/ run'[r] = run[r]
           \/ \E from, to \in InRunPcs : Moves(r, from, to)
    BY <1>2, RunSteps
  <2> SUFFICES ASSUME NEW q \in Replicas, InRun(q)', run'[q].pc = "releasing"
               PROVE  run'[q].fault \in Faults
    BY DEF Faulted
  <2>3. CASE run'[q] = run[q]
    BY <2>3, PcIs, PcIsNext DEF Faulted
  <2>4. CASE q = r /\ ~(run'[q] = run[q])
    BY <2>1, <2>4, PcIsNext DEF Begins, Leaves, Moves
  <2> QED BY <2>1, <2>3, <2>4 DEF Others
<1> QED BY <1>1, <1>2 DEF Next

-----------------------------------------------------------------------------
(* A claim keeps every other replica out.                                  *)

\* How a step of r bears on the run log and on what is published: it leaves
\* both alone or marks a pipeline as served, and r ends or keeps its run; or
\* it claims, succeeds, fails, or gives its claim back.
Settles(r) ==
    /\ published' = published
    /\ \A x \in Pipelines : marker'[x] = marker[x] \/ marker'[x] >= Current
    /\ run'[r].pc \in ExecutingPcs => run'[r] = run[r]
Claims(r) ==
    /\ published' = published /\ Moves(r, "due", "executing")
    /\ marker' = [marker EXCEPT ![run[r].pipeline] = run[r].now]
    /\ Unclaimed(run[r].pipeline, run[r].firing)
Succeeds(r) ==
    /\ marker' = marker /\ Moves(r, "executing", "recording")
    /\ published' = [published EXCEPT ![run[r].pipeline][run[r].firing] = @ + 1]
Fails(r) ==
    /\ marker' = marker /\ published' = published /\ Moves(r, "executing", "releasing")
Releases(r) ==
    /\ published' = published /\ run[r].pc = "releasing" /\ run'[r].pc \notin ExecutingPcs
    /\ \A x \in Pipelines : x # run[r].pipeline => marker'[x] = marker[x]

LEMMA ServeSteps ==
    ASSUME TypeOK, InStep, NEW r \in Replicas, Step(r) \/ Crash(r) \/ Stop(r)
    PROVE  Settles(r) \/ Claims(r) \/ Succeeds(r) \/ Fails(r) \/ Releases(r)
<1>0. /\ run \in [Replicas -> Running \cup Between \cup {Idle}]
      /\ marker \in [Pipelines -> Times]
  BY DEF TypeOK
<1>a. Current \in Nat /\ clock \in Nat /\ Current <= clock
  BY PrevFiringIs, FiringsAreTimes DEF Current, TypeOK
<1>b. ASSUME NextTarget(r) PROVE run'[r].pc = "next"
  BY <1>0, <1>b DEF NextTarget
<1>1. ASSUME NEW targets \in SUBSET Pipelines, Tick(r, targets) PROVE Settles(r)
  BY <1>0, <1>1 DEF Tick, history, Settles, ExecutingPcs
<1>2. ASSUME FinishTick(r) PROVE Settles(r)
  BY <1>0, <1>2 DEF FinishTick, history, Settles, ExecutingPcs, Idle
<1>3. ASSUME NEW p \in Pipelines, ReadRunLog(r, p) PROVE Settles(r)
  <2>1. run'[r].pc \in {"due", "next"}
    BY <1>0, <1>3 DEF ReadRunLog, Target
  <2> QED BY <1>3, <2>1 DEF ReadRunLog, history, Settles, ExecutingPcs
<1>4. ASSUME ClaimPipelineRun(r) PROVE Settles(r) \/ Claims(r)
  <2>1. Active(r) /\ run[r].pc = "due" /\ run[r] \in Running /\ published' = published
    BY <1>4, RunShape DEF ClaimPipelineRun
  <2>2. CASE run' = [run EXCEPT ![r].pc = "executing"]
             /\ marker' = [marker EXCEPT ![run[r].pipeline] = run[r].now]
             /\ Unclaimed(run[r].pipeline, run[r].firing)
    BY <1>0, <2>1, <2>2 DEF Claims, Moves, Running
  <2>3. CASE NextTarget(r) /\ marker' = marker
    BY <1>b, <2>1, <2>3 DEF Settles, ExecutingPcs
  <2>4. CASE Charge(r, run[r], "transient", tries) /\ marker' = marker
    <3>1. run'[r].pc \in {"next", "giveup"}
      BY <2>1, <2>4, ChargeRuns
    <3> QED BY <2>1, <2>4, <3>1 DEF Settles, ExecutingPcs
  <2> QED BY <1>4, <2>2, <2>3, <2>4 DEF ClaimPipelineRun
<1>5. ASSUME ExecuteSucceeds(r) PROVE Succeeds(r)
  <2>1. run[r].pc = "executing" /\ run[r] \in Running
    BY <1>5, RunShape DEF ExecuteSucceeds
  <2>2. Moves(r, "executing", "recording")
    BY <1>0, <1>5, <2>1 DEF ExecuteSucceeds, Moves, Running
  <2> QED BY <1>5, <2>2 DEF ExecuteSucceeds, Succeeds
<1>6. ASSUME NEW fault \in Faults, ExecuteFails(r, fault) PROVE Fails(r)
  <2>1. run[r].pc = "executing" /\ run[r] \in Running
    BY <1>6, RunShape DEF ExecuteFails
  <2>2. run' = [run EXCEPT ![r] = [run[r] EXCEPT !.pc = "releasing", !.fault = fault]]
    BY <1>0, <1>6 DEF ExecuteFails
  <2>3. Moves(r, "executing", "releasing")
    BY <1>0, <2>1, <2>2 DEF Moves, Running
  <2> QED BY <1>6, <2>3 DEF ExecuteFails, Fails, history
<1>7. ASSUME NEW fault \in Faults, NEW p \in Pipelines, EarlyFault(r, p, fault) PROVE Settles(r)
  <2>1. Target(r, p) \in Running
    BY <1>7, TargetTyped DEF EarlyFault
  <2>2. run'[r].pc \in {"next", "giveup"}
    BY <1>7, <2>1, ChargeRuns DEF EarlyFault
  <2> QED BY <1>7, <2>2 DEF EarlyFault, Settles, ExecutingPcs
<1>8. ASSUME RecordPipelineRun(r) PROVE Settles(r)
  <2>1. Active(r) /\ run[r].pc = "recording" /\ run[r] \in Running /\ run'[r].pc = "next"
    BY <1>8, <1>b, RunShape DEF RecordPipelineRun
  <2>2. InRun(r)
    BY <2>1 DEF InRun
  <2>3. run[r].now >= Current /\ run[r].pipeline \in Pipelines
    BY <1>a, <2>1, <2>2 DEF InStep, Running, Times
  <2>4. \A x \in Pipelines : marker'[x] = marker[x] \/ marker'[x] >= Current
    BY <1>0, <1>8, <2>3 DEF RecordPipelineRun
  <2> QED BY <1>8, <2>1, <2>4 DEF RecordPipelineRun, history, Settles, ExecutingPcs
<1>9. ASSUME ReleasePipelineRun(r) PROVE Releases(r)
  <2>1. Active(r) /\ run[r].pc = "releasing" /\ run[r] \in Running /\ published' = published
    BY <1>9, RunShape DEF ReleasePipelineRun
  <2>2. NextTarget(r) \/ \E counts : Charge(r, run[r], run[r].fault, counts)
    BY <1>9 DEF ReleasePipelineRun
  <2>3. run'[r].pc \in {"next", "giveup"}
    BY <1>b, <2>1, <2>2, ChargeRuns
  <2>4. run[r].pipeline \in Pipelines
    BY <2>1 DEF Running
  <2>5. \A x \in Pipelines : x # run[r].pipeline => marker'[x] = marker[x]
    BY <1>0, <1>9, <2>4 DEF ReleasePipelineRun
  <2> QED BY <2>1, <2>3, <2>5 DEF Releases, ExecutingPcs
<1>10. ASSUME GiveUp(r) PROVE Settles(r)
  <2>1. run'[r].pc = "next" /\ published' = published
    BY <1>10, <1>b DEF GiveUp
  <2>2. \A x \in Pipelines : marker'[x] = marker[x] \/ marker'[x] >= Current
    BY <1>0, <1>10, <1>a DEF GiveUp
  <2> QED BY <2>1, <2>2 DEF Settles, ExecutingPcs
<1>11. ASSUME Restart(r) \/ Stop(r) PROVE Settles(r)
  BY <1>11 DEF Restart, Stop, history, Settles
<1>12. ASSUME Crash(r) PROVE Settles(r)
  BY <1>0, <1>12 DEF Crash, Idle, Settles, ExecutingPcs
<1> QED
  BY <1>1, <1>2, <1>3, <1>4, <1>5, <1>6, <1>7, <1>8, <1>9, <1>10, <1>11, <1>12 DEF Step

Served == OneExecutor /\ ClaimStands /\ ServedOnce /\ PublishedOnce

\* Time passing opens the next firing, which nobody has served yet.
LEMMA ServedLater ==
    ASSUME TypeOK, Served, Advance PROVE Served'
<1>1. /\ clock \in 1 .. MaxTime /\ clock + 1 \in 1 .. MaxTime /\ clock' = clock + 1
      /\ run' = run /\ marker' = marker /\ published' = published
  BY ConstantsAssumption DEF Advance, TypeOK, history
<1>2. Current \in Nat /\ Current' \in Firings /\ Current' \in Nat /\ (Current' = Current \/ Current' > Current)
  BY <1>1, PrevFiringMoves, PrevFiringIs, FiringsAreTimes DEF Current
<1>3. \A q \in Replicas : Executing(q)' <=> Executing(q)
  BY <1>1 DEF Executing, Active
<1>4. OneExecutor' /\ ClaimStands' /\ PublishedOnce'
  BY <1>1, <1>3 DEF Served, OneExecutor, ClaimStands, PublishedOnce
<1>5. CASE Current' = Current
  BY <1>1, <1>3, <1>4, <1>5 DEF Served, ServedOnce
<1>6. CASE Current' > Current
  <2>1. \A f \in Firings : f > Current' => f > Current
    BY <1>2, <1>6, FiringsAreTimes
  <2>2. \A p \in Pipelines : published[p][Current'] = 0
    BY <1>2, <1>6 DEF Served, ServedOnce
  <2>3. \A p \in Pipelines, f \in Firings : f > Current' => published[p][f] = 0
    BY <2>1 DEF Served, ServedOnce
  <2> QED BY <1>1, <1>3, <1>4, <2>2, <2>3 DEF Served, ServedOnce
<1> QED BY <1>2, <1>5, <1>6

LEMMA ServedStep ==
    ASSUME TypeOK, TypeOK', InStep, Served, [Next]_vars PROVE Served'
<1>1. CASE UNCHANGED vars
  BY <1>1 DEF vars, Served, OneExecutor, ClaimStands, ServedOnce, PublishedOnce, Executing, Active,
     Current
<1>2. CASE Advance
  BY <1>2, ServedLater
<1>3. ASSUME NEW r \in Replicas, Step(r) \/ Crash(r) \/ Stop(r) PROVE Served'
  <2>0. /\ marker \in [Pipelines -> Times] /\ published \in [Pipelines -> [Firings -> Nat]]
        /\ Current \in Firings /\ Current \in Nat /\ Current >= 1
        /\ \A x \in Pipelines : marker[x] \in Nat
    BY PrevFiringIs, FiringsAreTimes DEF TypeOK, Current, Times
  <2>1. Current' = Current /\ \A q \in Replicas : q # r => run'[q] = run[q]
    BY <1>3, RunSteps DEF Others, Current
  <2>2. \A q \in Replicas : /\ Executing(q) <=> run[q].pc \in ExecutingPcs
                            /\ Executing(q)' <=> run'[q].pc \in ExecutingPcs
    BY PcIs, PcIsNext
  <2>3. \A q \in Replicas : Executing(q) => /\ run[q].pipeline \in Pipelines /\ run[q].firing = Current
                                            /\ run[q].now \in Nat /\ run[q].now >= Current
    BY <2>0, PcIs DEF InStep, Running, Times
  <2>4. CASE Settles(r)
    <3>1. \A q \in Replicas : Executing(q)' => Executing(q) /\ run'[q] = run[q]
      BY <2>1, <2>2, <2>4 DEF Settles
    <3>2. published' = published
          /\ \A x \in Pipelines : marker[x] >= Current => marker'[x] >= Current
      BY <2>4 DEF Settles
    <3>3. OneExecutor' /\ PublishedOnce'
      BY <3>1, <3>2 DEF Served, OneExecutor, PublishedOnce
    <3>4. ClaimStands'
      BY <2>3, <3>1, <3>2 DEF Served, ClaimStands
    <3>5. ServedOnce'
      BY <2>0, <2>1, <3>1, <3>2 DEF Served, ServedOnce
    <3> QED BY <3>3, <3>4, <3>5 DEF Served
  <2>5. CASE Claims(r)
    <3> DEFINE p == run[r].pipeline
    <3>1. InRun(r) /\ p \in Pipelines /\ run[r].firing = Current
          /\ run[r].now \in Nat /\ run[r].now >= Current
      BY <2>0, <2>5, PcIs DEF Claims, Moves, InRunPcs, InStep, Running, Times
    <3>2. marker[p] < Current
      BY <2>0, <2>5, <3>1 DEF Claims, Unclaimed, Never
    <3>3. /\ run'[r].pc = "executing" /\ run'[r].pipeline = p /\ run'[r].firing = Current
          /\ published' = published /\ marker' = [marker EXCEPT ![p] = run[r].now]
      BY <2>5, <3>1 DEF Claims, Moves
    <3>4. \A q \in Replicas : Executing(q) => run[q].pipeline # p
      BY <2>0, <2>3, <3>1, <3>2 DEF Served, ClaimStands
    <3>5. published[p][Current] = 0
      BY <2>0, <3>1, <3>2 DEF Served, ServedOnce
    <3>6. marker'[p] >= Current /\ \A x \in Pipelines : x # p => marker'[x] = marker[x]
      BY <2>0, <3>1, <3>3
    <3> HIDE DEF p
    <3>7. \A q \in Replicas : q # r /\ Executing(q)' =>
              Executing(q) /\ run'[q] = run[q] /\ run'[q].pipeline # p
      BY <2>1, <2>2, <3>4
    <3>8. OneExecutor' /\ PublishedOnce'
      BY <3>3, <3>7 DEF Served, OneExecutor, PublishedOnce
    <3>9. ClaimStands'
      BY <2>3, <3>3, <3>6, <3>7 DEF Served, ClaimStands
    <3>10. ServedOnce'
      <4>1. \A x \in Pipelines, f \in Firings : f > Current' => published'[x][f] = 0
        BY <2>1, <3>3 DEF Served, ServedOnce
      <4>2. \A x \in Pipelines : published'[x][Current'] > 0 =>
              /\ marker'[x] >= Current'
              /\ \A q \in Replicas : Executing(q)' /\ run'[q].pipeline = x => run'[q].pc = "recording"
        BY <2>0, <2>1, <3>3, <3>5, <3>6, <3>7 DEF Served, ServedOnce
      <4>3. \A q \in Replicas : Executing(q)' /\ run'[q].pc = "recording" =>
              published'[run'[q].pipeline][run'[q].firing] > 0
        BY <3>3, <3>7 DEF Served, ServedOnce
      <4> QED BY <4>1, <4>2, <4>3 DEF ServedOnce
    <3> QED BY <3>8, <3>9, <3>10 DEF Served
  <2>6. CASE Succeeds(r)
    <3> DEFINE p == run[r].pipeline
    <3>1. Executing(r) /\ run[r].pc = "executing" /\ p \in Pipelines /\ run[r].firing = Current
      BY <2>2, <2>3, <2>6 DEF Succeeds, Moves, ExecutingPcs
    <3>2. published[p][Current] = 0
      BY <2>0, <3>1 DEF Served, ServedOnce
    <3>3. /\ run'[r].pc = "recording" /\ run'[r].pipeline = p /\ run'[r].firing = Current
          /\ marker' = marker /\ published' = [published EXCEPT ![p][Current] = @ + 1]
      BY <2>6, <3>1 DEF Succeeds, Moves
    <3>4. published'[p][Current] = 1 /\ marker[p] >= Current
      BY <2>0, <3>1, <3>2, <3>3 DEF Served, ClaimStands
    <3>5. \A x \in Pipelines, f \in Firings : x # p \/ f # Current => published'[x][f] = published[x][f]
      BY <2>0, <3>3
    <3> HIDE DEF p
    <3>6. \A q \in Replicas : q # r /\ Executing(q)' =>
              Executing(q) /\ run'[q] = run[q] /\ run'[q].pipeline # p
      BY <2>1, <2>2, <3>1 DEF Served, OneExecutor, p
    <3>7. OneExecutor' /\ ClaimStands'
      BY <2>3, <3>1, <3>3, <3>4, <3>6 DEF Served, OneExecutor, ClaimStands
    <3>8. PublishedOnce'
      <4> SUFFICES ASSUME NEW x \in Pipelines, NEW f \in Firings PROVE published'[x][f] <= 1
        BY DEF PublishedOnce
      <4>1. CASE x = p /\ f = Current
        BY <3>4, <4>1
      <4>2. CASE x # p \/ f # Current
        BY <3>5, <4>2 DEF Served, PublishedOnce
      <4> QED BY <4>1, <4>2
    <3>9. ServedOnce'
      <4>0. \A f \in Firings : f > Current => f # Current
        BY <2>0, FiringsAreTimes
      <4>a. \A x \in Pipelines, f \in Firings : f > Current => published[x][f] = 0
        BY DEF Served, ServedOnce
      <4>1. \A x \in Pipelines, f \in Firings : f > Current' => published'[x][f] = 0
        BY <2>1, <3>5, <4>0, <4>a
      <4>2. \A x \in Pipelines : published'[x][Current'] > 0 =>
              /\ marker'[x] >= Current'
              /\ \A q \in Replicas : Executing(q)' /\ run'[q].pipeline = x => run'[q].pc = "recording"
        BY <2>0, <2>1, <3>3, <3>4, <3>5, <3>6 DEF Served, ServedOnce
      <4>3. \A q \in Replicas : Executing(q)' /\ run'[q].pc = "recording" =>
              published'[run'[q].pipeline][run'[q].firing] > 0
        BY <2>0, <2>3, <3>3, <3>4, <3>5, <3>6 DEF Served, ServedOnce
      <4> QED BY <4>1, <4>2, <4>3 DEF ServedOnce
    <3> QED BY <3>7, <3>8, <3>9 DEF Served
  <2>7. CASE Fails(r)
    <3>1. Executing(r) /\ run[r].pc = "executing"
      BY <2>2, <2>7 DEF Fails, Moves, ExecutingPcs
    <3>2. \A q \in Replicas : Executing(q)' => /\ Executing(q) /\ run'[q].pipeline = run[q].pipeline
                                               /\ run'[q].firing = run[q].firing
                                               /\ run'[q].pc = "recording" <=> run[q].pc = "recording"
      BY <2>1, <2>2, <2>7, <3>1 DEF Fails, Moves
    <3>3. published' = published /\ marker' = marker
      BY <2>7 DEF Fails
    <3> QED BY <2>1, <3>2, <3>3 DEF Served, OneExecutor, ClaimStands, ServedOnce, PublishedOnce
  <2>8. CASE Releases(r)
    <3> DEFINE p == run[r].pipeline
    <3>1. Executing(r) /\ run[r].pc = "releasing" /\ p \in Pipelines
      BY <2>2, <2>3, <2>8 DEF Releases, ExecutingPcs
    <3>2. published[p][Current] = 0
      BY <2>0, <3>1 DEF Served, ServedOnce
    <3>3. published' = published /\ \A x \in Pipelines : x # p => marker'[x] = marker[x]
      BY <2>8 DEF Releases
    <3>4. \A q \in Replicas : Executing(q)' => Executing(q) /\ run'[q] = run[q] /\ run[q].pipeline # p
      BY <2>1, <2>2, <2>8, <3>1 DEF Releases, Served, OneExecutor
    <3> HIDE DEF p
    <3>5. OneExecutor' /\ PublishedOnce'
      BY <3>3, <3>4 DEF Served, OneExecutor, PublishedOnce
    <3>6. ClaimStands'
      BY <2>3, <3>3, <3>4 DEF Served, ClaimStands
    <3>7. ServedOnce'
      BY <2>1, <3>2, <3>3, <3>4 DEF Served, ServedOnce
    <3> QED BY <3>5, <3>6, <3>7 DEF Served
  <2> QED BY <1>3, <2>4, <2>5, <2>6, <2>7, <2>8, ServeSteps
<1> QED BY <1>1, <1>2, <1>3 DEF Next

-----------------------------------------------------------------------------
(* The attempt budget.                                                     *)

\* The failures a firing may cost, with e failed calls.
Limit(e) == MaxAttemptsPerFiring + e

LEMMA LimitIs ==
    ASSUME NEW d \in Nat, NEW e \in Nat
    PROVE  /\ Limit(d) \in Nat /\ Limit(d) > 0 /\ Limit(d) >= MaxAttemptsPerFiring
           /\ d <= e => Limit(d) <= Limit(e)
           /\ d < e => Limit(d) + 1 <= Limit(e)
    BY ConstantsAssumption DEF Limit

GivesUp(q, x) == run[q].pc = "giveup" /\ run[q].pipeline = x
Works(q, x) == Executing(q) /\ run[q].pipeline = x
GaveUpNow(q, x) == tries[q][x].firing = Current /\ tries[q][x].gaveUp

\* Counted, WithinBudget and BudgetBounds for one replica and one pipeline.
Tallied(q, x) ==
    /\ tries[q][x].firing <= Current
    /\ GaveUpNow(q, x) => marker[x] >= Current /\ ~Works(q, x)
    /\ tries[q][x].firing = Current /\ ~tries[q][x].gaveUp /\ published[x][Current] = 0 =>
          tries[q][x].n <= Spent(budget[q][x])
    /\ q \notin ctxEnded =>
          \/ Spent(budget[q][x]) < Limit(storeErrors)
          \/ GivesUp(q, x) /\ Spent(budget[q][x]) <= Limit(storeErrors)
    /\ tries[q][x].n <= Limit(storeErrors)

LEMMA TalliedIs ==
    ASSUME TypeOK
    PROVE  (Counted /\ WithinBudget /\ BudgetBounds) <=>
             \A q \in Replicas, x \in Pipelines : Tallied(q, x)
<1>1. \A q \in Replicas : run[q].pc = "giveup" => Active(q)
  BY DEF Active, Idle
<1>2. ASSUME (Counted /\ WithinBudget /\ BudgetBounds), NEW q \in Replicas, NEW x \in Pipelines
      PROVE  Tallied(q, x)
  BY <1>2 DEF Counted, WithinBudget, BudgetBounds, Tallied, Limit, GivesUp, Works, GaveUpNow
<1>3. ASSUME \A q \in Replicas, x \in Pipelines : Tallied(q, x)
      PROVE  Counted /\ BudgetBounds
  BY <1>3 DEF Counted, BudgetBounds, Tallied, Limit, Works, GaveUpNow
<1>4. ASSUME \A q \in Replicas, x \in Pipelines : Tallied(q, x)
      PROVE  WithinBudget
  BY <1>1, <1>4 DEF WithinBudget, Tallied, Limit, GivesUp
<1> QED BY <1>2, <1>3, <1>4

LEMMA TalliedIsNext ==
    ASSUME TypeOK'
    PROVE  (Counted /\ WithinBudget /\ BudgetBounds)' <=>
             \A q \in Replicas, x \in Pipelines : Tallied(q, x)'
<1>1. \A q \in Replicas : run'[q].pc = "giveup" => Active(q)'
  BY DEF Active, Idle
<1>2. ASSUME (Counted /\ WithinBudget /\ BudgetBounds)', NEW q \in Replicas, NEW x \in Pipelines
      PROVE  Tallied(q, x)'
  BY <1>2 DEF Counted, WithinBudget, BudgetBounds, Tallied, Limit, GivesUp, Works, GaveUpNow
<1>3. ASSUME \A q \in Replicas, x \in Pipelines : Tallied(q, x)'
      PROVE  Counted' /\ BudgetBounds'
  BY <1>3 DEF Counted, BudgetBounds, Tallied, Limit, Works, GaveUpNow
<1>4. ASSUME \A q \in Replicas, x \in Pipelines : Tallied(q, x)'
      PROVE  WithinBudget'
  BY <1>1, <1>4 DEF WithinBudget, Tallied, Limit, GivesUp
<1> QED BY <1>2, <1>3, <1>4

\* The numbers involved.
LEMMA Numbers ==
    ASSUME TypeOK, NEW q \in Replicas, NEW x \in Pipelines
    PROVE  /\ Spent(budget[q][x]) \in Nat /\ tries[q][x] \in Tallies /\ tries[q][x].n \in Nat
           /\ tries[q][x].firing \in Nat /\ budget[q][x] \in Budgets
           /\ Limit(storeErrors) \in Nat /\ Limit(storeErrors) > 0 /\ storeErrors \in Nat
           /\ marker[x] \in Nat /\ Current \in Firings /\ Current \in Nat /\ Current >= 1
           /\ Current \in Times /\ Current <= clock /\ clock \in Nat /\ published[x][Current] \in Nat
<1>1. /\ budget[q][x] \in Budgets /\ tries[q][x] \in Tallies /\ marker[x] \in Times
      /\ storeErrors \in Nat /\ clock \in 1 .. MaxTime
  BY DEF TypeOK, Budgets, Tallies
<1>2. Spent(budget[q][x]) \in Nat
  BY <1>1 DEF Spent, Budgets
<1>3. Limit(storeErrors) \in Nat /\ Limit(storeErrors) > 0
  BY <1>1, ConstantsAssumption DEF Limit
<1>4. Current \in Firings /\ Current <= clock
  BY <1>1, PrevFiringIs DEF Current
<1>5. published[x][Current] \in Nat
  BY <1>4 DEF TypeOK
<1>6. tries[q][x].n \in Nat /\ tries[q][x].firing \in Nat
  BY <1>1 DEF Tallies, Times
<1> QED BY <1>1, <1>2, <1>3, <1>4, <1>5, <1>6, FiringsAreTimes DEF Times

LEMMA NumbersNext ==
    ASSUME TypeOK', NEW q \in Replicas, NEW x \in Pipelines
    PROVE  /\ Spent(budget[q][x])' \in Nat /\ tries'[q][x].n \in Nat
           /\ Limit(storeErrors') \in Nat /\ Limit(storeErrors') > 0 /\ storeErrors' \in Nat /\ marker'[x] \in Nat
<1>1. /\ budget'[q][x] \in Budgets /\ tries'[q][x] \in Tallies /\ marker'[x] \in Times
      /\ storeErrors' \in Nat
  BY DEF TypeOK, Budgets, Tallies
<1>2. Spent(budget[q][x])' \in Nat
  BY <1>1 DEF Spent, Budgets
<1>3. Limit(storeErrors') \in Nat /\ Limit(storeErrors') > 0
  BY <1>1, LimitIs
<1> QED BY <1>1, <1>2, <1>3 DEF Tallies, Times

\* A replica and pipeline whose budget and tally a step leaves alone.
LEMMA Bystander ==
    ASSUME TypeOK, TypeOK', NEW q \in Replicas, NEW x \in Pipelines, Tallied(q, x),
           tries'[q][x] = tries[q][x], budget'[q][x] = budget[q][x], Current' = Current,
           storeErrors' >= storeErrors,
           q \notin ctxEnded' => q \notin ctxEnded,
           published'[x][Current] = 0 => published[x][Current] = 0,
           GaveUpNow(q, x) => marker'[x] = marker[x] \/ marker'[x] >= Current,
           Works(q, x)' => Works(q, x) \/ ~GaveUpNow(q, x),
           GivesUp(q, x) => GivesUp(q, x)' \/ storeErrors' > storeErrors \/ q \in ctxEnded'
    PROVE  Tallied(q, x)'
<1>1. Spent(budget[q][x])' = Spent(budget[q][x]) /\ (GaveUpNow(q, x)' <=> GaveUpNow(q, x))
  BY DEF Spent, GaveUpNow
<1>2. /\ Limit(storeErrors') >= Limit(storeErrors)
      /\ storeErrors' > storeErrors => Limit(storeErrors') > Limit(storeErrors)
  BY LimitIs DEF TypeOK
<1> QED BY <1>1, <1>2, Numbers, NumbersNext DEF Tallied

\* A replica that starts counting afresh.
LEMMA Afresh ==
    ASSUME TypeOK, TypeOK', NEW q \in Replicas, NEW x \in Pipelines, Tallied(q, x),
           tries'[q][x] = NoTries, budget'[q][x] \in {NoBudget, budget[q][x]},
           Current' = Current, storeErrors' >= storeErrors,
           \/ budget'[q][x] = NoBudget
           \/ ctxEnded' = ctxEnded /\ (GivesUp(q, x) => GivesUp(q, x)')
    PROVE  Tallied(q, x)'
<1>1. tries'[q][x].firing = 0 /\ tries'[q][x].n = 0
  BY DEF NoTries, Never
<1>2. Current >= 1 /\ Current \in Nat /\ ~GaveUpNow(q, x)'
  BY <1>1, Numbers DEF GaveUpNow
<1>3. budget'[q][x] = NoBudget => Spent(budget[q][x])' = 0
  BY DEF NoBudget, Spent
<1>4. budget'[q][x] = budget[q][x] => Spent(budget[q][x])' = Spent(budget[q][x])
  BY DEF Spent
<1>5. Limit(storeErrors') >= Limit(storeErrors)
  BY LimitIs DEF TypeOK
<1> QED BY <1>1, <1>2, <1>3, <1>4, <1>5, Numbers, NumbersNext DEF Tallied

\* A replica that is not the one taking the step.
LEMMA OtherBystander ==
    ASSUME TypeOK, TypeOK', NEW r \in Replicas, Others(r), clock' = clock,
           NEW q \in Replicas, NEW x \in Pipelines, q # r, Tallied(q, x),
           tries'[q][x] = tries[q][x], budget'[q][x] = budget[q][x],
           storeErrors' >= storeErrors, q \notin ctxEnded' => q \notin ctxEnded,
           published'[x][Current] = 0 => published[x][Current] = 0,
           GaveUpNow(q, x) => marker'[x] = marker[x] \/ marker'[x] >= Current
    PROVE  Tallied(q, x)'
<1>1. run'[q] = run[q] /\ Current' = Current
  BY DEF Others, Current
<1>2. (Works(q, x)' <=> Works(q, x)) /\ (GivesUp(q, x)' <=> GivesUp(q, x))
  BY <1>1, PcIs, PcIsNext DEF Works, GivesUp
<1> QED BY <1>1, <1>2, Bystander

\* What a charged failure does to budgets and tallies.
LEMMA ChargeIs ==
    ASSUME TypeOK, NEW r \in Replicas, NEW u \in Running, NEW fault \in Faults,
           NEW counts \in [Replicas -> [Pipelines -> Tallies]], Charge(r, u, fault, counts)
    PROVE  /\ budget'[r][u.pipeline] = SpentBudget(budget[r][u.pipeline], fault)
           /\ fault # "transient" => tries'[r][u.pipeline] = counts[r][u.pipeline]
           /\ fault = "transient" =>
                tries'[r][u.pipeline] = OneMore(counts[r][u.pipeline], u.firing)
           /\ \A q \in Replicas, x \in Pipelines : q # r \/ x # u.pipeline =>
                tries'[q][x] = counts[q][x] /\ budget'[q][x] = budget[q][x]
           /\ \/ run'[r].pc = "giveup" /\ run'[r].pipeline = u.pipeline
              \/ fault # "transient"
              \/ SpentBudget(budget[r][u.pipeline], fault).count < MaxAttemptsPerFiring
<1> DEFINE p == u.pipeline
           b == SpentBudget(budget[r][p], fault)
           t == OneMore(counts[r][p], u.firing)
<1>1. p \in Pipelines /\ budget \in [Replicas -> [Pipelines -> Budgets]]
  BY DEF TypeOK, Budgets, Running
<1>2. budget' = [budget EXCEPT ![r][p] = b]
  BY DEF Charge
<1>3. tries' = IF fault = "transient" THEN [counts EXCEPT ![r][p] = t] ELSE counts
  BY DEF Charge
<1>4. \/ fault = "transient" /\ run' = [run EXCEPT ![r] = [u EXCEPT !.pc = "giveup"]]
      \/ fault # "transient"
      \/ ~(b.count >= MaxAttemptsPerFiring)
  BY DEF Charge
<1>5. b.count \in Nat
  <2>1. budget[r][p] \in Budgets
    BY <1>1
  <2>2. b \in Budgets
    BY <2>1, SpentIs
  <2> QED BY <2>2 DEF Budgets
<1>6. \/ run'[r].pc = "giveup" /\ run'[r].pipeline = p
      \/ fault # "transient"
      \/ b.count < MaxAttemptsPerFiring
  <2>1. CASE run' = [run EXCEPT ![r] = [u EXCEPT !.pc = "giveup"]]
    <3>1. run \in [Replicas -> Running \cup Between \cup {Idle}]
      BY DEF TypeOK
    <3>2. run'[r] = [u EXCEPT !.pc = "giveup"]
      BY <2>1, <3>1
    <3> QED BY <3>2 DEF Running
  <2>2. CASE ~(b.count >= MaxAttemptsPerFiring)
    BY <1>5, <2>2, ConstantsAssumption
  <2> QED BY <1>4, <2>1, <2>2
<1> HIDE DEF p, b, t
<1>7. budget'[r][p] = b /\ \A q \in Replicas, x \in Pipelines : q # r \/ x # p => budget'[q][x] = budget[q][x]
  BY <1>1, <1>2
<1>8. /\ fault = "transient" => tries'[r][p] = t
      /\ fault # "transient" => tries'[r][p] = counts[r][p]
      /\ \A q \in Replicas, x \in Pipelines : q # r \/ x # p => tries'[q][x] = counts[q][x]
  BY <1>1, <1>3
<1> QED BY <1>6, <1>7, <1>8 DEF p, b, t

\* The replica whose failure is charged: the call that failed raises the
\* limit, or the failure is one of work that was claimed and not given up on.
LEMMA Charged ==
    ASSUME TypeOK, TypeOK', NEW r \in Replicas, NEW u \in Running, NEW fault \in Faults,
           NEW counts \in [Replicas -> [Pipelines -> Tallies]], Charge(r, u, fault, counts),
           Tallied(r, u.pipeline), counts[r][u.pipeline] = tries[r][u.pipeline],
           u.firing = Current, clock' = clock, ctxEnded' = ctxEnded, r \notin ctxEnded,
           ~GivesUp(r, u.pipeline), published' = published,
           storeErrors' \in {storeErrors, storeErrors + 1},
           \/ marker' = marker /\ (fault = "transient" => storeErrors' = storeErrors + 1)
           \/ ~GaveUpNow(r, u.pipeline) /\ published[u.pipeline][Current] = 0
    PROVE  Tallied(r, u.pipeline)'
<1> DEFINE p == u.pipeline
           B == budget[r][p]
           t == tries[r][p]
<1>0. p \in Pipelines
  BY DEF Running
<1>1. /\ Spent(B) \in Nat /\ t \in Tallies /\ t.n \in Nat /\ t.firing \in Nat /\ B \in Budgets
      /\ Limit(storeErrors) \in Nat /\ Limit(storeErrors) > 0 /\ storeErrors \in Nat
      /\ Current \in Times /\ Current \in Nat
  BY <1>0, Numbers
<1>2. /\ Limit(storeErrors') \in Nat /\ Limit(storeErrors') >= Limit(storeErrors)
      /\ storeErrors' = storeErrors + 1 => Limit(storeErrors') >= Limit(storeErrors) + 1
  BY <1>1, LimitIs
<1>3. /\ budget'[r][p] = SpentBudget(B, fault)
      /\ fault # "transient" => tries'[r][p] = t
      /\ fault = "transient" => tries'[r][p] = OneMore(t, Current)
      /\ \/ run'[r].pc = "giveup" /\ run'[r].pipeline = p
         \/ fault # "transient"
         \/ SpentBudget(B, fault).count < MaxAttemptsPerFiring
  BY ChargeIs
<1>4. /\ ~SpentBudget(B, fault).gaveUp
      /\ SpentBudget(B, fault).count = IF fault = "permanent" THEN Spent(B) ELSE Spent(B) + 1
  BY <1>1, SpentIs
<1>5. Spent(budget[r][p])' = IF fault = "transient" THEN Spent(B) + 1 ELSE Spent(B)
  <2>1. Spent(SpentBudget(B, fault)) = SpentBudget(B, fault).count
    BY <1>4 DEF Spent
  <2>2. Spent(budget[r][p])' = Spent(SpentBudget(B, fault))
    BY <1>3 DEF Spent
  <2> QED BY <1>4, <2>1, <2>2 DEF Faults
<1>6. Current' = Current /\ Spent(B) < Limit(storeErrors) /\ t.n <= Limit(storeErrors)
  BY DEF Current, Tallied
<1>7. ~Works(r, p)'
  <2>1. run'[r].pc \in {"next", "giveup"}
    BY ChargeRuns
  <2> QED BY <2>1, PcIsNext DEF Works, ExecutingPcs
<1>8. /\ tries'[r][p].firing <= Current /\ tries'[r][p].n \in Nat
      /\ GaveUpNow(r, p)' <=> GaveUpNow(r, p)
      /\ fault = "transient" => tries'[r][p].n <= (IF t.firing = Current THEN t.n + 1 ELSE 1)
      /\ fault = "transient" => tries'[r][p].firing = Current
  <2>1. CASE fault # "transient"
    BY <1>1, <1>3, <1>6, <2>1 DEF Tallied, GaveUpNow
  <2>2. CASE fault = "transient"
    <3>1. /\ OneMore(t, Current) \in Tallies /\ OneMore(t, Current).firing = Current
          /\ t.firing # Current => OneMore(t, Current).n = 1 /\ ~OneMore(t, Current).gaveUp
          /\ t.firing = Current => OneMore(t, Current).n <= t.n + 1 /\ OneMore(t, Current).gaveUp = t.gaveUp
      BY <1>1, OneMoreIs
    <3>2. tries'[r][p] = OneMore(t, Current)
      BY <1>3, <2>2
    <3>3. tries'[r][p].n \in Nat
      BY <3>1, <3>2 DEF Tallies
    <3>4. GaveUpNow(r, p)' <=> GaveUpNow(r, p)
      BY <1>6, <3>1, <3>2 DEF GaveUpNow
    <3> QED BY <1>1, <3>1, <3>2, <3>3, <3>4
  <2> QED BY <2>1, <2>2
<1> HIDE DEF p, B, t
<1>9. GaveUpNow(r, p)' => marker'[p] >= Current'
  BY <1>6, <1>8 DEF Tallied, p
<1>10. tries'[r][p].firing = Current' /\ ~tries'[r][p].gaveUp /\ published'[p][Current'] = 0 =>
          tries'[r][p].n <= Spent(budget[r][p])'
  <2> SUFFICES ASSUME tries'[r][p].firing = Current, ~tries'[r][p].gaveUp, published[p][Current] = 0
               PROVE  tries'[r][p].n <= Spent(budget[r][p])'
    BY <1>6
  <2>1. ~GaveUpNow(r, p)
    BY <1>6, <1>8 DEF GaveUpNow
  <2>2. t.firing = Current => t.n <= Spent(B)
    BY <2>1 DEF Tallied, GaveUpNow, p, t, B
  <2> QED BY <1>1, <1>3, <1>5, <1>8, <2>2 DEF Faults
<1>11. \/ Spent(budget[r][p])' < Limit(storeErrors')
       \/ GivesUp(r, p)' /\ Spent(budget[r][p])' <= Limit(storeErrors')
  <2>1. CASE fault # "transient"
    BY <1>1, <1>2, <1>5, <1>6, <2>1
  <2>2. CASE fault = "transient" /\ run'[r].pc = "giveup" /\ run'[r].pipeline = p
    BY <1>1, <1>2, <1>5, <1>6, <2>2 DEF GivesUp
  <2>3. CASE fault = "transient" /\ SpentBudget(B, fault).count < MaxAttemptsPerFiring
    <3>1. Limit(storeErrors') >= MaxAttemptsPerFiring
      BY <1>1, LimitIs
    <3> QED BY <1>1, <1>2, <1>4, <1>5, <2>3, <3>1, ConstantsAssumption
  <2> QED BY <1>3, <2>1, <2>2, <2>3
<1>12. tries'[r][p].n <= Limit(storeErrors')
  <2>1. CASE fault # "transient"
    BY <1>1, <1>2, <1>3, <1>6, <2>1
  <2>2. CASE fault = "transient" /\ storeErrors' = storeErrors + 1
    BY <1>1, <1>2, <1>6, <1>8, <2>2
  <2>3. CASE fault = "transient" /\ ~GaveUpNow(r, p) /\ published[p][Current] = 0
    <3>1. t.firing = Current => t.n <= Spent(B)
      BY <2>3 DEF Tallied, GaveUpNow, p, t, B
    <3> QED BY <1>1, <1>2, <1>6, <1>8, <2>3, <3>1
  <2> QED BY <2>1, <2>2, <2>3 DEF p
<1> QED BY <1>6, <1>7, <1>8, <1>9, <1>10, <1>11, <1>12 DEF Tallied, p

\* Every step keeps every replica's count of every pipeline.
LEMMA TalliedStep ==
    ASSUME TypeOK, TypeOK', InStep, Faulted, Served, [Next]_vars,
           \A q \in Replicas, x \in Pipelines : Tallied(q, x)
    PROVE  \A q \in Replicas, x \in Pipelines : Tallied(q, x)'
<1> TAKE q \in Replicas, x \in Pipelines
<1>0. Tallied(q, x) /\ storeErrors \in Nat
  BY DEF TypeOK
<1>1. CASE UNCHANGED vars
  <2>1. Current' = Current /\ (Works(q, x)' <=> Works(q, x)) /\ (GivesUp(q, x)' <=> GivesUp(q, x))
    BY <1>1 DEF vars, Current, Works, GivesUp, Executing, Active
  <2> QED BY <1>0, <1>1, <2>1, Bystander DEF vars
<1>2. CASE Advance
  <2>1. /\ clock \in 1 .. MaxTime /\ clock + 1 \in 1 .. MaxTime /\ clock' = clock + 1
        /\ UNCHANGED <<marker, run, budget, ctxEnded, published, tries, storeErrors>>
    BY <1>2, ConstantsAssumption DEF Advance, TypeOK, history, faults
  <2>2. /\ Current \in Nat /\ Current' \in Nat /\ Current' \in Firings
        /\ Current' = Current \/ Current' > Current
    BY <2>1, PrevFiringMoves, PrevFiringIs, FiringsAreTimes DEF Current
  <2>3. (Works(q, x)' <=> Works(q, x)) /\ (GivesUp(q, x)' <=> GivesUp(q, x))
        /\ Spent(budget[q][x])' = Spent(budget[q][x])
    BY <2>1 DEF Works, GivesUp, Executing, Active, Spent
  <2>4. CASE Current' = Current
    BY <1>0, <2>1, <2>3, <2>4, Bystander
  <2>5. CASE Current' > Current
    <3>1. tries'[q][x].firing < Current'
      BY <1>0, <2>1, <2>2, <2>5, Numbers DEF Tallied
    <3>2. tries[q][x].firing \in Nat
      BY Numbers
    <3>3. tries'[q][x].firing <= Current' /\ tries'[q][x].firing # Current'
      BY <2>1, <2>2, <3>1, <3>2
    <3> QED BY <1>0, <2>1, <2>3, <3>3 DEF Tallied, GaveUpNow
  <2> QED BY <2>2, <2>4, <2>5
<1>3. ASSUME NEW r \in Replicas, Step(r) \/ Crash(r) \/ Stop(r) PROVE Tallied(q, x)'
  <2>0. /\ run \in [Replicas -> Running \cup Between \cup {Idle}]
        /\ marker \in [Pipelines -> Times]
        /\ published \in [Pipelines -> [Firings -> Nat]]
        /\ budget \in [Replicas -> [Pipelines -> Budgets]]
        /\ tries \in [Replicas -> [Pipelines -> Tallies]]
    BY DEF TypeOK, Budgets, Tallies
  <2>a. clock' = clock /\ Others(r) /\ Current' = Current
    BY <1>3, RunSteps DEF Current
  \* A step that touches neither budgets nor tallies.
  <2>b. ASSUME UNCHANGED <<budget, tries>>, storeErrors' >= storeErrors, ctxEnded \subseteq ctxEnded',
               published'[x][Current] = 0 => published[x][Current] = 0,
               \A y \in Pipelines : marker'[y] = marker[y] \/ marker'[y] >= Current,
               run[r].pc = "giveup" =>
                   run'[r] = run[r] \/ storeErrors' > storeErrors \/ r \in ctxEnded',
               Works(r, x)' => Works(r, x) \/ ~GaveUpNow(r, x)
        PROVE  Tallied(q, x)'
    <3>1. CASE q # r
      BY <1>0, <2>a, <2>b, <3>1, OtherBystander
    <3>2. CASE q = r
      <4>1. GivesUp(q, x) => GivesUp(q, x)' \/ storeErrors' > storeErrors \/ q \in ctxEnded'
        BY <2>b, <3>2 DEF GivesUp
      <4> QED BY <1>0, <2>a, <2>b, <3>2, <4>1, Bystander
    <3> QED BY <3>1, <3>2
  \* The bystanders of a charged failure.
  <2>c. ASSUME NEW u \in Running, NEW fault \in Faults, Charge(r, u, fault, tries),
               q # r \/ x # u.pipeline, UNCHANGED <<marker, published, ctxEnded>>,
               run[r].pc # "giveup", storeErrors' >= storeErrors
        PROVE  Tallied(q, x)'
    <3>1. tries'[q][x] = tries[q][x] /\ budget'[q][x] = budget[q][x]
      BY <2>0, <2>c, ChargeIs
    <3>2. CASE q # r
      BY <1>0, <2>a, <2>c, <3>1, <3>2, OtherBystander
    <3>3. CASE q = r
      <4>1. run'[r].pc \in {"next", "giveup"}
        BY <2>c, ChargeRuns
      <4>2. ~Works(q, x)' /\ ~GivesUp(q, x)
        BY <2>c, <3>3, <4>1, PcIsNext DEF Works, GivesUp, ExecutingPcs
      <4> QED BY <1>0, <2>a, <2>c, <3>1, <4>2, Bystander
    <3> QED BY <3>2, <3>3
  <2>1. ASSUME NEW targets \in SUBSET Pipelines, Tick(r, targets) PROVE Tallied(q, x)'
    <3>1. run[r].pc # "giveup" /\ run'[r].pc = "next"
      BY <2>0, <2>1 DEF Tick, Active, Idle
    <3>2. ~Works(r, x)'
      BY <3>1, PcIsNext DEF Works, ExecutingPcs
    <3> QED BY <1>0, <2>1, <2>b, <3>1, <3>2 DEF Tick, history, faults
  <2>2. ASSUME FinishTick(r) PROVE Tallied(q, x)'
    <3>1. run[r].pc # "giveup" /\ run'[r].pc = "idle"
      BY <2>0, <2>2 DEF FinishTick, Idle
    <3>2. ~Works(r, x)'
      BY <3>1, PcIsNext DEF Works, ExecutingPcs
    <3> QED BY <1>0, <2>2, <2>b, <3>1, <3>2 DEF FinishTick, history, faults
  <2>3. ASSUME NEW p \in Pipelines, ReadRunLog(r, p) PROVE Tallied(q, x)'
    <3>1. run[r].pc # "giveup" /\ run'[r].pc \in {"due", "next"}
      BY <2>0, <2>3 DEF ReadRunLog, MayRun, Target
    <3>2. ~Works(r, x)'
      BY <3>1, PcIsNext DEF Works, ExecutingPcs
    <3> QED BY <1>0, <2>3, <2>b, <3>1, <3>2 DEF ReadRunLog, history, faults
  <2>4. ASSUME ClaimPipelineRun(r) PROVE Tallied(q, x)'
    <3> DEFINE p == run[r].pipeline
    <3>1. /\ Active(r) /\ run[r].pc = "due" /\ run[r] \in Running
          /\ UNCHANGED <<clock, ctxEnded, published, ends>>
      BY <2>4, RunShape DEF ClaimPipelineRun
    <3>2. InRun(r) /\ p \in Pipelines /\ run[r].firing = Current /\ run[r].now >= Current
      BY <3>1, PcIs, Numbers DEF InRunPcs, InStep, Running, Times
    <3>3. CASE /\ Unclaimed(p, run[r].firing) /\ marker' = [marker EXCEPT ![p] = run[r].now]
               /\ run' = [run EXCEPT ![r].pc = "executing"]
               /\ UNCHANGED <<budget, tries, storeErrors>>
      <4>1. marker[p] < Current /\ run'[r].pipeline = p
        BY <2>0, <3>1, <3>2, <3>3, Numbers DEF Unclaimed, Never, Running
      <4>2. \A y \in Pipelines : marker'[y] = marker[y] \/ marker'[y] >= Current
        BY <2>0, <3>2, <3>3
      <4>3. ~GaveUpNow(r, p)
        BY <3>2, <4>1, Numbers DEF Tallied
      <4>4. Works(r, x)' => ~GaveUpNow(r, x)
        BY <4>1, <4>3 DEF Works
      <4> QED BY <1>0, <2>b, <3>1, <3>3, <4>2, <4>4
    <3>4. CASE NextTarget(r) /\ UNCHANGED <<marker, budget, tries, storeErrors>>
      <4>1. run'[r].pc = "next"
        BY <2>0, <3>4 DEF NextTarget
      <4>2. ~Works(r, x)'
        BY <4>1, PcIsNext DEF Works, ExecutingPcs
      <4> QED BY <1>0, <2>b, <3>1, <3>4, <4>2
    <3>5. CASE r \notin ctxEnded /\ StoreFails /\ Charge(r, run[r], "transient", tries) /\ UNCHANGED marker
      <4>1. storeErrors' = storeErrors + 1
        BY <3>5 DEF StoreFails
      <4>2. CASE q # r \/ x # p
        BY <1>0, <2>c, <3>1, <3>5, <4>1, <4>2 DEF Faults
      <4>3. CASE q = r /\ x = p
        <5>1. ~GivesUp(r, p)
          BY <3>1 DEF GivesUp
        <5> QED BY <1>0, <2>0, <3>1, <3>2, <3>5, <4>1, <4>3, <5>1, Charged DEF Faults
      <4> QED BY <4>2, <4>3
    <3> QED BY <2>4, <3>3, <3>4, <3>5 DEF ClaimPipelineRun
  <2>5. ASSUME ExecuteSucceeds(r) PROVE Tallied(q, x)'
    <3>1. /\ Active(r) /\ run[r].pc = "executing" /\ run[r] \in Running
          /\ UNCHANGED <<marker, budget, ctxEnded, tries, storeErrors>>
      BY <2>5, RunShape DEF ExecuteSucceeds, faults
    <3>2. Executing(r) /\ run'[r].pipeline = run[r].pipeline
      BY <2>0, <2>5, <3>1, PcIs DEF ExecuteSucceeds, ExecutingPcs, Running
    <3>3. published'[x][Current] = 0 => published[x][Current] = 0
      <4>1. run[r].pipeline \in Pipelines /\ run[r].firing \in Firings /\ Current \in Firings
        BY <3>1, Numbers DEF Running
      <4>2. published' = [published EXCEPT ![run[r].pipeline][run[r].firing] =
                            published[run[r].pipeline][run[r].firing] + 1]
        BY <2>5 DEF ExecuteSucceeds
      <4>3. \A y \in Pipelines, f \in Firings : published[y][f] \in Nat
        BY <2>0
      <4>4. CASE x = run[r].pipeline /\ Current = run[r].firing
        <5>1. published'[x] = [published[x] EXCEPT ![Current] = published[x][Current] + 1]
          BY <2>0, <4>1, <4>2, <4>4
        <5>2. published'[x][Current] = published[x][Current] + 1
          BY <2>0, <4>1, <5>1
        <5> QED BY <4>1, <4>3, <5>2
      <4>5. CASE ~(x = run[r].pipeline /\ Current = run[r].firing)
        <5>1. published'[x][Current] = published[x][Current]
          BY <2>0, <4>1, <4>2, <4>5
        <5> QED BY <5>1
      <4> QED BY <4>4, <4>5
    <3>4. Works(r, x)' => Works(r, x)
      BY <3>2 DEF Works
    <3> QED BY <1>0, <2>b, <3>1, <3>3, <3>4
  <2>6. ASSUME NEW fault \in Faults, ExecuteFails(r, fault) PROVE Tallied(q, x)'
    <3>1. /\ Active(r) /\ run[r].pc = "executing" /\ run[r] \in Running
          /\ UNCHANGED <<marker, budget, ctxEnded, tries, published, storeErrors>>
      BY <2>6, RunShape DEF ExecuteFails, faults, history
    <3>2. run' = [run EXCEPT ![r] = [run[r] EXCEPT !.pc = "releasing", !.fault = fault]]
      BY <2>0, <2>6 DEF ExecuteFails
    <3>3. Executing(r) /\ run'[r].pipeline = run[r].pipeline
      BY <2>0, <3>1, <3>2, PcIs DEF ExecutingPcs, Running
    <3>4. Works(r, x)' => Works(r, x)
      BY <3>3 DEF Works
    <3> QED BY <1>0, <2>b, <3>1, <3>4
  <2>7. ASSUME NEW fault \in Faults, NEW p \in Pipelines, EarlyFault(r, p, fault) PROVE Tallied(q, x)'
    <3>1. /\ Target(r, p) \in Running /\ run[r].pc = "next" /\ r \notin ctxEnded
          /\ Charge(r, Target(r, p), fault, tries)
          /\ UNCHANGED <<clock, marker, ctxEnded, published, ends>>
      BY <2>7, TargetTyped DEF EarlyFault, MayRun
    <3>2. storeErrors' = IF fault = "transient" THEN storeErrors + 1 ELSE storeErrors
      BY <2>7 DEF EarlyFault, StoreFails
    <3>3. Target(r, p).pipeline = p /\ Target(r, p).firing = Current
      BY DEF Target, Current
    <3>4. CASE q # r \/ x # p
      BY <1>0, <2>c, <3>1, <3>2, <3>3, <3>4
    <3>5. CASE q = r /\ x = p
      <4>0. PICK u \in Running : u = Target(r, p)
        BY <3>1
      <4>1. ~GivesUp(r, p)
        BY <3>1 DEF GivesUp
      <4>2. u.pipeline = p /\ u.firing = Current /\ Charge(r, u, fault, tries)
        BY <3>1, <3>3, <4>0
      <4>3. /\ storeErrors' \in {storeErrors, storeErrors + 1}
            /\ fault = "transient" => storeErrors' = storeErrors + 1
        BY <3>2
      <4>4. Tallied(r, u.pipeline)'
        BY <1>0, <2>0, <3>1, <3>5, <4>1, <4>2, <4>3, Charged
      <4> QED BY <3>5, <4>2, <4>4
    <3> QED BY <3>4, <3>5
  <2>8. ASSUME RecordPipelineRun(r) PROVE Tallied(q, x)'
    <3> DEFINE p == run[r].pipeline
    <3>1. /\ Active(r) /\ run[r].pc = "recording" /\ run[r] \in Running
          /\ UNCHANGED <<ctxEnded, published, tries>> /\ run'[r].pc = "next"
      BY <2>0, <2>8, RunShape DEF RecordPipelineRun, history, NextTarget
    <3>2. InRun(r) /\ Executing(r)
      BY <3>1, PcIs DEF InRunPcs, ExecutingPcs
    <3>3. p \in Pipelines /\ run[r].firing = Current /\ run[r].now >= Current
      BY <3>1, <3>2, Numbers DEF InStep, Running, Times
    <3>4. storeErrors' >= storeErrors /\ storeErrors' \in Nat
      BY <1>0, <2>8 DEF RecordPipelineRun, StoreFails
    <3>5. \A y \in Pipelines : marker'[y] = marker[y] \/ marker'[y] >= Current
      BY <2>0, <2>8, <3>3 DEF RecordPipelineRun
    <3>6. ~Works(r, x)'
      BY <3>1, PcIsNext DEF Works, ExecutingPcs
    <3>7. published[p][Current] > 0
      BY <3>1, <3>2, <3>3 DEF Served, ServedOnce
    <3>8. CASE r \in ctxEnded
      <4>1. UNCHANGED budget
        BY <2>8, <3>8 DEF RecordPipelineRun
      <4> QED BY <2>b, <3>1, <3>4, <3>5, <3>6, <4>1
    <3>9. CASE r \notin ctxEnded
      <4>1. budget' = [budget EXCEPT ![r][p] = NoBudget]
        BY <2>8, <3>9 DEF RecordPipelineRun
      <4> HIDE DEF p
      <4>2. budget'[r][p] = NoBudget
            /\ \A v \in Replicas, y \in Pipelines : v # r \/ y # p => budget'[v][y] = budget[v][y]
        BY <2>0, <3>3, <4>1
      <4>3. CASE q # r
        BY <1>0, <2>a, <3>1, <3>4, <3>5, <4>2, <4>3, OtherBystander
      <4>4. CASE q = r /\ x # p
        <5>1. ~GivesUp(q, x)
          BY <3>1, <4>4 DEF GivesUp
        <5> QED BY <1>0, <2>a, <3>1, <3>4, <3>5, <3>6, <4>2, <4>4, <5>1, Bystander
      <4>5. CASE q = r /\ x = p
        <5>1. Spent(budget[q][x])' = 0
          BY <4>2, <4>5 DEF Spent, NoBudget
        <5>2. Limit(storeErrors') >= Limit(storeErrors) /\ Limit(storeErrors') \in Nat /\ Limit(storeErrors') > 0
          BY <1>0, <3>4, LimitIs
        <5>3. (GaveUpNow(q, x)' <=> GaveUpNow(q, x)) /\ ~Works(q, x)'
          BY <2>a, <3>1, <3>6, <4>5 DEF GaveUpNow
        <5>4. GaveUpNow(q, x)' => marker'[x] >= Current
          BY <1>0, <3>5, <5>3 DEF Tallied
        <5>5. ~(published'[x][Current'] = 0)
          BY <2>a, <3>1, <3>7, <4>5
        <5>6. tries'[q][x].n <= Limit(storeErrors') /\ tries'[q][x].firing <= Current'
          BY <1>0, <2>a, <3>1, <5>2, Numbers DEF Tallied
        <5> QED BY <2>a, <5>1, <5>2, <5>3, <5>4, <5>5, <5>6 DEF Tallied
      <4> QED BY <4>3, <4>4, <4>5
    <3> QED BY <3>8, <3>9
  <2>9. ASSUME ReleasePipelineRun(r) PROVE Tallied(q, x)'
    <3> DEFINE p == run[r].pipeline
    <3>1. /\ Active(r) /\ run[r].pc = "releasing" /\ run[r] \in Running
          /\ UNCHANGED <<clock, ctxEnded, published, ends>>
      BY <2>9, RunShape DEF ReleasePipelineRun
    <3>2. InRun(r) /\ Executing(r)
      BY <3>1, PcIs DEF InRunPcs, ExecutingPcs
    <3>3. p \in Pipelines /\ run[r].firing = Current /\ run[r].fault \in Faults
      BY <3>1, <3>2 DEF InStep, Running, Faulted
    <3>4. published[p][Current] = 0 /\ ~GaveUpNow(r, p)
      <4>1. Current \in Firings /\ published[p][Current] \in Nat
        BY <3>3, Numbers
      <4>2. Works(r, p)
        BY <3>2 DEF Works
      <4> QED BY <3>1, <3>2, <3>3, <4>1, <4>2 DEF Served, ServedOnce, Tallied
    <3>5. PICK released \in BOOLEAN :
            /\ marker' = IF released THEN [marker EXCEPT ![p] = run[r].previous] ELSE marker
            /\ IF released THEN UNCHANGED storeErrors ELSE StoreFails
            /\ LET counts == IF released THEN TakenBack(r) ELSE tries
               IN  IF r \in ctxEnded
                     THEN NextTarget(r) /\ tries' = counts /\ UNCHANGED budget
                     ELSE Charge(r, run[r], run[r].fault, counts)
      BY <2>9 DEF ReleasePipelineRun
    <3> DEFINE counts == IF released THEN TakenBack(r) ELSE tries
    <3>6. \/ r \in ctxEnded /\ NextTarget(r) /\ tries' = counts /\ UNCHANGED budget
          \/ r \notin ctxEnded /\ Charge(r, run[r], run[r].fault, counts)
      BY <3>5
    <3>7. /\ storeErrors' \in {storeErrors, storeErrors + 1} /\ storeErrors' >= storeErrors
          /\ \A y \in Pipelines : y # p => marker'[y] = marker[y]
          /\ ~released => marker' = marker
      BY <1>0, <2>0, <3>5 DEF StoreFails
    <3>8. NoTries \in Tallies
      BY ConstantsAssumption DEF NoTries, Never, Times, Tallies
    <3>9. counts \in [Replicas -> [Pipelines -> Tallies]]
      <4>1. TakenBack(r) \in [Replicas -> [Pipelines -> Tallies]]
        BY <2>0, <3>3, <3>8, Slot DEF TakenBack
      <4> QED BY <2>0, <4>1
    <3>10. /\ counts[r] = tries[r]
           /\ \A v \in Replicas, y \in Pipelines :
                \/ counts[v][y] = tries[v][y]
                \/ y = p /\ counts[v][y] = NoTries
           /\ \A v \in Replicas : released /\ v # r /\ GaveUpNow(v, p) => counts[v][p] = NoTries
      BY <2>0, <3>3 DEF TakenBack, Outvotes, GaveUpNow
    <3>11. run'[r].pc \in {"next", "giveup"}
      <4>1. CASE NextTarget(r)
        BY <2>0, <4>1 DEF NextTarget
      <4>2. CASE Charge(r, run[r], run[r].fault, counts)
        BY <3>1, <4>2, ChargeRuns
      <4> QED BY <3>6, <4>1, <4>2
    <3>12. ~Works(r, x)' /\ ~GivesUp(r, x)
      BY <3>1, <3>11, PcIsNext DEF Works, GivesUp, ExecutingPcs
    <3> HIDE DEF counts, p
    <3>13. q # r \/ x # p => tries'[q][x] = counts[q][x] /\ budget'[q][x] = budget[q][x]
      BY <3>1, <3>3, <3>6, <3>9, ChargeIs DEF p
    <3>14. CASE q # r
      <4>1. (GivesUp(q, x) => GivesUp(q, x)')
        BY <2>a, <3>14 DEF Others, GivesUp
      <4>2. CASE counts[q][x] = NoTries
        BY <1>0, <2>a, <3>1, <3>7, <3>13, <3>14, <4>1, <4>2, Afresh
      <4>3. CASE counts[q][x] = tries[q][x] /\ counts[q][x] # NoTries
        <5>1. GaveUpNow(q, x) => marker'[x] = marker[x]
          BY <3>7, <3>10, <3>14, <4>3
        <5> QED BY <1>0, <2>a, <3>1, <3>7, <3>13, <3>14, <4>3, <5>1, OtherBystander
      <4> QED BY <3>10, <4>2, <4>3
    <3>15. CASE q = r /\ x # p
      BY <1>0, <2>a, <3>1, <3>7, <3>10, <3>12, <3>13, <3>15, Bystander
    <3>16. CASE q = r /\ x = p
      <4>1. CASE r \in ctxEnded
        BY <1>0, <2>a, <3>1, <3>4, <3>6, <3>7, <3>10, <3>12, <3>16, <4>1, Bystander
      <4>2. CASE r \notin ctxEnded
        BY <1>0, <3>1, <3>3, <3>4, <3>6, <3>7, <3>9, <3>10, <3>12, <3>16, <4>2, Charged DEF p
      <4> QED BY <4>1, <4>2
    <3> QED BY <3>14, <3>15, <3>16
  <2>10. ASSUME GiveUp(r) PROVE Tallied(q, x)'
    <3> DEFINE p == run[r].pipeline
    <3>1. /\ Active(r) /\ run[r].pc = "giveup" /\ run[r] \in Running
          /\ UNCHANGED <<clock, ctxEnded, published, ends>> /\ run'[r].pc = "next"
      BY <2>0, <2>10, RunShape DEF GiveUp, NextTarget
    <3>2. p \in Pipelines /\ ~Works(r, x)'
      BY <3>1, PcIsNext DEF Running, Works, ExecutingPcs
    <3>3. CASE r \in ctxEnded /\ UNCHANGED <<marker, budget, tries, storeErrors>>
      BY <1>0, <2>b, <3>1, <3>2, <3>3
    <3>4. CASE StoreFails /\ UNCHANGED <<marker, budget, tries>>
      <4>1. storeErrors' > storeErrors /\ storeErrors' >= storeErrors
        BY <1>0, <3>4 DEF StoreFails
      <4> QED BY <1>0, <2>b, <3>1, <3>2, <3>4, <4>1
    <3>5. CASE /\ marker' = [marker EXCEPT ![p] = clock]
               /\ budget' = [budget EXCEPT ![r][p] = [count |-> @.count, gaveUp |-> TRUE]]
               /\ tries' = [tries EXCEPT ![r][p] = [firing |-> @.firing, n |-> @.n, gaveUp |-> TRUE]]
               /\ UNCHANGED storeErrors
      <4> DEFINE b == [count |-> budget[r][p].count, gaveUp |-> TRUE]
                 t == [firing |-> tries[r][p].firing, n |-> tries[r][p].n, gaveUp |-> TRUE]
      <4>1. /\ b.gaveUp = TRUE /\ t.firing = tries[r][p].firing /\ t.n = tries[r][p].n
            /\ t.gaveUp = TRUE
        OBVIOUS
      <4>2. budget' = [budget EXCEPT ![r][p] = b] /\ tries' = [tries EXCEPT ![r][p] = t]
        BY <3>5
      <4> HIDE DEF b, t, p
      <4>3. budget'[r][p] = b /\ tries'[r][p] = t /\ marker'[p] = clock
            /\ \A v \in Replicas, y \in Pipelines : v # r \/ y # p =>
                  budget'[v][y] = budget[v][y] /\ tries'[v][y] = tries[v][y]
        BY <2>0, <3>2, <3>5, <4>2
      <4>4. \A y \in Pipelines : marker'[y] = marker[y] \/ marker'[y] >= Current
        BY <2>0, <3>2, <3>5, Numbers
      <4>5. CASE q # r
        BY <1>0, <2>a, <3>1, <3>5, <4>3, <4>4, <4>5, OtherBystander
      <4>6. CASE q = r /\ x # p
        <5>1. ~GivesUp(q, x)
          BY <4>6 DEF GivesUp, p
        <5> QED BY <1>0, <2>a, <3>1, <3>2, <3>5, <4>3, <4>4, <4>6, <5>1, Bystander
      <4>7. CASE q = r /\ x = p
        <5>1. Spent(budget[q][x])' = 0
          BY <4>1, <4>3, <4>7 DEF Spent
        <5>2. tries'[q][x].firing = tries[q][x].firing /\ tries'[q][x].n = tries[q][x].n
              /\ tries'[q][x].gaveUp
          BY <4>1, <4>3, <4>7
        <5>3. marker'[x] >= Current' /\ Limit(storeErrors) > 0 /\ storeErrors' = storeErrors
          BY <2>a, <3>5, <4>3, <4>7, Numbers
        <5> QED BY <1>0, <2>a, <3>2, <4>7, <5>1, <5>2, <5>3 DEF Tallied
      <4> QED BY <4>5, <4>6, <4>7
    <3> QED BY <2>10, <3>3, <3>4, <3>5 DEF GiveUp
  <2>d. ASSUME Forget(r), q \notin ctxEnded' => q \notin ctxEnded \/ q = r,
               UNCHANGED <<marker, published, storeErrors>>
        PROVE  Tallied(q, x)'
    <3>1. CASE q = r
      <4>1. tries'[q][x] = NoTries /\ budget'[q][x] = NoBudget
        BY <2>0, <2>d, <3>1 DEF Forget
      <4> QED BY <1>0, <2>a, <2>d, <4>1, Afresh
    <3>2. CASE q # r
      <4>1. tries'[q][x] = tries[q][x] /\ budget'[q][x] = budget[q][x]
        BY <2>0, <2>d, <3>2 DEF Forget
      <4> QED BY <1>0, <2>a, <2>d, <3>2, <4>1, OtherBystander
    <3> QED BY <3>1, <3>2
  <2>11. ASSUME Restart(r) PROVE Tallied(q, x)'
    BY <2>11, <2>d DEF Restart, faults
  <2>12. ASSUME Crash(r) PROVE Tallied(q, x)'
    BY <2>12, <2>d DEF Crash
  <2>13. ASSUME Stop(r) PROVE Tallied(q, x)'
    <3>1. Works(r, x)' => Works(r, x)
      BY <2>13 DEF Stop, Works, Executing, Active
    <3> QED BY <1>0, <2>13, <2>b, <3>1 DEF Stop, history
  <2> QED
    BY <1>3, <2>1, <2>2, <2>3, <2>4, <2>5, <2>6, <2>7, <2>8, <2>9, <2>10, <2>11, <2>12, <2>13
    DEF Step
<1> QED BY <1>1, <1>2, <1>3 DEF Next

-----------------------------------------------------------------------------
(* The theorems.                                                           *)

LEMMA InitIInv == Init => IInv
<1> SUFFICES ASSUME Init PROVE IInv
  OBVIOUS
<1>1. TypeOK
  <2>1. 0 \in Times /\ NoBudget \in Budgets /\ NoTries \in Tallies
    BY ConstantsAssumption DEF Times, NoBudget, Budgets, NoTries, Tallies, Never
  <2> QED BY <2>1, ConstantsAssumption DEF Init, TypeOK, Budgets, Tallies, Never
<1>2. \A r \in Replicas : ~Active(r) /\ ~InRun(r) /\ ~Executing(r)
  BY DEF Init, Active, InRun, Executing
<1>3. \A q \in Replicas, x \in Pipelines : tries[q][x] = NoTries /\ budget[q][x] = NoBudget
  BY DEF Init
<1>4. Current \in Firings /\ Current \in Nat /\ Current >= 1
  BY <1>1, PrevFiringIs, FiringsAreTimes DEF TypeOK, Current
<1>5. InStep /\ Faulted /\ OneExecutor /\ ClaimStands
  BY <1>2 DEF InStep, Faulted, OneExecutor, ClaimStands
<1>6. \A p \in Pipelines, f \in Firings : published[p][f] = 0
  BY DEF Init
<1>7. ServedOnce /\ PublishedOnce
  BY <1>2, <1>4, <1>6 DEF ServedOnce, PublishedOnce
<1>8. \A q \in Replicas, x \in Pipelines : Tallied(q, x)
  <2> TAKE q \in Replicas, x \in Pipelines
  <2>1. /\ tries[q][x].firing = 0 /\ tries[q][x].n = 0 /\ Spent(budget[q][x]) = 0
    BY <1>3 DEF NoTries, NoBudget, Never, Spent
  <2>2. Limit(storeErrors) > 0 /\ Limit(storeErrors) \in Nat
    BY <1>1, LimitIs DEF TypeOK
  <2> QED BY <1>4, <2>1, <2>2 DEF Tallied, GaveUpNow
<1>9. Counted /\ WithinBudget /\ BudgetBounds
  BY <1>1, <1>8, TalliedIs
<1> QED BY <1>1, <1>5, <1>7, <1>9 DEF IInv

LEMMA IInvStep == ~Overruns /\ IInv /\ [Next]_vars => IInv'
<1> SUFFICES ASSUME ~Overruns, IInv, [Next]_vars PROVE IInv'
  OBVIOUS
<1>1. TypeOK /\ TypeOK' /\ Served
  BY TypeOKStep DEF IInv, Served
<1>2. InStep' /\ Faulted' /\ Served'
  BY <1>1, InStepStep, FaultedStep, ServedStep DEF IInv
<1>3. \A q \in Replicas, x \in Pipelines : Tallied(q, x)'
  <2>1. \A q \in Replicas, x \in Pipelines : Tallied(q, x)
    BY <1>1, TalliedIs DEF IInv
  <2> QED BY <1>1, <2>1, TalliedStep DEF IInv
<1>4. Counted' /\ WithinBudget' /\ BudgetBounds'
  BY <1>1, <1>3, TalliedIsNext
<1> QED BY <1>1, <1>2, <1>4 DEF IInv, Served

\* TypeOK, overruns or not.
THEOREM SweepTypeCorrect == Spec => []TypeOK
<1>1. Init => TypeOK
  BY InitIInv DEF IInv
<1> QED BY <1>1, TypeOKStep, PTL DEF Spec

\* Without overruns the inductive invariant holds: replicas in step with the
\* schedule, one executor to a claim, budgets that cover the tallies.
THEOREM SweepInvariant ==
    ASSUME ~Overruns PROVE Spec => []IInv
<1>1. IInv /\ [Next]_vars => IInv'
  BY IInvStep
<1> QED BY <1>1, InitIInv, PTL DEF Spec

\* As long as no run outlasts its window, a firing is published at most once
\* (the claim of ClaimPipelineRun, kept until the run is recorded or failed).
THEOREM SweepPublishesOnce ==
    ASSUME ~Overruns PROVE Spec => []PublishedOnce
<1>1. IInv => PublishedOnce
  BY DEF IInv
<1> QED BY <1>1, SweepInvariant, PTL

\* As long as no run outlasts its window, the run log shows the firing of a
\* run under way as taken, so no other replica's claim can succeed.
THEOREM SweepClaimStands ==
    ASSUME ~Overruns PROVE Spec => []ClaimStands
<1>1. IInv => ClaimStands
  BY DEF IInv
<1> QED BY <1>1, SweepInvariant, PTL

\* As long as no run outlasts its window, a process counts no more failures
\* against one firing than afterRun's budget allows, one more for each call
\* that failed.
THEOREM SweepBudgetBounds ==
    ASSUME ~Overruns PROVE Spec => []BudgetBounds
<1>1. IInv => BudgetBounds
  BY DEF IInv
<1> QED BY <1>1, SweepInvariant, PTL
=============================================================================
