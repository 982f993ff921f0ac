-------------------------- MODULE PipelineRunProofs --------------------------
(***************************************************************************)
(* Machine-checked proofs about PipelineRun, for any pipeline files, any    *)
(* upstream and any bounds: its invariants, and that it implements          *)
(* CatalogRun.                                                              *)
(*                                                                         *)
(* The refinement needs to know that a run which begins to send has every   *)
(* catalog it built, and nothing else, in its directory.  A file replaces   *)
(* one of the same slug, so this rests on buildCatalogs: it never gives two *)
(* catalogs the same slug (SlugsDiffer).  Shelved says how the directory,    *)
(* the queue and what was sent add up to what was built, phase by phase.    *)
(*                                                                         *)
(* PartialRunSendsNothing rests on LossInv, which compares what a loop has  *)
(* gathered so far, and what is still to be asked, with what was counted.   *)
(* EveryRecordOnce follows the positions of the records through selection,  *)
(* grouping, chunking and sorting: each of these deals positions out among  *)
(* lists (Lists, Parts), and never gives one to two or to none.             *)
(***************************************************************************)
EXTENDS PipelineRun, FiniteSetTheorems, SequenceTheorems, WellFoundedInduction, TLAPS

Distinct(cs) == \A a, b \in cs : a.slug = b.slug => a = b

Collecting == pc \in {"inputs", "auth", "step", "call", "again", "reauth", "clean", "write"}

\* What has been built is to be written, is in the directory, or was sent.
Shelved ==
    /\ Collecting => sent = {} /\ clean
    /\ pc = "clean" => queue = built /\ Distinct(built)
    /\ pc = "write" => dir \cup queue = built /\ Distinct(built)
    /\ pc = "publish" => queue \cup sent \subseteq built
    /\ pc = "publish" /\ clean => queue \cup sent = built

IInv == TypeOK /\ Shelved

-----------------------------------------------------------------------------
(* The slugs of a run.                                                     *)

\* buildCatalogs gives no two catalogs the same slug: the group is part of it,
\* and the chunk is too unless the group has one chunk only.
LEMMA SlugsDiffer ==
    ASSUME NEW c, NEW s, BuiltCatalogs(c, s).ok
    PROVE  Distinct(BuiltCatalogs(c, s).out)
<1> DEFINE groups == [key \in Keys(s, c.groupBy) |-> Chunks(c, s, key)]
           published == {key \in DOMAIN groups : groups[key] # <<>>}
           split == {key \in published : DOMAIN groups[key] # {1}}
           good == /\ \A i \in DOMAIN s : c.groupBy \in DOMAIN s[i]
                   /\ Costed(c, s)
                   /\ \A key \in split : c.indexed /\ ~Holds(c.refuseSplit, groups[key][1][1])
                   /\ \A k, l \in published : c.folded[k] = c.folded[l] => k = l
           all == UNION {Rendered(c, k, groups[k]) : k \in published}
<1>1. BuiltCatalogs(c, s) = IF good THEN [ok |-> TRUE, out |-> all] ELSE Err
  BY DEF BuiltCatalogs
<1>2. ~Err.ok
  BY DEF Err
<1>3. good /\ BuiltCatalogs(c, s).out = all
  BY <1>1, <1>2
<1>4. \A key \in split : c.indexed
  BY <1>3
<1>5. \A key \in published : c.indexed \/ DOMAIN groups[key] = {1}
  BY <1>4
<1> HIDE DEF groups, published, split, good, all
<1>6. ASSUME NEW a \in all
      PROVE  \E k \in published : \E i \in DOMAIN groups[k] :
                /\ a.slug = <<k, IF c.indexed THEN i ELSE 0>>
                /\ a.content = Ordered(groups[k][i], c.renderBy)
                /\ a = [slug |-> a.slug, content |-> a.content]
  <2>1. PICK k \in published : a \in Rendered(c, k, groups[k])
    BY DEF all
  <2>2. PICK i \in DOMAIN groups[k] :
            a = [slug |-> <<k, IF c.indexed THEN i ELSE 0>>, content |-> Ordered(groups[k][i], c.renderBy)]
    BY <2>1 DEF Rendered
  <2> QED BY <2>2
<1>7. ASSUME NEW a \in all, NEW b \in all, a.slug = b.slug PROVE a = b
  <2>a. PICK k \in published : \E i \in DOMAIN groups[k] :
                /\ a.slug = <<k, IF c.indexed THEN i ELSE 0>>
                /\ a.content = Ordered(groups[k][i], c.renderBy)
                /\ a = [slug |-> a.slug, content |-> a.content]
    BY <1>6
  <2>1. PICK i \in DOMAIN groups[k] :
                /\ a.slug = <<k, IF c.indexed THEN i ELSE 0>>
                /\ a.content = Ordered(groups[k][i], c.renderBy)
                /\ a = [slug |-> a.slug, content |-> a.content]
    BY <2>a
  <2>b. PICK l \in published : \E j \in DOMAIN groups[l] :
                /\ b.slug = <<l, IF c.indexed THEN j ELSE 0>>
                /\ b.content = Ordered(groups[l][j], c.renderBy)
                /\ b = [slug |-> b.slug, content |-> b.content]
    BY <1>6
  <2>2. PICK j \in DOMAIN groups[l] :
                /\ b.slug = <<l, IF c.indexed THEN j ELSE 0>>
                /\ b.content = Ordered(groups[l][j], c.renderBy)
                /\ b = [slug |-> b.slug, content |-> b.content]
    BY <2>b
  <2>3. k = l /\ (c.indexed => i = j)
    BY <1>7, <2>1, <2>2
  <2>4. i = j
    BY <1>5, <2>1, <2>2, <2>3
  <2> QED BY <1>7, <2>1, <2>2, <2>3, <2>4
<1> QED BY <1>3, <1>7 DEF Distinct

LEMMA PickIs == ASSUME queue # {} PROVE Pick \in queue
    BY DEF Pick

-----------------------------------------------------------------------------
(* The steps keep the invariant.                                           *)

\* A step that ends the run, whatever else it does to the run's own variables.
LEMMA EndKeeps ==
    ASSUME IInv, NEW result \in {"ok", "failed"}, EndRun(result), reauths' \in 0 .. MaxReauths,
           counted' \in Nat, old' \in {"active", "retired"},
           lastGood' = lastGood
    PROVE  IInv'
    BY DEF IInv, TypeOK, Shelved, EndRun, Collecting, Valid

\* A step within the run before anything is built.
LEMMA CollectKeeps ==
    ASSUME IInv, Collecting, pc' \in {"inputs", "auth", "step", "call", "again", "reauth"},
           reauths' \in 0 .. MaxReauths, counted' \in Nat,
           UNCHANGED <<sent, clean, old, lastGood>>
    PROVE  IInv'
    BY DEF IInv, TypeOK, Shelved, Collecting, Valid

LEMMA IInvStep == IInv /\ [Next]_vars => IInv'
<1> SUFFICES ASSUME IInv, [Next]_vars PROVE IInv'
  OBVIOUS
<1>0. reauths \in 0 .. MaxReauths /\ counted \in Nat /\ old \in {"active", "retired"} /\ MaxReauths \in Nat
  BY PipelineRunAssumption DEF IInv, TypeOK
<1>1. CASE Start
  BY <1>0, <1>1 DEF Start, Load, EndRun, IInv, TypeOK, Shelved, Collecting, Valid
<1>2. CASE ResolveInputs
  BY <1>0, <1>2, EndKeeps, CollectKeeps DEF ResolveInputs, runVars, Collecting
<1>3. CASE Prepare
  BY <1>0, <1>3, EndKeeps, CollectKeeps DEF Prepare, Collecting
<1>4. CASE Step
  BY <1>0, <1>4, EndKeeps, CollectKeeps DEF Step, Skip, Produce, Collecting
<1>f. ASSUME NEW class, Failed(class) PROVE counted' \in Nat /\ (pc' = "call" \/ EndRun("failed"))
  <2>1. /\ counted' = (IF class \in spec.counts THEN counted + 1 ELSE counted) \/ counted' = counted
        /\ pc' = "call" \/ EndRun("failed")
    BY <1>f, Zenon DEF Failed
  <2> QED BY <1>0, <2>1
<1>5. CASE Call
  <2>1. UNCHANGED <<sent, clean, old, lastGood>> /\ Collecting
    BY <1>5 DEF Call, Collecting
  <2>2. CASE Answered
    <3>a. counted' = counted + 1 \/ counted' = counted
      BY <2>2, Zenon DEF Answered
    <3>1. counted' \in Nat
      BY <1>0, <3>a
    <3> QED BY <1>0, <2>1, <2>2, <3>1, CollectKeeps DEF Answered
  <2>3. CASE CallFails
    BY <1>0, <1>f, <2>1, <2>3, EndKeeps, CollectKeeps DEF CallFails
  <2>4. CASE Classified
    BY <1>0, <1>f, <2>1, <2>4, EndKeeps, CollectKeeps DEF Classified, Rejected
  <2>5. CASE EndRun("failed") /\ UNCHANGED <<counted, reauths>>
    BY <1>0, <2>1, <2>5, EndKeeps
  <2> QED BY <1>5, <2>2, <2>3, <2>4, <2>5 DEF Call
<1>6. CASE Reauth
  BY <1>0, <1>6, <1>f, EndKeeps, CollectKeeps DEF Reauth, Collecting
<1>7. CASE Gather
  BY <1>0, <1>7, EndKeeps, CollectKeeps DEF Gather, Produce, Collecting
<1>8. CASE Build
  <2>1. UNCHANGED <<reauths, counted, old, lastGood, sent, clean>> /\ Collecting
    BY <1>8 DEF Build, runVars, Collecting
  <2>2. CASE EndRun("failed")
    BY <1>0, <2>1, <2>2, EndKeeps
  <2>3. CASE ~EndRun("failed")
    <3>1. /\ BuiltCatalogs(spec.catalog, last.out).ok
          /\ built' = BuiltCatalogs(spec.catalog, last.out).out /\ queue' = built' /\ pc' = "clean"
      BY <1>8, <2>3 DEF Build
    <3>2. Distinct(built')
      BY <3>1, SlugsDiffer
    <3> QED BY <1>0, <2>1, <3>1, <3>2 DEF IInv, TypeOK, Shelved, Collecting, Distinct, Valid
  <2> QED BY <2>2, <2>3
<1>9. CASE RemoveStaleCatalogs
  BY <1>9 DEF RemoveStaleCatalogs, runVars, IInv, TypeOK, Shelved, Collecting, Distinct, Valid
<1>10. CASE Write
  <2>1. UNCHANGED <<reauths, counted, old, lastGood, sent, clean, built>> /\ pc = "write" /\ queue # {}
    BY <1>10 DEF Write, runVars
  <2>2. CASE EndRun("failed")
    BY <1>0, <2>1, <2>2, EndKeeps
  <2>3. CASE ~EndRun("failed")
    <3>1. /\ dir' = {f \in dir : f.slug # Pick.slug} \cup {Pick} /\ queue' = queue \ {Pick}
          /\ pc' = pc
      BY <1>10, <2>3 DEF Write
    <3>2. Pick \in queue /\ dir \cup queue = built /\ Distinct(built)
      BY <2>1, PickIs DEF IInv, Shelved
    <3>3. \A f \in dir : f.slug = Pick.slug => f = Pick
      BY <3>2 DEF Distinct
    <3>4. dir' \cup queue' = built
      BY <3>1, <3>2, <3>3
    <3> QED BY <1>0, <2>1, <3>1, <3>2, <3>4 DEF IInv, TypeOK, Shelved, Collecting, Distinct, Valid
  <2> QED BY <2>2, <2>3
<1>11. CASE Publish
  <2>1. UNCHANGED <<reauths, counted, old, lastGood, sent, clean, built>> /\ pc = "write" /\ queue = {}
    BY <1>11 DEF Publish, runVars
  <2>2. CASE EndRun("failed")
    BY <1>0, <2>1, <2>2, EndKeeps
  <2>3. CASE ~EndRun("failed")
    <3>1. pc' = "publish" /\ queue' = dir
      BY <1>11, <2>3 DEF Publish
    <3>2. dir = built /\ sent = {}
      BY <2>1 DEF IInv, Shelved, Collecting
    <3> QED BY <1>0, <2>1, <3>1, <3>2 DEF IInv, TypeOK, Shelved, Collecting, Valid
  <2> QED BY <2>2, <2>3
<1>12. CASE PublishFile
  <2>1. Pick \in queue
    BY <1>12, PickIs DEF PublishFile
  <2> QED BY <1>12, <2>1 DEF PublishFile, runVars, IInv, TypeOK, Shelved, Collecting, Valid
<1>13. CASE Retire
  BY <1>0, <1>13, EndKeeps DEF Retire, runVars
<1>14. CASE ContextEnds \/ Crash
  BY <1>14 DEF ContextEnds, Crash, runVars, outVars, IInv, TypeOK, Shelved, Collecting, Distinct, Valid
<1>15. CASE UNCHANGED vars
  BY <1>15 DEF vars, runVars, outVars, IInv, TypeOK, Shelved, Collecting, Distinct, Valid
<1> QED
  BY <1>1, <1>2, <1>3, <1>4, <1>5, <1>6, <1>7, <1>8, <1>9, <1>10, <1>11, <1>12, <1>13, <1>14,
     <1>15 DEF Next, Work

LEMMA InitIInv == Init => IInv
    BY PipelineRunAssumption DEF Init, IInv, TypeOK, Shelved, Collecting

\* The invariant of a run: types, the budget of re-exchanges, that only a file
\* that loaded is kept, and where the catalogs it built are.
THEOREM RunInvariant == Spec => []IInv
    BY InitIInv, IInvStep, PTL DEF Spec

\* TypeOK.
THEOREM RunTypeCorrect == Spec => []TypeOK
<1>1. IInv => TypeOK
  BY DEF IInv
<1> QED BY <1>1, RunInvariant, PTL

\* What PublishCatalogs posts was built by this run, whatever a run before it
\* left in the output directory.
THEOREM RunPublishesItsOwn == Spec => []NoStaleCatalog
<1>1. IInv => NoStaleCatalog
  BY DEF IInv, Shelved, NoStaleCatalog, Publishing
<1> QED BY <1>1, RunInvariant, PTL

-----------------------------------------------------------------------------
(* A run implements CatalogRun.                                            *)

Phase ==
    CASE pc = "idle" -> "idle" [] pc = "ok" -> "served"
      [] pc = "failed" -> "failed" [] pc = "publish" -> "sending"
      [] OTHER -> "collecting"

LEMMA PhaseIs ==
    /\ pc = "idle" => Phase = "idle"
    /\ pc = "ok" => Phase = "served"
    /\ pc = "failed" => Phase = "failed"
    /\ pc = "publish" => Phase = "sending"
    /\ Collecting => Phase = "collecting"
    BY DEF Phase, Collecting

LEMMA PhaseIsNext ==
    /\ pc' = "idle" => Phase' = "idle"
    /\ pc' = "ok" => Phase' = "served"
    /\ pc' = "failed" => Phase' = "failed"
    /\ pc' = "publish" => Phase' = "sending"
    /\ Collecting' => Phase' = "collecting"
    BY DEF Phase, Collecting

\* Collecting steps and ends of a run, as CatalogRun sees them.
LEMMA AbstractCollect ==
    ASSUME Collecting, Collecting', UNCHANGED <<sent, old>>
    PROVE  Abstract!Collect
    BY PhaseIs, PhaseIsNext DEF Abstract!Collect, Phase

LEMMA AbstractFail ==
    ASSUME Collecting \/ pc = "publish", pc' \in {"failed", "idle"}, UNCHANGED <<built, sent, old>>
    PROVE  Abstract!Fail
    BY PhaseIs, PhaseIsNext DEF Abstract!Fail, Phase

\* Every step of a run is one of CatalogRun's, or none.
LEMMA AbstractStep ==
    ASSUME IInv, IInv', [Next]_vars
    PROVE  [Abstract!Next]_(Abstract!vars)
<1> USE DEF Abstract!Next
<1>1. CASE Start
  <2>1. /\ pc \in {"idle", "ok", "failed"} /\ pc' \in {"inputs", "failed"}
        /\ built' = {} /\ sent' = {} /\ old' = old
    BY <1>1 DEF Start, Load, EndRun
  <2>2. Collecting' \/ pc' = "failed"
    BY <2>1 DEF Collecting
  <2>3. Abstract!Begin
    BY <2>1, <2>2, PhaseIs, PhaseIsNext DEF Abstract!Begin, Phase
  <2> QED BY <2>3
<1>a. ASSUME Collecting, UNCHANGED <<built, sent, old>>, Collecting' \/ pc' = "failed"
      PROVE  [Abstract!Next]_(Abstract!vars)
  BY <1>a, AbstractCollect, AbstractFail
<1>2. CASE ResolveInputs
  BY <1>2, <1>a DEF ResolveInputs, EndRun, Collecting
<1>3. CASE Prepare
  BY <1>3, <1>a DEF Prepare, EndRun, Collecting
<1>4. CASE Step
  BY <1>4, <1>a DEF Step, Skip, Produce, EndRun, Collecting
<1>f. ASSUME NEW class, Failed(class) PROVE pc' \in {"call", "failed"}
  BY <1>f DEF Failed, EndRun
<1>5. CASE Call
  <2>1. UNCHANGED <<built, sent, old>> /\ Collecting
    BY <1>5 DEF Call, Collecting
  <2>2. pc' \in {"call", "reauth", "failed"}
    BY <1>5, <1>f DEF Call, Answered, CallFails, Classified, Rejected, EndRun
  <2> QED BY <1>a, <2>1, <2>2 DEF Collecting
<1>6. CASE Reauth
  <2>1. pc' \in {"call", "again", "failed"}
    BY <1>6, <1>f DEF Reauth
  <2> QED BY <1>6, <1>a, <2>1 DEF Reauth, Collecting
<1>7. CASE Gather
  BY <1>7, <1>a DEF Gather, Produce, EndRun, Collecting
<1>8. CASE Build
  <2>1. Collecting /\ UNCHANGED <<sent, old>>
    BY <1>8 DEF Build, Collecting
  <2>2. Collecting' \/ (pc' = "failed" /\ UNCHANGED built)
    BY <1>8 DEF Build, Collecting, EndRun
  <2> QED BY <2>1, <2>2, AbstractCollect, AbstractFail
<1>9. CASE RemoveStaleCatalogs
  BY <1>9, <1>a DEF RemoveStaleCatalogs, Collecting
<1>10. CASE Write
  BY <1>10, <1>a DEF Write, EndRun, Collecting
<1>11. CASE Publish
  <2>1. pc = "write" /\ Collecting /\ UNCHANGED <<built, sent, old>> /\ pc' \in {"publish", "failed"}
    BY <1>11 DEF Publish, EndRun, Collecting
  <2>2. CASE pc' = "publish"
    <3>1. Abstract!StartSending
      BY <2>1, <2>2, PhaseIs, PhaseIsNext DEF Abstract!StartSending, Phase
    <3> QED BY <3>1
  <2> QED BY <1>a, <2>1, <2>2
<1>12. CASE PublishFile
  <2>1. pc = "publish" /\ pc' = "publish" /\ UNCHANGED <<built, old>> /\ Pick \in queue
    BY <1>12, PickIs DEF PublishFile
  <2>2. Pick \in built
    BY <2>1 DEF IInv, Shelved
  <2>3. CASE sent' = sent
    BY <2>1, <2>3 DEF Abstract!vars
  <2>4. CASE sent' # sent
    <3>1. sent' = sent \cup {Pick}
      BY <1>12, <2>4 DEF PublishFile
    <3>2. PICK c : c = Pick
      OBVIOUS
    <3>3. c \in built \ sent /\ sent' = sent \cup {c}
      BY <2>2, <2>4, <3>1, <3>2
    <3>4. Abstract!Send
      BY <2>1, <3>3, PhaseIs, PhaseIsNext DEF Abstract!Send, Phase
    <3> QED BY <3>4
  <2> QED BY <2>3, <2>4
<1>13. CASE Retire
  <2>1. /\ pc = "publish" /\ queue = {} /\ UNCHANGED <<built, sent>>
        /\ \/ pc' = "failed" /\ UNCHANGED old
           \/ pc' = "ok" /\ clean /\ (old' = old \/ (sent # {} /\ old' = "retired"))
    BY <1>13 DEF Retire, EndRun, AllPublished
  <2>2. CASE pc' = "failed" /\ UNCHANGED old
    BY <2>1, <2>2, AbstractFail
  <2>3. CASE pc' = "ok"
    <3>1. sent = built /\ (old' = old \/ (built # {} /\ old' = "retired"))
      BY <2>1, <2>3 DEF IInv, Shelved
    <3>2. Abstract!Serve
      BY <2>1, <2>3, <3>1, PhaseIs, PhaseIsNext DEF Abstract!Serve, Phase
    <3> QED BY <3>2
  <2> QED BY <2>1, <2>2, <2>3
<1>14. CASE ContextEnds
  BY <1>14 DEF ContextEnds, outVars, Abstract!vars
<1>15. CASE Crash
  <2>1. Collecting \/ pc = "publish"
    BY <1>15 DEF Crash, IInv, TypeOK, Collecting
  <2> QED BY <1>15, <2>1, AbstractFail DEF Crash, outVars
<1>16. CASE UNCHANGED vars
  BY <1>16 DEF vars, outVars, Abstract!vars
<1> QED
  BY <1>1, <1>2, <1>3, <1>4, <1>5, <1>6, <1>7, <1>8, <1>9, <1>10, <1>11, <1>12, <1>13, <1>14,
     <1>15, <1>16 DEF Next, Work

\* A run keeps CatalogRun's promise: only catalogs built for the run are sent,
\* the old catalog is retired only once all of them have arrived, and only a
\* run that sent everything counts as served (publishFile, allPublished and
\* HasFailures, across crashes, stops and files left behind).
THEOREM RunKeepsPromise == Spec => KeepsPromise
<1>1. Init => Abstract!Init
  BY DEF Init, Abstract!Init
<1>2. IInv /\ IInv' /\ [Next]_vars => [Abstract!Next]_(Abstract!vars)
  BY AbstractStep
<1> QED BY <1>1, <1>2, RunInvariant, PTL DEF Spec, KeepsPromise, Abstract!Spec
-----------------------------------------------------------------------------
(* Recursion and induction over a range of numbers.                        *)

\* A set with 0 and, up to N, every successor has all the numbers up to N.
LEMMA UpTo ==
    ASSUME NEW N \in Nat, NEW S, 0 \in S, \A n \in 1 .. N : n - 1 \in S => n \in S
    PROVE  \A n \in 0 .. N : n \in S
<1> DEFINE T == (0 .. N) \ S
<1> SUFFICES ASSUME T # {} PROVE FALSE
  OBVIOUS
<1>1. PICK m \in T : \A y \in T : <<y, m>> \notin OpToRel(<, Nat)
  <2>1. T \subseteq Nat
    OBVIOUS
  <2> HIDE DEF T
  <2> QED BY <2>1, NatLessThanWellFounded, WFMin, Zenon
<1>2. m \in 1 .. N /\ m - 1 \notin T
  <2>1. m \in 1 .. N
    OBVIOUS
  <2>2. ASSUME m - 1 \in T PROVE FALSE
    <3>1. m - 1 \in Nat /\ m \in Nat /\ m - 1 < m
      BY <2>1
    <3>2. <<m - 1, m>> \in OpToRel(<, Nat)
      BY <3>1, Zenon DEF OpToRel
    <3> QED BY <1>1, <2>2, <3>2
  <2> QED BY <2>1, <2>2
<1> QED BY <1>2

\* The steps from each number up to N to the next, and a function that takes
\* them from first.
Steppers(N, A) == [1 .. N -> [A -> A]]
Stepped(N, A, first, G, f) ==
    /\ f \in [0 .. N -> A] /\ f[0] = first
    /\ \A n \in 1 .. N : f[n] = G[n][f[n - 1]]

\* A function defined by a step from each number to the next exists.
LEMMA Recursion ==
    ASSUME NEW N \in Nat, NEW A, NEW first \in A, NEW G \in Steppers(N, A)
    PROVE  \E f : Stepped(N, A, first, G, f)
<1> USE DEF Steppers, Stepped
<1> DEFINE Good(m, f) == f[0] = first /\ \A n \in 1 .. m : f[n] = G[n][f[n - 1]]
           S == {m \in 0 .. N : \E f \in [0 .. N -> A] : Good(m, f)}
<1>1. 0 \in S
  <2> DEFINE z == [n \in 0 .. N |-> first]
  <2>1. z \in [0 .. N -> A] /\ z[0] = first
    OBVIOUS
  <2> HIDE DEF z
  <2>2. Good(0, z)
    BY <2>1
  <2> QED BY <2>1, <2>2
<1>2. ASSUME NEW m \in 1 .. N, m - 1 \in S PROVE m \in S
  <2>1. PICK f \in [0 .. N -> A] : Good(m - 1, f)
    BY <1>2
  <2> DEFINE g == [n \in 0 .. N |-> IF n = m THEN G[m][f[m - 1]] ELSE f[n]]
  <2>2. G[m][f[m - 1]] \in A
    OBVIOUS
  <2>3. g \in [0 .. N -> A]
    BY <2>2
  <2>4. /\ g[0] = first /\ g[m] = G[m][f[m - 1]]
        /\ \A n \in 0 .. (m - 1) : g[n] = f[n]
    BY <2>1
  <2> HIDE DEF g
  <2>5. ASSUME NEW n \in 1 .. m PROVE g[n] = G[n][g[n - 1]]
    <3>1. CASE n = m
      BY <2>4, <3>1
    <3>2. CASE n # m
      BY <2>1, <2>4, <3>2
    <3> QED BY <3>1, <3>2
  <2> QED BY <2>3, <2>4, <2>5
<1> HIDE DEF S
<1>3. \A n \in 0 .. N : n \in S
  BY <1>1, <1>2, UpTo
<1>4. N \in S
  BY <1>3
<1> QED BY <1>4 DEF S

-----------------------------------------------------------------------------
(* Every step makes a list of records out of lists of records.             *)

LEMMA ListIs ==
    ASSUME NEW s, IsSeq(s)
    PROVE  /\ s \in Seq(ToSet(s)) /\ Len(s) \in Nat /\ DOMAIN s = 1 .. Len(s)
           /\ s = [i \in 1 .. Len(s) |-> s[i]]
    BY DEF IsSeq

LEMMA MakesList ==
    ASSUME NEW n \in Nat, NEW s, s = [i \in 1 .. n |-> s[i]]
    PROVE  IsSeq(s) /\ Len(s) = n
<1>1. \A i \in 1 .. n : s[i] \in ToSet(s)
  BY DEF ToSet
<1>2. s \in [1 .. n -> ToSet(s)]
  BY <1>1
<1>3. s \in Seq(ToSet(s)) /\ Len(s) = n
  BY <1>2
<1> QED BY <1>3 DEF IsSeq

LEMMA ListOf ==
    ASSUME NEW A, NEW s \in Seq(A)
    PROVE  IsSeq(s)
<1>1. Len(s) \in Nat /\ s = [i \in 1 .. Len(s) |-> s[i]]
  OBVIOUS
<1> QED BY <1>1, MakesList

LEMMA EmptyList == IsSeq(<<>>)
<1>1. << >> \in Seq({})
  OBVIOUS
<1> QED BY <1>1, ListOf

\* FlattenSeq goes through the collections from the first to the last.
Flattens(g, bs, R) ==
    /\ FlattenSeq(bs) = g[Len(bs)] /\ g[1] = bs[1]
    /\ \A i \in 2 .. Len(bs) : g[i] = g[i - 1] \o bs[i]
    /\ \A i \in 1 .. Len(bs) : g[i] \in Seq(R)

LEMMA FlattenSteps ==
    ASSUME NEW R, NEW bs \in Seq(Seq(R)), bs # <<>>
    PROVE  \E g : Flattens(g, bs, R)
<1> DEFINE Cat(s, i) == s \o bs[i]
           N == Len(bs)
           A == Seq(R)
           G == [i \in 1 .. N |-> [s \in A |-> IF i = 1 THEN bs[i] ELSE Cat(s, i)]]
           Def(f) == [i \in 1 .. N |-> IF i = 1 THEN bs[i] ELSE Cat(f[i - 1], i)]
           none == << >>
<1>0. N \in Nat /\ N > 0 /\ \A i \in 1 .. N : bs[i] \in A
  OBVIOUS
<1>1. none \in A
  OBVIOUS
<1>2. ASSUME NEW i \in 1 .. N, NEW s \in A PROVE Cat(s, i) \in A
  BY <1>0
<1> HIDE DEF A, none, Cat
<1>3. G \in Steppers(N, A)
  BY <1>0, <1>2 DEF Steppers
<1>4. ASSUME NEW i \in 1 .. N, NEW s \in A
      PROVE  G[i][s] = IF i = 1 THEN bs[i] ELSE Cat(s, i)
  OBVIOUS
<1>5. ASSUME NEW g
      PROVE  /\ Def(g) = [i \in 1 .. N |-> Def(g)[i]]
             /\ \A i \in 1 .. N : Def(g)[i] = IF i = 1 THEN bs[i] ELSE Cat(g[i - 1], i)
  BY <1>0
<1> HIDE DEF N, G, Def
<1>6. PICK f : Stepped(N, A, none, G, f)
  <2>1. N \in Nat
    BY <1>0
  <2> QED BY <1>1, <1>3, <2>1, Recursion
<1>7. f \in [0 .. N -> A] /\ \A i \in 1 .. N : f[i] = G[i][f[i - 1]]
  BY <1>6, Zenon DEF Stepped
<1> DEFINE k == [i \in 1 .. N |-> f[i]]
<1>8. k = Def(k)
  <2>1. ASSUME NEW i \in 1 .. N PROVE k[i] = Def(k)[i]
    <3>1. f[i - 1] \in A /\ k[i] = f[i]
      BY <1>0, <1>7
    <3>2. k[i] = IF i = 1 THEN bs[i] ELSE Cat(f[i - 1], i)
      BY <1>4, <1>7, <3>1
    <3>3. i # 1 => f[i - 1] = k[i - 1]
      BY <1>0
    <3> HIDE DEF k
    <3>4. Def(k)[i] = IF i = 1 THEN bs[i] ELSE Cat(k[i - 1], i)
      BY <1>5
    <3>5. CASE i = 1
      BY <3>2, <3>4, <3>5
    <3>6. CASE i # 1
      BY <3>2, <3>3, <3>4, <3>6
    <3> QED BY <3>5, <3>6
  <2>2. k = [i \in 1 .. N |-> k[i]]
    OBVIOUS
  <2> HIDE DEF k
  <2> QED BY <1>5, <2>1, <2>2
<1> HIDE DEF k
<1> DEFINE g == CHOOSE h : h = Def(h)
<1>9. g = Def(g)
  BY <1>8, Zenon
<1>10. FlattenSeq(bs) = g[N]
  <2>1. Len(bs) # 0
    BY <1>0 DEF N
  <2> QED BY <2>1, Zenon DEF FlattenSeq, N, Def, Cat
<1> HIDE DEF g
<1>11. \A i \in 1 .. N : g[i] = IF i = 1 THEN bs[i] ELSE Cat(g[i - 1], i)
  BY <1>5, <1>9
<1>12. g[1] = bs[1] /\ \A i \in 2 .. N : g[i] = Cat(g[i - 1], i)
  BY <1>0, <1>11
<1> DEFINE S == {i \in 0 .. N : i = 0 \/ g[i] \in A}
<1>13. 0 \in S
  BY <1>0
<1>14. ASSUME NEW i \in 1 .. N, i - 1 \in S PROVE i \in S
  <2>1. CASE i = 1
    BY <1>0, <1>12, <2>1
  <2>2. CASE i \in 2 .. N
    <3>1. g[i - 1] \in A
      BY <1>0, <1>14, <2>2
    <3> QED BY <1>2, <1>12, <2>2, <3>1
  <2> QED BY <1>0, <2>1, <2>2
<1> HIDE DEF S
<1>15. \A i \in 0 .. N : i \in S
  BY <1>0, <1>13, <1>14, UpTo
<1>16. \A i \in 1 .. N : g[i] \in A
  BY <1>0, <1>15 DEF S
<1> QED BY <1>10, <1>12, <1>16, Zenon DEF N, A, Cat, Flattens

\* FlattenSeq takes collections to a sequence of records.
LEMMA FlattenType ==
    ASSUME NEW R, NEW bs \in Seq(Seq(R)) PROVE FlattenSeq(bs) \in Seq(R)
<1>1. CASE bs = <<>>
  <2>1. FlattenSeq(bs) = bs
    <3>1. Len(bs) = 0
      BY <1>1
    <3> QED BY <3>1, Zenon DEF FlattenSeq
  <2>2. << >> \in Seq(R)
    OBVIOUS
  <2> QED BY <1>1, <2>1, <2>2, Zenon
<1>2. CASE bs # <<>>
  <2>0. PICK g : Flattens(g, bs, R)
    BY <1>2, FlattenSteps
  <2>1. FlattenSeq(bs) = g[Len(bs)] /\ \A i \in 1 .. Len(bs) : g[i] \in Seq(R)
    BY <2>0, Zenon DEF Flattens
  <2>2. Len(bs) \in 1 .. Len(bs)
    BY <1>2
  <2> QED BY <2>1, <2>2
<1> QED BY <1>1, <1>2

\* The list q holds the records of t at the positions P, each in one place; e
\* tells which position the record at each place has.
Told(q, t, P, e) ==
    IsSeq(q) /\ e \in Bijection(DOMAIN q, P) /\ \A k \in DOMAIN q : q[k] = t[e[k]]

\* q is such a list.
Lists(q, t, P) == \E e : Told(q, t, P, e)

\* Arranged puts each of the positions in one place.
LEMMA Arranges ==
    ASSUME NEW P, IsFiniteSet(P), P \subseteq Nat, NEW s, NEW by
    PROVE  Lists(Arranged(s, P, by), s, P)
<1> DEFINE weight(i) == IF by # "" /\ Render(s[i], by) \in DOMAIN Weight
                        THEN Weight[Render(s[i], by)] ELSE 0
           before(j, i) == weight(j) < weight(i) \/ (weight(j) = weight(i) /\ j < i)
           Less(i) == {j \in P : before(j, i)}
           place(i) == 1 + Cardinality(Less(i))
           size == Cardinality(P)
           list == [k \in 1 .. size |-> s[CHOOSE i \in P : place(i) = k]]
           t == Arranged(s, P, by)
<1>1. t = SubSeq(list, 1, size)
  BY DEF Arranged
<1>2. size \in Nat
  BY FS_CardinalityType
<1>3. \A i \in P : weight(i) \in Nat
  BY WeightAssumption
<1> HIDE DEF weight
<1>4. ASSUME NEW i \in P, NEW j \in P
      PROVE  /\ ~before(i, i) /\ (i # j => before(i, j) \/ before(j, i))
             /\ \A k \in P : before(k, i) /\ before(i, j) => before(k, j)
  BY <1>3
<1> HIDE DEF before
<1>5. ASSUME NEW i \in P
      PROVE  /\ IsFiniteSet(Less(i)) /\ place(i) \in 1 .. size
             /\ IsFiniteSet(Less(i) \cup {i}) /\ Cardinality(Less(i) \cup {i}) = place(i)
  <2>1. Less(i) \in SUBSET P /\ i \notin Less(i)
    BY <1>4
  <2>2. IsFiniteSet(Less(i)) /\ Cardinality(Less(i)) \in Nat
    BY <2>1, FS_Subset, FS_CardinalityType
  <2> HIDE DEF Less
  <2>3. IsFiniteSet(Less(i) \cup {i}) /\ Cardinality(Less(i) \cup {i}) = Cardinality(Less(i)) + 1
    BY <2>1, <2>2, FS_AddElement
  <2>4. Less(i) \cup {i} \in SUBSET P
    BY <2>1
  <2>5. Cardinality(Less(i) \cup {i}) <= size
    BY <2>4, FS_Subset
  <2> QED BY <1>2, <2>2, <2>3, <2>5
<1>6. ASSUME NEW i \in P, NEW j \in P, before(i, j)
      PROVE  place(i) < place(j)
  <2>1. Less(i) \cup {i} \in SUBSET Less(j)
    BY <1>4, <1>6
  <2>2. IsFiniteSet(Less(j)) /\ Cardinality(Less(j)) \in Nat /\ Cardinality(Less(i) \cup {i}) = place(i)
    BY <1>5, FS_CardinalityType
  <2> HIDE DEF Less
  <2>3. Cardinality(Less(i) \cup {i}) <= Cardinality(Less(j))
    BY <2>1, <2>2, FS_Subset
  <2>4. Cardinality(Less(i)) \in Nat
    BY <1>5, FS_CardinalityType
  <2> QED BY <2>2, <2>3, <2>4
<1> DEFINE p == [i \in P |-> place(i)]
<1> HIDE DEF Less
<1>7. p \in [P -> 1 .. size]
  BY <1>5
<1>8. ASSUME NEW i \in P, NEW j \in P, p[i] = p[j] PROVE i = j
  <2>0. place(i) = place(j) /\ place(i) \in 1 .. size
    BY <1>5, <1>8
  <2> HIDE DEF place, size
  <2>1. place(i) = place(j) /\ place(i) \in Nat
    BY <1>2, <2>0
  <2> QED BY <1>4, <1>6, <2>1
<1>9. p \in Injection(P, 1 .. size)
  BY <1>7, <1>8 DEF Injection, IsInjective
<1>10. IsFiniteSet(1 .. size) /\ Cardinality(1 .. size) = size
  BY <1>2, FS_Interval
<1> HIDE DEF p, place
<1>11. p \in Surjection(P, 1 .. size)
  BY <1>9, <1>10, FS_Injection
<1>12. \A k \in 1 .. size : \E i \in P : p[i] = k
  BY <1>11 DEF Surjection
<1>13. \A i \in P : p[i] = place(i)
  BY DEF p
<1> DEFINE e == [k \in 1 .. size |-> CHOOSE i \in P : place(i) = k]
<1>14. \A k \in 1 .. size : e[k] \in P /\ p[e[k]] = k
  BY <1>12, <1>13
<1>15. list = [k \in 1 .. size |-> s[e[k]]]
  OBVIOUS
<1> HIDE DEF e
<1>16. e \in Bijection(1 .. size, P)
  <2>1. e \in [1 .. size -> P]
    BY <1>14 DEF e
  <2>2. \A k, l \in 1 .. size : e[k] = e[l] => k = l
    BY <1>14
  <2>3. \A i \in P : e[p[i]] = i /\ p[i] \in 1 .. size
    BY <1>7, <1>8, <1>14
  <2> QED BY <2>1, <2>2, <2>3 DEF Bijection, Injection, Surjection, IsInjective
<1> HIDE DEF list, size
<1>17. t = list /\ list \in Seq(ToSet(list)) /\ Len(list) = size
  <2>1. IsSeq(list) /\ Len(list) = size
    <3>1. list = [k \in 1 .. size |-> list[k]]
      BY <1>15
    <3> QED BY <1>2, <3>1, MakesList
  <2>2. list \in Seq(ToSet(list))
    BY <2>1, ListIs
  <2> QED BY <1>1, <1>2, <2>1, <2>2
<1>18. IsSeq(t) /\ Len(t) = size
  BY <1>17 DEF IsSeq
<1>19. \A k \in 1 .. size : t[k] = s[e[k]]
  BY <1>15, <1>17
<1>20. DOMAIN t = 1 .. size
  BY <1>18, ListIs
<1> HIDE DEF t
<1>21. Lists(t, s, P)
  BY <1>16, <1>18, <1>19, <1>20 DEF Lists, Told
<1> QED BY <1>21 DEF t


LEMMA KeptIsList ==
    ASSUME NEW s, IsSeq(s), NEW P \in SUBSET (DOMAIN s)
    PROVE  IsSeq(Kept(s, P))
<1>1. IsFiniteSet(P) /\ P \subseteq Nat
  <2>1. DOMAIN s = 1 .. Len(s) /\ Len(s) \in Nat
    BY ListIs
  <2>2. IsFiniteSet(1 .. Len(s))
    BY <2>1, FS_Interval
  <2> QED BY <2>1, <2>2, FS_Subset
<1> QED BY <1>1, Arranges DEF Kept, Lists, Told

LEMMA MapIsList ==
    ASSUME NEW s, IsSeq(s), NEW t, t = [i \in DOMAIN s |-> t[i]]
    PROVE  IsSeq(t)
<1>1. Len(s) \in Nat /\ t = [i \in 1 .. Len(s) |-> t[i]]
  BY ListIs
<1> QED BY <1>1, MakesList

LEMMA ConcatIsList ==
    ASSUME NEW cs, IsSeq(cs), \A i \in DOMAIN cs : IsSeq(cs[i])
    PROVE  IsSeq(FlattenSeq(cs))
<1> DEFINE R == UNION {ToSet(cs[i]) : i \in DOMAIN cs}
<1>1. \A i \in DOMAIN cs : cs[i] \in Seq(ToSet(cs[i])) /\ ToSet(cs[i]) \subseteq R
  BY ListIs
<1> HIDE DEF R
<1>2. \A i \in DOMAIN cs : cs[i] \in Seq(R)
  BY <1>1
<1>3. cs \in Seq(Seq(R))
  <2>1. Len(cs) \in Nat /\ cs = [i \in 1 .. Len(cs) |-> cs[i]] /\ DOMAIN cs = 1 .. Len(cs)
    BY ListIs
  <2>2. cs \in [1 .. Len(cs) -> Seq(R)]
    BY <1>2, <2>1
  <2> QED BY <2>1, <2>2
<1> QED BY <1>3, FlattenType, ListOf

LEMMA JoinIsList ==
    ASSUME NEW a, IsSeq(a), NEW b, NEW on, NEW carry
    PROVE  IsSeq(Join(a, b, on, carry).out)
<1> DEFINE matching(r) == {j \in DOMAIN b : /\ on \in DOMAIN r \cap DOMAIN b[j]
                                            /\ Render(b[j], on) = Render(r, on)}
           merged(r) == LET m == b[Max(matching(r))]
                        IN  [f \in carry \cap DOMAIN m |-> m[f]] @@ r
           t == [i \in DOMAIN a |-> IF matching(a[i]) # {} THEN merged(a[i]) ELSE a[i]]
<1>1. Join(a, b, on, carry) = Ok(t)
  BY Zenon DEF Join
<1> HIDE DEF matching, merged
<1>2. t = [i \in DOMAIN a |-> t[i]]
  OBVIOUS
<1> HIDE DEF t
<1>3. IsSeq(t)
  BY <1>2, MapIsList
<1> QED BY <1>1, <1>3 DEF Ok

LEMMA DeriveIsList ==
    ASSUME NEW a, IsSeq(a), NEW on, NEW rules, NEW then, Derive(a, on, rules, then).ok
    PROVE  IsSeq(Derive(a, on, rules, then).out)
<1> DEFINE hits(r) == {k \in DOMAIN rules : Holds(rules[k].when, r)}
           derived(r) == [f \in {on} |-> rules[Min(hits(r))].value] @@ r
           edited(r) == IF Holds(then.when, r)
                        THEN Restrict(r, DOMAIN r \ then.clear) ELSE r
           t == [i \in DOMAIN a |-> edited(derived(a[i]))]
           all == \A i \in DOMAIN a : hits(a[i]) # {}
<1>1. Derive(a, on, rules, then) = IF all THEN Ok(t) ELSE Err
  BY Zenon DEF Derive
<1> HIDE DEF hits, derived, edited, all
<1>2. t = [i \in DOMAIN a |-> t[i]]
  OBVIOUS
<1> HIDE DEF t
<1>3. IsSeq(t)
  BY <1>2, MapIsList
<1> QED BY <1>1, <1>3 DEF Ok, Err

-----------------------------------------------------------------------------
(* What a loop loses.                                                      *)

Running == pc \notin {"idle", "ok", "failed"}
InLoop == pc \in {"call", "again", "reauth"}

\* A run has a file the host served, also when it is the copy kept.
Loaded == (lastGood # NoFile => lastGood \in Files) /\ (Running => file \in Files)

\* Every collection is a list.
Listed ==
    /\ \A n \in DOMAIN outputs : IsSeq(outputs[n])
    /\ IsSeq(last.out) /\ IsSeq(gathered) /\ IsSeq(todo)

\* A loop done, and a loop under way: an item missing so far has been counted.
LoopDone(k) ==
    /\ {spec.steps[k].each, spec.steps[k].out} \subseteq DOMAIN outputs
    /\ Cardinality(Missing(k, outputs[spec.steps[k].out])) <= counted

LoopUnderWay ==
    /\ at \in DOMAIN spec.steps
    /\ step.each # "" => step.each \in DOMAIN outputs
    /\ Accounted(at) => Cardinality(Missing(at, gathered) \ ToSet(todo)) <= counted

Tallied ==
    /\ at \in Nat /\ (Running => at > 0)
    /\ Running => \A k \in DOMAIN spec.steps : k < at /\ Accounted(k) => LoopDone(k)
    /\ InLoop => LoopUnderWay
    /\ pc \in {"again", "reauth"} => todo # <<>>
    /\ pc \in {"clean", "write", "publish"} => at > Len(spec.steps)
    /\ Publishing /\ spec.counts # {} => counted <= spec.limit

LossInv == Loaded /\ Listed /\ Tallied

LEMMA NamedIsList == ASSUME Listed, NEW n, Named(n).ok PROVE n \in DOMAIN outputs /\ IsSeq(Named(n).out)
<1>1. n \in DOMAIN outputs
  BY DEF Named, Err
<1> QED BY <1>1 DEF Named, Ok, Listed

\* What a primitive makes of lists is a list.
LEMMA PrimitiveLists ==
    ASSUME Listed, IsSeq(step.records), IsSeq(step.of), Primitive.ok
    PROVE  IsSeq(Primitive.out)
<1> DEFINE in == IF step.uses \in {"const", "concat"} THEN Ok(<<>>) ELSE Input
           right == Named(step.right)
           parts == [i \in DOMAIN step.of |-> Named(step.of[i])]
           outs == [i \in DOMAIN parts |-> parts[i].out]
           whole == \A i \in DOMAIN parts : parts[i].ok
           r == CASE step.uses = "const" -> Ok(step.records)
                  [] step.uses = "concat" -> IF whole THEN Concat(outs) ELSE Err
                  [] step.uses = "join" ->
                       IF right.ok THEN Join(in.out, right.out, step.on, step.carry) ELSE Err
                  [] step.uses = "derive" -> Derive(in.out, step.on, step.rules, step.then)
                  [] step.uses = "dedupe" -> Dedupe(in.out, step.on)
                  [] step.uses = "filter" -> Filter(in.out, step.test)
                  [] step.uses = "transform" -> in
                  [] OTHER -> Err
<1>0. ~Err.ok /\ \A s : Ok(s).ok /\ Ok(s).out = s
  BY DEF Err, Ok
<1>1. Primitive = IF ~in.ok THEN Err ELSE r
  BY DEF Primitive
<1>2. in.ok /\ Primitive = r
  BY <1>0, <1>1
<1>3. IsSeq(in.out)
  <2>1. CASE step.uses \in {"const", "concat"}
    BY <1>0, <2>1, EmptyList
  <2>2. CASE step.uses \notin {"const", "concat"} /\ step.left # ""
    BY <1>2, <2>2, NamedIsList DEF Input
  <2>3. CASE step.uses \notin {"const", "concat"} /\ step.left = ""
    BY <2>3 DEF Input, Listed
  <2> QED BY <2>1, <2>2, <2>3
<1>4. whole => IsSeq(FlattenSeq(outs))
  <2> SUFFICES ASSUME whole PROVE IsSeq(FlattenSeq(outs))
    OBVIOUS
  <2>1. IsSeq(parts)
    BY MapIsList
  <2>2. IsSeq(outs)
    BY <2>1, MapIsList
  <2>3. ASSUME NEW i \in DOMAIN outs PROVE IsSeq(outs[i])
    BY NamedIsList
  <2> HIDE DEF outs
  <2> QED BY <2>2, <2>3, ConcatIsList
<1> HIDE DEF in, outs, whole, right
<1>5. CASE step.uses = "const"
  BY <1>0, <1>2, <1>5
<1>6. CASE step.uses = "concat"
  <2>1. r = IF whole THEN Concat(outs) ELSE Err
    BY <1>6
  <2> QED BY <1>0, <1>2, <1>4, <2>1 DEF Concat
<1>7. CASE step.uses = "join"
  <2>1. r = IF right.ok THEN Join(in.out, right.out, step.on, step.carry) ELSE Err
    BY <1>7
  <2>2. Primitive = Join(in.out, right.out, step.on, step.carry)
    BY <1>0, <1>2, <2>1
  <2> QED BY <1>3, <2>2, JoinIsList
<1>8. CASE step.uses = "derive"
  <2>1. Primitive = Derive(in.out, step.on, step.rules, step.then)
    BY <1>2, <1>8
  <2> QED BY <1>3, <2>1, DeriveIsList
<1>9. CASE step.uses = "dedupe"
  <2>1. Primitive = Dedupe(in.out, step.on)
    BY <1>2, <1>9
  <2>2. \E P \in SUBSET (DOMAIN in.out) : Primitive.out = Kept(in.out, P)
    BY <1>0, <2>1 DEF Dedupe
  <2> QED BY <1>3, <2>2, KeptIsList
<1>10. CASE step.uses = "filter"
  <2>1. Primitive = Filter(in.out, step.test)
    BY <1>2, <1>10
  <2>2. \E P \in SUBSET (DOMAIN in.out) : Primitive.out = Kept(in.out, P)
    BY <1>0, <2>1 DEF Filter
  <2> QED BY <1>3, <2>2, KeptIsList
<1>11. CASE step.uses = "transform"
  BY <1>2, <1>3, <1>11
<1>12. CASE step.uses \notin {"const", "concat", "join", "derive", "dedupe", "filter", "transform"}
  BY <1>0, <1>2, <1>12
<1> QED BY <1>5, <1>6, <1>7, <1>8, <1>9, <1>10, <1>11, <1>12

LEMMA FileIs ==
    ASSUME Loaded, Running
    PROVE  /\ IsSeq(spec.steps) /\ Len(spec.steps) \in Nat /\ DOMAIN spec.steps = 1 .. Len(spec.steps)
           /\ spec.limit \in Nat
           /\ \A k \in DOMAIN spec.steps : IsSeq(spec.steps[k].records) /\ IsSeq(spec.steps[k].of)
<1>1. file \in Files /\ spec = Text[file]
  BY DEF Loaded, spec
<1>2. IsSeq(spec.steps)
  BY <1>1, FilesAssumption
<1> QED BY <1>1, <1>2, FilesAssumption, ListIs

LEMMA RowsListed ==
    ASSUME NEW i
    PROVE  /\ IsSeq(Rows(i))
           /\ i # NoItem /\ Rows(i) # <<>> =>
                 \E j \in DOMAIN Rows(i) : Render(Rows(i)[j], "item") = i
<1>1. CASE i \in DOMAIN Answer
  BY <1>1, AnswerAssumption, Zenon DEF Rows
<1>2. CASE i \notin DOMAIN Answer
  BY <1>2, EmptyList, Zenon DEF Rows
<1> QED BY <1>1, <1>2

LEMMA ConcatenationIs ==
    ASSUME NEW s, IsSeq(s), NEW t, IsSeq(t), NEW both, both = s \o t
    PROVE  /\ IsSeq(both)
           /\ \A i \in DOMAIN s : i \in DOMAIN both /\ both[i] = s[i]
           /\ ToSet(t) \subseteq ToSet(both)
<1> DEFINE R == ToSet(s) \cup ToSet(t)
<1>1. s \in Seq(ToSet(s)) /\ t \in Seq(ToSet(t))
  BY ListIs
<1> HIDE DEF R
<1>2. s \in Seq(R) /\ t \in Seq(R)
  BY <1>1 DEF R
<1>3. both \in Seq(R) /\ Len(both) = Len(s) + Len(t)
  BY <1>2
<1>4. \A i \in DOMAIN s : i \in DOMAIN both /\ both[i] = s[i]
  BY <1>2, <1>3
<1>5. \A j \in DOMAIN t : Len(s) + j \in DOMAIN both /\ both[Len(s) + j] = t[j]
  BY <1>2, <1>3
<1>6. ToSet(t) \subseteq ToSet(both)
  BY <1>5 DEF ToSet
<1> QED BY <1>3, <1>4, <1>6, ListOf

LEMMA TailIs ==
    ASSUME NEW s, IsSeq(s), s # <<>>
    PROVE  IsSeq(Tail(s)) /\ ToSet(s) \subseteq ToSet(Tail(s)) \cup {Head(s)}
<1>1. s \in Seq(ToSet(s))
  BY ListIs
<1> DEFINE R == ToSet(s)
<1>2. s \in Seq(R) /\ Tail(s) \in Seq(R) /\ Len(Tail(s)) = Len(s) - 1
  BY <1>1
<1> HIDE DEF R
<1>3. ASSUME NEW i \in DOMAIN s PROVE s[i] \in ToSet(Tail(s)) \cup {Head(s)}
  <2>1. CASE i = 1
    BY <1>2, <2>1
  <2>2. CASE i # 1
    <3>1. i - 1 \in DOMAIN Tail(s) /\ Tail(s)[i - 1] = s[i]
      BY <1>2, <2>2
    <3> QED BY <3>1 DEF ToSet
  <2> QED BY <2>1, <2>2
<1>4. ToSet(s) \subseteq ToSet(Tail(s)) \cup {Head(s)}
  BY <1>3 DEF ToSet
<1> QED BY <1>2, <1>4, ListOf

LEMMA MissingFinite ==
    ASSUME Listed, NEW k, spec.steps[k].each \in DOMAIN outputs, NEW rows
    PROVE  IsFiniteSet(Missing(k, rows))
<1> DEFINE list == outputs[spec.steps[k].each]
           f == [i \in DOMAIN list |-> Render(list[i], "item")]
           T == {f[i] : i \in DOMAIN list}
<1>1. IsSeq(list)
  BY DEF Listed
<1>2. IsFiniteSet(DOMAIN list)
  <2>1. DOMAIN list = 1 .. Len(list) /\ Len(list) \in Nat
    BY <1>1, ListIs
  <2> HIDE DEF list
  <2> QED BY <2>1, FS_Interval
<1>3. Missing(k, rows) \subseteq T
  BY DEF Missing, Asked
<1> HIDE DEF list
<1>4. f \in Surjection(DOMAIN list, T)
  BY DEF Surjection
<1> HIDE DEF f, T
<1>5. IsFiniteSet(T)
  BY <1>2, <1>4, FS_Surjection
<1> QED BY <1>3, <1>5, FS_Subset

\* A step that changes nothing the tally is about.
LEMMA Steady ==
    ASSUME LossInv, UNCHANGED <<file, at, todo, gathered, outputs, last, counted>>,
           lastGood' \in {lastGood, NoFile}, Running' => Running, InLoop' => InLoop,
           pc' \in {"again", "reauth"} => todo # <<>>,
           pc' \in {"clean", "write", "publish"} => at > Len(spec.steps),
           Publishing' /\ spec.counts # {} => counted <= spec.limit
    PROVE  LossInv'
<1>1. Loaded' /\ Listed'
  BY DEF LossInv, Loaded, Listed
<1>2. spec' = spec /\ step' = step /\ \A k : LoopDone(k)' = LoopDone(k) /\ Accounted(k)' = Accounted(k)
  BY DEF spec, step, LoopDone, Accounted, Missing, Asked
<1>3. LoopUnderWay' = LoopUnderWay
  BY <1>2 DEF LoopUnderWay, Missing, Asked, spec
<1> QED BY <1>1, <1>2, <1>3 DEF LossInv, Tallied

\* A step that ends the run.
LEMMA Ends ==
    ASSUME LossInv, pc' \in {"ok", "failed"}, UNCHANGED <<at, outputs, last, lastGood>>,
           IsSeq(todo'), IsSeq(gathered')
    PROVE  LossInv'
    BY DEF LossInv, Loaded, Listed, Tallied, Running, InLoop, Publishing

\* The end of a step: if it was a loop, it is done, and what it has bound is not
\* bound again.
LEMMA Produces ==
    ASSUME LossInv, pc \in {"step", "call"}, at \in DOMAIN spec.steps, NEW r, r.ok => IsSeq(r.out),
           Produce(r), UNCHANGED <<file, counted, lastGood>>, IsSeq(todo'), IsSeq(gathered'),
           Accounted(at) =>
               step.each \in DOMAIN outputs /\ (r.ok => Cardinality(Missing(at, r.out)) <= counted)
    PROVE  LossInv'
<1>1. CASE ~r.ok
  BY <1>1, Ends DEF Produce, EndRun
<1>2. CASE r.ok
  <2>1. /\ outputs' = [n \in DOMAIN outputs \cup ({step.out} \ {""}) |->
                         IF n = step.out THEN r.out ELSE outputs[n]]
        /\ last' = Ok(r.out) /\ at' = at + 1 /\ pc' = "step"
    BY <1>2 DEF Produce
  <2>2. IsSeq(r.out) /\ Running
    BY <1>2 DEF Running
  <2>3. /\ DOMAIN outputs \subseteq DOMAIN outputs'
        /\ \A n \in DOMAIN outputs' : \/ n = step.out /\ outputs'[n] = r.out
                                      \/ n \in DOMAIN outputs /\ n # step.out /\ outputs'[n] = outputs[n]
        /\ step.out # "" => step.out \in DOMAIN outputs'
    BY <2>1
  <2>4. Listed'
    BY <2>1, <2>2, <2>3 DEF LossInv, Listed, Ok
  <2>5. /\ Loaded' /\ spec' = spec /\ Len(spec.steps) \in Nat /\ DOMAIN spec.steps = 1 .. Len(spec.steps)
        /\ at \in Nat
    BY <2>2, FileIs DEF LossInv, Loaded, Running, spec, Tallied
  <2>6. ASSUME NEW k \in DOMAIN spec.steps, k < at + 1, Accounted(k)
        PROVE  LoopDone(k)'
    <3> DEFINE each == spec.steps[k].each
               out == spec.steps[k].out
    <3>1. out # "" /\ out # each /\ \A l \in DOMAIN spec.steps : l > k => spec.steps[l].out \notin {out, each}
      BY <2>6 DEF Accounted
    <3>2. CASE k = at
      <4>1. each = step.each /\ out = step.out
        BY <3>2 DEF step
      <4>2. each \in DOMAIN outputs /\ Cardinality(Missing(k, r.out)) <= counted
        BY <1>2, <2>6, <3>2, <4>1
      <4>3. outputs'[each] = outputs[each] /\ outputs'[out] = r.out /\ {each, out} \subseteq DOMAIN outputs'
        BY <2>3, <3>1, <4>1, <4>2
      <4>4. Missing(k, r.out) = Missing(k, outputs[out])'
        BY <2>5, <4>3 DEF Missing, Asked
      <4> QED BY <2>5, <4>2, <4>3, <4>4 DEF LoopDone
    <3>3. CASE k < at
      <4>1. LoopDone(k)
        BY <2>2, <2>6, <3>3 DEF LossInv, Tallied
      <4>2. step.out \notin {out, each}
        BY <3>1, <3>3 DEF step
      <4>3. outputs'[each] = outputs[each] /\ outputs'[out] = outputs[out] /\ {each, out} \subseteq DOMAIN outputs'
        BY <2>3, <4>1, <4>2 DEF LoopDone
      <4>4. Missing(k, outputs[out]) = Missing(k, outputs[out])'
        BY <2>5, <4>3 DEF Missing, Asked
      <4> QED BY <2>5, <4>1, <4>3, <4>4 DEF LoopDone
    <3> QED BY <2>5, <2>6, <3>2, <3>3
  <2>7. ASSUME NEW k \in DOMAIN spec.steps, Accounted(k)'
        PROVE  Accounted(k)
    BY <2>5, <2>7 DEF Accounted
  <2>8. \A k \in DOMAIN spec'.steps : k < at' /\ Accounted(k)' => LoopDone(k)'
    BY <2>1, <2>5, <2>6, <2>7
  <2>9. /\ ~InLoop' /\ ~Publishing' /\ pc' \notin {"again", "reauth", "clean", "write", "publish"}
        /\ at' \in Nat /\ at' > 0
    <3>1. ~InLoop' /\ ~Publishing' /\ pc' \notin {"again", "reauth", "clean", "write", "publish"}
      BY <2>1 DEF InLoop, Publishing
    <3>2. at' = at + 1 /\ at \in Nat
      BY <2>1, <2>5
    <3>3. at' \in Nat /\ at' > 0
      BY <3>2
    <3> QED BY <3>1, <3>3
  <2>10. Tallied'
    BY <2>8, <2>9 DEF Tallied
  <2> QED BY <2>4, <2>5, <2>10 DEF LossInv
<1> QED BY <1>1, <1>2

LEMMA StepTallies == ASSUME LossInv, counted \in Nat, Step PROVE LossInv'
<1>0. pc = "step" /\ Running /\ Loaded /\ Listed /\ gathered' = <<>> /\ UNCHANGED <<file, counted, lastGood>>
  BY DEF Step, Running, LossInv
<1>1. /\ at \in DOMAIN spec.steps /\ IsSeq(step.records) /\ IsSeq(step.of)
      /\ Len(spec.steps) \in Nat /\ DOMAIN spec.steps = 1 .. Len(spec.steps) /\ at \in Nat
  <2>1. at \in Nat /\ at > 0 /\ at <= Len(spec.steps)
    BY <1>0 DEF Step, LossInv, Tallied
  <2>2. at \in DOMAIN spec.steps
    BY <1>0, <2>1, FileIs
  <2> QED BY <1>0, <2>1, <2>2, FileIs DEF step
<1>2. IsSeq(gathered') /\ IsSeq(todo)
  BY <1>0, EmptyList DEF Listed
<1>3. CASE EndRun("failed") /\ UNCHANGED <<at, outputs, last, todo>>
  BY <1>0, <1>2, <1>3, Ends DEF EndRun
<1>4. CASE ~step.when /\ Skip /\ UNCHANGED todo
  <2>1. ~Accounted(at)
    BY <1>4 DEF Accounted, step
  <2>2. CASE step.alt # "" /\ Produce(Named(step.alt))
    BY <1>0, <1>1, <1>2, <1>4, <2>1, <2>2, NamedIsList, Produces
  <2>3. CASE at' = at + 1 /\ UNCHANGED <<outputs, last, pc>>
    <3>1. Loaded' /\ Listed' /\ spec' = spec
      BY <1>0, <1>2, <1>4, <2>3 DEF Loaded, Listed, Running, spec
    <3>2. ASSUME NEW k \in DOMAIN spec.steps, k < at + 1, Accounted(k)'
          PROVE  LoopDone(k)'
      <4>1. Accounted(k)
        BY <3>1, <3>2 DEF Accounted
      <4>2. k < at
        BY <1>1, <2>1, <3>2, <4>1
      <4>3. LoopDone(k)
        BY <1>0, <4>1, <4>2 DEF LossInv, Tallied
      <4> QED BY <1>0, <2>3, <3>1, <4>3 DEF LoopDone, Missing, Asked
    <3>3. Tallied'
      BY <1>0, <1>1, <2>3, <3>1, <3>2 DEF Tallied, Running, InLoop, Publishing
    <3> QED BY <3>1, <3>3 DEF LossInv
  <2> QED BY <1>4, <2>2, <2>3 DEF Skip
<1>5. CASE step.when /\ ~Upstream /\ (\E r \in {Checked(Primitive)} : Produce(r)) /\ UNCHANGED todo
  <2>1. ~Accounted(at)
    BY <1>5 DEF Accounted, step, Upstream
  <2>2. PICK r \in {Checked(Primitive)} : Produce(r)
    BY <1>5
  <2>3. r.ok => Primitive.ok /\ r = Primitive
    BY <2>2 DEF Checked, Err
  <2>4. r.ok => IsSeq(r.out)
    BY <1>0, <1>1, <2>3, PrimitiveLists
  <2> QED BY <1>0, <1>1, <1>2, <1>5, <2>1, <2>2, <2>4, Produces
<1>6. CASE /\ step.each # "" => Named(step.each).ok
           /\ todo' = IF step.each = "" THEN <<NoItem>>
                      ELSE [i \in DOMAIN Named(step.each).out |->
                               Render(Named(step.each).out[i], "item")]
           /\ pc' = "call"
           /\ UNCHANGED <<at, outputs, last, dir>>
  <2> DEFINE list == Named(step.each).out
             items == [i \in DOMAIN list |-> Render(list[i], "item")]
  <2>1. spec' = spec /\ step' = step /\ Loaded'
    BY <1>0, <1>6 DEF spec, step, Loaded, Running
  <2>2. step.each # "" => step.each \in DOMAIN outputs /\ IsSeq(list) /\ list = outputs[step.each]
    BY <1>0, <1>6, NamedIsList DEF Named, Ok
  <2>3. IsSeq(todo')
    <3>1. CASE step.each = ""
      <4>1. <<NoItem>> \in Seq({NoItem})
        OBVIOUS
      <4> QED BY <1>6, <3>1, <4>1, ListOf
    <3>2. CASE step.each # ""
      <4>1. IsSeq(items)
        BY <2>2, <3>2, MapIsList
      <4> QED BY <1>6, <3>2, <4>1
    <3> QED BY <3>1, <3>2
  <2>4. Listed'
    BY <1>0, <1>2, <1>6, <2>3 DEF Listed
  <2>5. \A k : LoopDone(k)' = LoopDone(k) /\ Accounted(k)' = Accounted(k) /\ Asked(k)' = Asked(k)
    BY <1>0, <1>6, <2>1 DEF LoopDone, Accounted, Missing, Asked
  <2>6. ASSUME Accounted(at)
        PROVE  Cardinality(Missing(at, gathered') \ ToSet(todo')) <= counted
    <3>1. step.each # "" /\ step.each = spec.steps[at].each
      BY <2>6 DEF Accounted, step
    <3>2. todo' = items /\ list = outputs[step.each]
      BY <1>6, <2>2, <3>1
    <3>3. Missing(at, gathered') \subseteq ToSet(todo')
      BY <3>1, <3>2 DEF Missing, Asked, ToSet
    <3>4. Missing(at, gathered') \ ToSet(todo') = {}
      BY <3>3
    <3> QED BY <3>4, FS_EmptySet
  <2>7. LoopUnderWay'
    <3>1. Missing(at, gathered)' = Missing(at, gathered')
      BY <1>6, <2>5 DEF Missing
    <3> QED BY <1>0, <1>1, <1>6, <2>1, <2>2, <2>5, <2>6, <3>1 DEF LoopUnderWay
  <2>8. Tallied'
    BY <1>0, <1>1, <1>6, <2>1, <2>5, <2>7 DEF LossInv, Tallied, Running, InLoop, Publishing
  <2> QED BY <2>1, <2>4, <2>8 DEF LossInv
<1> QED BY <1>3, <1>4, <1>5, <1>6 DEF Step

\* An item of a loop is done, one way or the other.
LEMMA LoopGoesOn ==
    ASSUME LossInv, counted \in Nat, InLoop, todo # <<>>, todo' = Tail(todo), pc' = "call",
           UNCHANGED <<file, at, outputs, last, lastGood>>, IsSeq(gathered'),
           counted' \in Nat, counted <= counted',
           Accounted(at) /\ step.each \in DOMAIN outputs =>
               Cardinality(Missing(at, gathered') \ ToSet(Tail(todo))) <= counted'
    PROVE  LossInv'
<1>1. Loaded /\ Listed /\ Tallied /\ Running /\ LoopUnderWay
  BY DEF LossInv, Tallied, Running, InLoop
<1>2. Loaded' /\ Listed' /\ spec' = spec /\ step' = step
  BY <1>1, TailIs DEF Loaded, Listed, Running, spec, step
<1>3. \A k : Accounted(k)' = Accounted(k) /\ Asked(k)' = Asked(k)
  BY <1>2 DEF Accounted, Asked
<1>4. ASSUME NEW k \in DOMAIN spec.steps, k < at, Accounted(k) PROVE LoopDone(k)'
  <2> DEFINE gone == Missing(k, outputs[spec.steps[k].out])
  <2>1. LoopDone(k)
    BY <1>1, <1>4 DEF Tallied
  <2>2. IsFiniteSet(gone)
    BY <1>1, <2>1, MissingFinite DEF LoopDone
  <2>3. Missing(k, outputs[spec.steps[k].out])' = gone
    BY <1>2, <1>3 DEF Missing
  <2>4. Cardinality(gone) \in Nat /\ Cardinality(gone) <= counted
    BY <2>1, <2>2, FS_CardinalityType DEF LoopDone
  <2> HIDE DEF gone
  <2>5. Cardinality(gone) <= counted'
    BY <2>4
  <2> QED BY <1>2, <2>1, <2>3, <2>5 DEF LoopDone
<1>5. LoopUnderWay'
  <2>1. Missing(at, gathered)' = Missing(at, gathered')
    BY <1>3 DEF Missing
  <2>2. Accounted(at) => step.each # ""
    BY DEF Accounted, step
  <2> QED BY <1>1, <1>2, <1>3, <2>1, <2>2 DEF LoopUnderWay
<1>6. Tallied'
  <2>1. ~Publishing' /\ Running' /\ pc' \notin {"again", "reauth", "clean", "write", "publish"}
    BY DEF Publishing, Running
  <2>2. \A k \in DOMAIN spec'.steps : k < at' /\ Accounted(k)' => LoopDone(k)'
    BY <1>2, <1>3, <1>4
  <2> QED BY <1>1, <1>5, <2>1, <2>2 DEF Tallied
<1> QED BY <1>2, <1>6 DEF LossInv

\* A failure that is tolerated counts, unless it is that there is no data.
LEMMA FailedTallies ==
    ASSUME LossInv, counted \in Nat, InLoop, todo # <<>>, NEW class, Failed(class),
           class \in {"transport", "reauth"} \/ (class = "empty" /\ Rows(Head(todo)) = <<>>),
           UNCHANGED <<file, at, gathered, outputs, last, lastGood>>
    PROVE  LossInv'
<1>1. Listed /\ LoopUnderWay
  BY DEF LossInv, Tallied
<1>2. IsSeq(todo) /\ IsSeq(gathered)
  BY <1>1 DEF Listed
<1>3. CASE EndRun("failed") /\ UNCHANGED todo
  BY <1>2, <1>3, Ends DEF EndRun
<1>4. CASE /\ todo' = Tail(todo) /\ pc' = "call" /\ class \in step.tolerate
           /\ counted' = IF class \in spec.counts THEN counted + 1 ELSE counted
  <2>1. counted' \in Nat /\ counted <= counted'
    <3>1. CASE class \in spec.counts
      BY <1>4, <3>1
    <3>2. CASE class \notin spec.counts
      BY <1>4, <3>2
    <3> QED BY <3>1, <3>2
  <2>2. ASSUME Accounted(at), step.each \in DOMAIN outputs
        PROVE  Cardinality(Missing(at, gathered) \ ToSet(Tail(todo))) <= counted'
    <3> DEFINE gone == Missing(at, gathered) \ ToSet(todo)
               more == Missing(at, gathered) \ ToSet(Tail(todo))
    <3>1. IsFiniteSet(gone)
      <4>1. IsFiniteSet(Missing(at, gathered))
        BY <1>1, <2>2, MissingFinite DEF step
      <4>2. gone \subseteq Missing(at, gathered)
        OBVIOUS
      <4> HIDE DEF gone
      <4> QED BY <4>1, <4>2, FS_Subset
    <3>2. Cardinality(gone) \in Nat /\ Cardinality(gone) <= counted
      BY <1>1, <2>2, <3>1, FS_CardinalityType DEF LoopUnderWay
    <3>3. more \subseteq gone \cup {Head(todo)}
      BY <1>2, TailIs
    <3>4. CASE class = "empty"
      <4>1. Rows(Head(todo)) = <<>>
        BY <3>4
      <4>2. Head(todo) \notin more
        BY <4>1, Zenon DEF Missing
      <4>3. more \subseteq gone
        BY <3>3, <4>2
      <4> HIDE DEF gone, more
      <4>4. Cardinality(more) <= Cardinality(gone) /\ Cardinality(more) \in Nat
        BY <3>1, <4>3, FS_Subset, FS_CardinalityType
      <4>5. Cardinality(more) <= counted'
        BY <2>1, <3>2, <4>4
      <4> QED BY <4>5 DEF more
    <3>5. CASE class # "empty"
      <4>1. class \in spec.counts
        BY <1>4, <2>2, <3>5 DEF Accounted, step
      <4>2. counted' = counted + 1
        BY <1>4, <4>1
      <4> HIDE DEF gone, more
      <4>3. /\ IsFiniteSet(gone \cup {Head(todo)})
            /\ \/ Cardinality(gone \cup {Head(todo)}) = Cardinality(gone)
               \/ Cardinality(gone \cup {Head(todo)}) = Cardinality(gone) + 1
        BY <3>1, FS_AddElement
      <4>4. /\ Cardinality(more) \in Nat
            /\ Cardinality(more) <= Cardinality(gone \cup {Head(todo)})
        BY <3>3, <4>3, FS_Subset, FS_CardinalityType
      <4>5. Cardinality(more) <= counted'
        BY <3>2, <4>2, <4>3, <4>4
      <4> QED BY <4>5 DEF more
    <3> QED BY <3>4, <3>5
  <2>3. gathered' = gathered
    OBVIOUS
  <2> QED BY <1>2, <1>4, <2>1, <2>2, <2>3, LoopGoesOn
<1>5. \/ EndRun("failed") /\ UNCHANGED todo
      \/ /\ todo' = Tail(todo) /\ pc' = "call" /\ class \in step.tolerate
         /\ counted' = IF class \in spec.counts THEN counted + 1 ELSE counted
  BY Zenon DEF Failed
<1> QED BY <1>3, <1>4, <1>5

\* The rows of an answered item say whose they are.
LEMMA AnsweredTallies ==
    ASSUME LossInv, counted \in Nat, InLoop, todo # <<>>, Answered,
           UNCHANGED <<file, at, outputs, last, lastGood>>
    PROVE  LossInv'
<1>1. Listed /\ LoopUnderWay
  BY DEF LossInv, Tallied
<1>2. IsSeq(todo) /\ IsSeq(gathered)
  BY <1>1 DEF Listed
<1> DEFINE rows == Rows(Head(todo))
<1>3. /\ gathered' = gathered \o rows /\ todo' = Tail(todo) /\ pc' = "call"
      /\ counted' = counted + 1 \/ counted' = counted
  BY Zenon DEF Answered
<1>4. counted' \in Nat /\ counted <= counted'
  BY <1>3
<1>5. /\ IsSeq(rows) /\ IsSeq(gathered')
      /\ \A i \in DOMAIN gathered : i \in DOMAIN gathered' /\ gathered'[i] = gathered[i]
      /\ ToSet(rows) \subseteq ToSet(gathered')
  <2>1. IsSeq(rows)
    BY RowsListed
  <2>2. gathered' = gathered \o rows
    BY <1>3
  <2> HIDE DEF rows
  <2>3. IsSeq(gathered') /\ ToSet(rows) \subseteq ToSet(gathered')
    BY <1>2, <2>1, <2>2, ConcatenationIs
  <2>4. \A i \in DOMAIN gathered : i \in DOMAIN gathered' /\ gathered'[i] = gathered[i]
    BY <1>2, <2>1, <2>2, ConcatenationIs
  <2> QED BY <2>1, <2>3, <2>4
<1>6. Head(todo) \notin Missing(at, gathered')
  <2> SUFFICES ASSUME Head(todo) \in Missing(at, gathered') PROVE FALSE
    OBVIOUS
  <2>1. /\ Head(todo) # NoItem /\ rows # <<>>
        /\ \A i \in DOMAIN gathered' : Render(gathered'[i], "item") # Head(todo)
    BY Zenon DEF Missing, Asked
  <2>2. PICK j \in DOMAIN rows : Render(rows[j], "item") = Head(todo)
    BY <2>1, RowsListed, Zenon
  <2> HIDE DEF rows
  <2>3. PICK i \in DOMAIN gathered' : gathered'[i] = rows[j]
    BY <1>5 DEF ToSet
  <2> QED BY <2>1, <2>2, <2>3
<1>7. Missing(at, gathered') \subseteq Missing(at, gathered)
  <2> SUFFICES ASSUME NEW i \in Missing(at, gathered') PROVE i \in Missing(at, gathered)
    OBVIOUS
  <2>1. /\ i \in Asked(at) /\ Rows(i) # <<>>
        /\ \A j \in DOMAIN gathered' : Render(gathered'[j], "item") # i
    BY Zenon DEF Missing
  <2>2. \A j \in DOMAIN gathered : Render(gathered[j], "item") # i
    BY <1>5, <2>1
  <2> QED BY <2>1, <2>2, Zenon DEF Missing
<1>8. ASSUME Accounted(at), step.each \in DOMAIN outputs
      PROVE  Cardinality(Missing(at, gathered') \ ToSet(Tail(todo))) <= counted'
  <2> DEFINE gone == Missing(at, gathered) \ ToSet(todo)
             more == Missing(at, gathered') \ ToSet(Tail(todo))
  <2>1. IsFiniteSet(gone)
    <3>1. IsFiniteSet(Missing(at, gathered))
      BY <1>1, <1>8, MissingFinite DEF step
    <3>2. gone \subseteq Missing(at, gathered)
      OBVIOUS
    <3> HIDE DEF gone
    <3> QED BY <3>1, <3>2, FS_Subset
  <2>2. more \subseteq gone
    BY <1>2, <1>6, <1>7, TailIs
  <2>3. Cardinality(gone) <= counted
    BY <1>1, <1>8 DEF LoopUnderWay
  <2> HIDE DEF gone, more
  <2>4. /\ Cardinality(more) \in Nat /\ Cardinality(gone) \in Nat
        /\ Cardinality(more) <= Cardinality(gone)
    BY <2>1, <2>2, FS_Subset, FS_CardinalityType
  <2>5. Cardinality(more) <= counted'
    BY <1>4, <2>3, <2>4
  <2> QED BY <2>5 DEF more
<1> HIDE DEF rows
<1> QED BY <1>3, <1>4, <1>5, <1>8, LoopGoesOn

LEMMA CallTallies == ASSUME LossInv, counted \in Nat, Call PROVE LossInv'
<1>1. InLoop /\ Running /\ todo # <<>> /\ UNCHANGED <<file, at, outputs, last, lastGood>>
  BY DEF Call, InLoop, Running
<1>2. Listed
  BY DEF LossInv
<1>3. CASE Answered
  BY <1>1, <1>3, AnsweredTallies
<1>4. CASE CallFails
  BY <1>1, <1>4, FailedTallies DEF CallFails
<1>5. CASE Classified
  <2>1. CASE Rows(Head(todo)) = <<>> /\ Failed("empty") /\ UNCHANGED gathered
    BY <1>1, <2>1, FailedTallies, Zenon
  <2>2. CASE Rejected /\ UNCHANGED gathered
    <3>1. CASE Failed("reauth")
      BY <1>1, <2>2, <3>1, FailedTallies
    <3>2. CASE pc' = "reauth" /\ UNCHANGED <<todo, counted>>
      <4>1. ~Publishing' /\ pc' \notin {"clean", "write", "publish"}
        BY <3>2 DEF Publishing
      <4> QED BY <1>1, <2>2, <3>2, <4>1, Steady
    <3> QED BY <2>2, <3>1, <3>2 DEF Rejected
  <2> QED BY <1>5, <2>1, <2>2, Zenon DEF Classified
<1>6. CASE EndRun("failed") /\ UNCHANGED <<gathered, todo>>
  BY <1>1, <1>2, <1>6, Ends DEF EndRun, Listed
<1> QED BY <1>3, <1>4, <1>5, <1>6 DEF Call

LEMMA ReauthTallies == ASSUME LossInv, counted \in Nat, Reauth PROVE LossInv'
<1>1. InLoop /\ Running /\ todo # <<>> /\ UNCHANGED <<file, at, gathered, outputs, last, lastGood>>
  BY DEF Reauth, InLoop, Running, LossInv, Tallied
<1>2. CASE Failed("transport")
  BY <1>1, <1>2, FailedTallies
<1>3. CASE pc' = "again" /\ UNCHANGED <<todo, counted>>
  <2>1. ~Publishing' /\ pc' \notin {"clean", "write", "publish"}
    BY <1>3 DEF Publishing
  <2> QED BY <1>1, <1>3, <2>1, Steady
<1> QED BY <1>2, <1>3 DEF Reauth

LEMMA GatherTallies == ASSUME LossInv, Gather PROVE LossInv'
<1> DEFINE r == Checked(Ok(gathered))
<1>1. /\ pc = "call" /\ InLoop /\ todo = <<>> /\ Produce(r) /\ gathered' = <<>>
      /\ UNCHANGED <<file, todo, counted, lastGood>>
  BY DEF Gather, InLoop
<1>2. LoopUnderWay /\ Listed
  BY <1>1 DEF LossInv, Tallied
<1>3. r.ok => r.out = gathered
  BY DEF Checked, Ok, Err
<1>4. IsSeq(gathered') /\ IsSeq(todo') /\ IsSeq(gathered)
  BY <1>1, <1>2, EmptyList DEF Listed
<1>5. ASSUME Accounted(at) PROVE step.each \in DOMAIN outputs /\ Cardinality(Missing(at, gathered)) <= counted
  <2>1. step.each # ""
    BY <1>5 DEF Accounted, step
  <2>2. ToSet(todo) = {}
    BY <1>1 DEF ToSet
  <2>3. Missing(at, gathered) \ ToSet(todo) = Missing(at, gathered)
    BY <2>2
  <2>4. Cardinality(Missing(at, gathered) \ ToSet(todo)) <= counted
    BY <1>2, <1>5 DEF LoopUnderWay
  <2> QED BY <1>2, <2>1, <2>3, <2>4 DEF LoopUnderWay
<1>6. Accounted(at) => step.each \in DOMAIN outputs /\ (r.ok => Cardinality(Missing(at, r.out)) <= counted)
  BY <1>3, <1>5
<1>7. r.ok => IsSeq(r.out)
  BY <1>3, <1>4
<1>8. at \in DOMAIN spec.steps
  BY <1>2 DEF LoopUnderWay
<1> HIDE DEF r
<1> QED BY <1>1, <1>4, <1>6, <1>7, <1>8, Produces

LEMMA StartTallies == ASSUME LossInv, Start PROVE LossInv'
<1>1. /\ at' = 1 /\ todo' = <<>> /\ gathered' = <<>> /\ outputs' = <<>> /\ last' = Nil
      /\ \/ pc' = "inputs" /\ file' \in Files /\ lastGood' \in Files
         \/ pc' = "failed" /\ lastGood' = lastGood
  BY DEF Start, Load, EndRun, LossInv, Loaded
<1>2. Listed'
  <2>1. DOMAIN outputs' = {}
    BY <1>1
  <2> QED BY <1>1, <2>1, EmptyList DEF Listed, Nil
<1>3. Loaded'
  BY <1>1 DEF LossInv, Loaded, Running
<1>4. Tallied'
  <2>1. /\ ~InLoop' /\ ~Publishing' /\ pc' \notin {"again", "reauth", "clean", "write", "publish"}
    BY <1>1 DEF InLoop, Publishing
  <2>2. ASSUME Running', NEW k \in DOMAIN spec'.steps, k < at' PROVE FALSE
    <3>1. Loaded' /\ Running'
      BY <1>3, <2>2
    <3>2. file' \in Files /\ spec' = Text[file']
      BY <3>1 DEF Loaded, spec
    <3>3. DOMAIN spec'.steps = 1 .. Len(spec'.steps) /\ Len(spec'.steps) \in Nat
      BY <3>2, FilesAssumption, ListIs
    <3> QED BY <1>1, <2>2, <3>3
  <2>3. at' \in Nat /\ at' > 0
    BY <1>1
  <2> QED BY <2>1, <2>2, <2>3 DEF Tallied
<1> QED BY <1>2, <1>3, <1>4 DEF LossInv

LEMMA LossInvStep == IInv /\ LossInv /\ [Next]_vars => LossInv'
<1> SUFFICES ASSUME IInv, LossInv, [Next]_vars PROVE LossInv'
  OBVIOUS
<1>0. counted \in Nat /\ Listed /\ Tallied /\ IsSeq(todo) /\ IsSeq(gathered)
  BY DEF IInv, TypeOK, LossInv, Listed
<1>e. ASSUME NEW result \in {"ok", "failed"}, EndRun(result), UNCHANGED runVars, lastGood' = lastGood
      PROVE  LossInv'
  BY <1>0, <1>e, Ends DEF EndRun, runVars
<1>s. ASSUME UNCHANGED <<file, at, todo, gathered, outputs, last, counted, lastGood>>, Running,
             ~InLoop', pc' \in {"clean", "write", "publish"} => at > Len(spec.steps),
             Publishing' /\ spec.counts # {} => counted <= spec.limit
      PROVE  LossInv'
  <2>1. pc' \notin {"again", "reauth"}
    BY <1>s DEF InLoop
  <2> QED BY <1>s, <2>1, Steady
<1>1. CASE Start
  BY <1>1, StartTallies
<1>2. CASE ResolveInputs
  <2>1. CASE pc' = "auth"
    <3>1. ~InLoop' /\ ~Publishing' /\ Running
      BY <1>2, <2>1 DEF ResolveInputs, InLoop, Publishing, Running
    <3> QED BY <1>2, <1>s, <2>1, <3>1 DEF ResolveInputs, runVars
  <2> QED BY <1>2, <1>e, <2>1 DEF ResolveInputs
<1>3. CASE Prepare
  <2>0. pc = "auth" /\ UNCHANGED <<file, at, todo, gathered, outputs, last, counted, lastGood>>
    BY <1>3 DEF Prepare
  <2>1. CASE pc' = "step"
    <3>1. ~InLoop' /\ ~Publishing' /\ Running
      BY <2>0, <2>1 DEF InLoop, Publishing, Running
    <3> QED BY <1>s, <2>0, <2>1, <3>1
  <2>2. CASE EndRun("failed")
    BY <1>0, <2>0, <2>2, Ends DEF EndRun
  <2> QED BY <1>3, <2>1, <2>2 DEF Prepare
<1>4. CASE Step
  BY <1>0, <1>4, StepTallies
<1>5. CASE Call
  BY <1>0, <1>5, CallTallies
<1>6. CASE Reauth
  BY <1>0, <1>6, ReauthTallies
<1>7. CASE Gather
  BY <1>7, GatherTallies
<1>8. CASE Build
  <2>0. pc = "step" /\ at > Len(spec.steps) /\ UNCHANGED runVars /\ lastGood' = lastGood
    BY <1>8 DEF Build
  <2>1. CASE pc' = "clean"
    <3>1. ~InLoop' /\ ~Publishing' /\ Running
      BY <2>0, <2>1 DEF InLoop, Publishing, Running
    <3> QED BY <1>s, <2>0, <3>1 DEF runVars
  <2>2. CASE EndRun("failed")
    BY <1>e, <2>0, <2>2
  <2> QED BY <1>8, <2>1, <2>2 DEF Build
<1>9. CASE RemoveStaleCatalogs
  <2>1. ~InLoop' /\ ~Publishing' /\ Running /\ at > Len(spec.steps)
    BY <1>0, <1>9 DEF RemoveStaleCatalogs, InLoop, Publishing, Running, Tallied
  <2> QED BY <1>9, <1>s, <2>1 DEF RemoveStaleCatalogs, runVars
<1>10. CASE Write
  <2>0. pc = "write" /\ UNCHANGED runVars /\ lastGood' = lastGood
    BY <1>10 DEF Write
  <2>1. CASE pc' = pc
    <3>1. ~InLoop' /\ ~Publishing' /\ Running /\ at > Len(spec.steps)
      BY <1>0, <2>0, <2>1 DEF InLoop, Publishing, Running, Tallied
    <3> QED BY <1>s, <2>0, <3>1 DEF runVars
  <2>2. CASE EndRun("failed")
    BY <1>e, <2>0, <2>2
  <2> QED BY <1>10, <2>1, <2>2 DEF Write
<1>11. CASE Publish
  <2>0. pc = "write" /\ UNCHANGED runVars /\ lastGood' = lastGood
    BY <1>11 DEF Publish
  <2>1. CASE ~Refused /\ pc' = "publish"
    <3>1. ~InLoop' /\ Running /\ at > Len(spec.steps)
      BY <1>0, <2>0, <2>1 DEF InLoop, Running, Tallied
    <3>2. Loaded
      BY DEF LossInv
    <3>3. spec.limit \in Nat
      BY <3>1, <3>2, FileIs
    <3>4. spec.counts # {} => counted <= spec.limit
      BY <1>0, <2>1, <3>3 DEF Refused
    <3> QED BY <1>s, <2>0, <3>1, <3>4 DEF runVars
  <2>2. CASE EndRun("failed")
    BY <1>e, <2>0, <2>2
  <2> QED BY <1>11, <2>1, <2>2 DEF Publish
<1>12. CASE PublishFile
  <2>1. /\ pc = "publish" /\ pc' = pc /\ UNCHANGED runVars /\ lastGood' = lastGood
    BY <1>12 DEF PublishFile
  <2>2. ~InLoop' /\ Running /\ at > Len(spec.steps) /\ (spec.counts # {} => counted <= spec.limit)
    BY <1>0, <2>1 DEF InLoop, Publishing, Running, Tallied
  <2> QED BY <1>s, <2>1, <2>2 DEF runVars
<1>13. CASE Retire
  BY <1>13, <1>e DEF Retire
<1>14. CASE ContextEnds
  <2>1. pc' = pc /\ UNCHANGED runVars /\ lastGood' = lastGood
    BY <1>14 DEF ContextEnds
  <2> QED BY <1>0, <2>1, Steady DEF runVars, Running, InLoop, Publishing, Tallied
<1>15. CASE Crash
  <2>1. pc' = "idle" /\ UNCHANGED runVars /\ lastGood' = NoFile
    BY <1>15 DEF Crash
  <2> QED BY <2>1, Steady DEF runVars, Running, InLoop, Publishing
<1>16. CASE UNCHANGED vars
  <2>1. pc' = pc /\ UNCHANGED runVars /\ lastGood' = lastGood
    BY <1>16 DEF vars
  <2> QED BY <1>0, <2>1, Steady DEF runVars, Running, InLoop, Publishing, Tallied
<1> QED
  BY <1>1, <1>2, <1>3, <1>4, <1>5, <1>6, <1>7, <1>8, <1>9, <1>10, <1>11, <1>12, <1>13, <1>14,
     <1>15, <1>16 DEF Next, Work

LEMMA InitLossInv == Init => LossInv
<1> SUFFICES ASSUME Init PROVE LossInv
  OBVIOUS
<1>1. Listed
  BY EmptyList DEF Init, Listed, Nil
<1> QED BY <1>1 DEF Init, LossInv, Loaded, Tallied, Running, InLoop, Publishing

\* At every moment of a run, a loop that counts its failures misses no more items
\* among those it is done with than the run has counted (dispatch, countItem),
\* and every collection a step has bound is a list.
THEOREM RunCountsItsLosses == Spec => []LossInv
    BY InitLossInv, LossInvStep, RunInvariant, PTL DEF Spec

\* Past refuseWhen and about to send, a run misses no more items of a loop that
\* counts its failures than the file's limit says (dispatch, countItem,
\* PublishCatalogs), whatever failed, was empty, was retried or was skipped.
THEOREM RunSendsWhole == Spec => []PartialRunSendsNothing
<1>1. ASSUME IInv, LossInv PROVE PartialRunSendsNothing
  <2> SUFFICES ASSUME Publishing, spec.counts # {}, NEW k \in DOMAIN spec.steps, Accounted(k)
               PROVE  Cardinality(Missing(k, outputs[spec.steps[k].out])) <= spec.limit
    BY DEF PartialRunSendsNothing
  <2> DEFINE gone == Missing(k, outputs[spec.steps[k].out])
  <2>1. Running /\ Loaded /\ Listed /\ Tallied
    BY <1>1 DEF Running, Publishing, LossInv
  <2>2. k < at
    <3>1. at > Len(spec.steps) /\ at \in Nat
      BY <2>1 DEF Tallied, Publishing
    <3>2. DOMAIN spec.steps = 1 .. Len(spec.steps) /\ Len(spec.steps) \in Nat
      BY <2>1, FileIs
    <3> QED BY <3>1, <3>2
  <2>3. LoopDone(k) /\ counted <= spec.limit
    BY <2>1, <2>2 DEF Tallied
  <2>4. Cardinality(gone) \in Nat
    BY <2>1, <2>3, MissingFinite, FS_CardinalityType DEF LoopDone
  <2>5. spec.limit \in Nat
    BY <2>1, FileIs
  <2>6. Cardinality(gone) <= counted /\ counted \in Nat
    BY <1>1, <2>3 DEF LoopDone, IInv, TypeOK
  <2> QED BY <2>3, <2>4, <2>5, <2>6
<1>2. IInv /\ LossInv => PartialRunSendsNothing
  BY <1>1
<1> QED BY <1>2, RunInvariant, RunCountsItsLosses, PTL

-----------------------------------------------------------------------------
(* Every record in one place.                                              *)

\* The lists L[i] together hold the records of t at the positions P, the list
\* L[i] those at D[i].
Parts(I, L, D, t, P) ==
    /\ \A i \in I : Lists(L[i], t, D[i]) /\ D[i] \subseteq P
    /\ \A x \in P : \E i \in I : x \in D[i]
    /\ \A i, j \in I : i # j => D[i] \cap D[j] = {}

LEMMA TheIs == ASSUME NEW x PROVE The({x}) = x
<1> DEFINE S == {x}
<1>1. \E y \in S : TRUE
  OBVIOUS
<1>2. (CHOOSE y \in S : TRUE) \in S
  BY <1>1
<1> QED BY <1>2 DEF The

LEMMA BijectionIs ==
    ASSUME NEW A, NEW B, NEW e \in Bijection(A, B)
    PROVE  /\ e \in [A -> B] /\ DOMAIN e = A
           /\ \A k, l \in A : e[k] = e[l] => k = l
           /\ \A x \in B : \E k \in A : e[k] = x
    BY DEF Bijection, Injection, Surjection, IsInjective

LEMMA IsBijection ==
    ASSUME NEW A, NEW B, NEW e \in [A -> B],
           \A k, l \in A : e[k] = e[l] => k = l,
           \A x \in B : \E k \in A : e[k] = x
    PROVE  e \in Bijection(A, B)
    BY DEF Bijection, Injection, Surjection, IsInjective

\* What e makes of the members of R.
Image(e, R) == {e[k] : k \in R}

\* A part of a list, rearranged.
LEMMA PartLists ==
    ASSUME NEW q, NEW t, NEW P, NEW e, Told(q, t, P, e), NEW R \in SUBSET (DOMAIN q), NEW by
    PROVE  Lists(Arranged(q, R, by), t, Image(e, R))
<1> DEFINE r == Arranged(q, R, by)
           T == Image(e, R)
<1>0. IsSeq(q) /\ e \in Bijection(DOMAIN q, P) /\ \A k \in DOMAIN q : q[k] = t[e[k]]
  BY DEF Told
<1>1. IsFiniteSet(R) /\ R \subseteq Nat
  <2>1. DOMAIN q = 1 .. Len(q) /\ Len(q) \in Nat
    BY <1>0, ListIs
  <2>2. IsFiniteSet(1 .. Len(q))
    BY <2>1, FS_Interval
  <2> QED BY <2>1, <2>2, FS_Subset
<1>2. Lists(r, q, R)
  BY <1>1, Arranges
<1> HIDE DEF r
<1>3. PICK f : Told(r, q, R, f)
  BY <1>2 DEF Lists
<1>4. /\ IsSeq(r) /\ \A j \in DOMAIN r : r[j] = q[f[j]]
      /\ f \in [DOMAIN r -> R] /\ \A k, l \in DOMAIN r : f[k] = f[l] => k = l
      /\ \A x \in R : \E k \in DOMAIN r : f[k] = x
  BY <1>3, BijectionIs DEF Told
<1>5. \A k, l \in DOMAIN q : e[k] = e[l] => k = l
  BY <1>0, BijectionIs
<1> DEFINE g == [j \in DOMAIN r |-> e[f[j]]]
<1>6. g \in [DOMAIN r -> T]
  BY <1>4 DEF Image
<1>7. \A k, l \in DOMAIN r : g[k] = g[l] => k = l
  BY <1>4, <1>5
<1>8. \A x \in T : \E k \in DOMAIN r : g[k] = x
  BY <1>4 DEF Image
<1>9. \A j \in DOMAIN r : r[j] = t[g[j]]
  BY <1>0, <1>4
<1> HIDE DEF g, T
<1>10. g \in Bijection(DOMAIN r, T)
  BY <1>6, <1>7, <1>8, IsBijection
<1>11. Lists(r, t, T)
  BY <1>4, <1>9, <1>10 DEF Lists, Told
<1> QED BY <1>11 DEF r, T

LEMMA ListsLen ==
    ASSUME NEW q, NEW r, NEW t, NEW P, Lists(q, t, P), Lists(r, t, P)
    PROVE  Len(q) = Len(r)
<1>1. ASSUME NEW u, Lists(u, t, P) PROVE IsFiniteSet(P) /\ Len(u) = Cardinality(P)
  <2>1. PICK e : IsSeq(u) /\ e \in Bijection(DOMAIN u, P)
    BY <1>1 DEF Lists, Told
  <2>2. DOMAIN u = 1 .. Len(u) /\ Len(u) \in Nat
    BY <2>1, ListIs
  <2>3. IsFiniteSet(1 .. Len(u)) /\ Cardinality(1 .. Len(u)) = Len(u)
    <3> DEFINE N == Len(u)
    <3>1. N \in Nat
      BY <2>2
    <3> HIDE DEF N
    <3>2. IsFiniteSet(1 .. N) /\ Cardinality(1 .. N) = N
      BY <3>1, FS_Interval
    <3> QED BY <3>2 DEF N
  <2>4. e \in Surjection(DOMAIN u, P) /\ e \in Injection(DOMAIN u, P)
    BY <2>1 DEF Bijection
  <2> QED BY <2>2, <2>3, <2>4, FS_Surjection
<1> QED BY <1>1

LEMMA OrderedLists ==
    ASSUME NEW q, NEW t, NEW P, Lists(q, t, P), NEW by
    PROVE  Lists(Ordered(q, by), t, P)
<1>1. PICK e : Told(q, t, P, e)
  BY DEF Lists
<1>2. e \in Bijection(DOMAIN q, P)
  BY <1>1 DEF Told
<1>3. Lists(Arranged(q, DOMAIN q, by), t, Image(e, DOMAIN q))
  BY <1>1, PartLists
<1>4. Image(e, DOMAIN q) = P
  BY <1>2, BijectionIs DEF Image
<1>5. Ordered(q, by) = Arranged(q, DOMAIN q, by)
  <2>1. {Arranged(x, DOMAIN x, by) : x \in {q}} = {Arranged(q, DOMAIN q, by)}
    OBVIOUS
  <2> QED BY <2>1, TheIs DEF Ordered
<1> QED BY <1>3, <1>4, <1>5

\* A bijection that takes the members of U to those of V, and no others.
LEMMA Fibres ==
    ASSUME NEW A, NEW B, NEW f \in Bijection(A, B), IsFiniteSet(B),
           NEW U \in SUBSET A, NEW V \in SUBSET B, \A a \in A : a \in U <=> f[a] \in V
    PROVE  IsFiniteSet(U) /\ IsFiniteSet(V) /\ Cardinality(U) = Cardinality(V)
<1> DEFINE g == [a \in U |-> f[a]]
<1>1. /\ f \in [A -> B] /\ \A k, l \in A : f[k] = f[l] => k = l
      /\ \A x \in B : \E k \in A : f[k] = x
  BY BijectionIs
<1>2. g \in [U -> V] /\ (\A k, l \in U : g[k] = g[l] => k = l)
  BY <1>1
<1>3. \A x \in V : \E k \in U : g[k] = x
  BY <1>1
<1> HIDE DEF g
<1>4. g \in Injection(U, V) /\ g \in Surjection(U, V)
  BY <1>2, <1>3 DEF Injection, Surjection, IsInjective
<1>5. IsFiniteSet(V)
  BY FS_Subset
<1> QED BY <1>4, <1>5, FS_Injection

\* The places of the lists L have every record of a list as often as it has.
HoldAll(places, L, all) ==
    /\ \A p \in places : L[p[1]][p[2]] \in ToSet(all)
    /\ \A r : Cardinality({p \in places : L[p[1]][p[2]] = r})
                  = Cardinality({j \in DOMAIN all : all[j] = r})

\* Lists that together hold what one list holds have every record as often.
LEMMA PartsHold ==
    ASSUME NEW I, NEW L, NEW D, NEW t, NEW K, IsFiniteSet(K), Parts(I, L, D, t, K),
           NEW all, Lists(all, t, K),
           NEW places, places = UNION {{i} \X DOMAIN L[i] : i \in I}
    PROVE  HoldAll(places, L, all)
<1> DEFINE E == [i \in I |-> CHOOSE e : Told(L[i], t, D[i], e)]
<1>1. ASSUME NEW i \in I PROVE Told(L[i], t, D[i], E[i])
  <2>1. \E e : Told(L[i], t, D[i], e)
    BY DEF Parts, Lists
  <2> QED BY <2>1
<1>2. \A i \in I : E[i] \in Bijection(DOMAIN L[i], D[i]) /\ \A k \in DOMAIN L[i] : L[i][k] = t[E[i][k]]
  BY <1>1 DEF Told
<1> HIDE DEF E
<1>3. ASSUME NEW i \in I
      PROVE  /\ E[i] \in [DOMAIN L[i] -> D[i]]
             /\ \A k, l \in DOMAIN L[i] : E[i][k] = E[i][l] => k = l
             /\ \A x \in D[i] : \E k \in DOMAIN L[i] : E[i][k] = x
  BY <1>2, BijectionIs
<1>4. ASSUME NEW p \in places PROVE p[1] \in I /\ p[2] \in DOMAIN L[p[1]] /\ p = <<p[1], p[2]>>
  OBVIOUS
<1>5. ASSUME NEW i \in I, NEW k \in DOMAIN L[i] PROVE <<i, k>> \in places
  OBVIOUS
<1> DEFINE pos == [p \in places |-> E[p[1]][p[2]]]
<1>6. ASSUME NEW p \in places
      PROVE  pos[p] \in D[p[1]] /\ pos[p] \in K /\ L[p[1]][p[2]] = t[pos[p]]
  BY <1>2, <1>3, <1>4 DEF Parts
<1>7. ASSUME NEW p \in places, NEW q \in places, pos[p] = pos[q] PROVE p = q
  <2>1. p[1] = q[1]
    BY <1>4, <1>6, <1>7 DEF Parts
  <2>2. p[2] = q[2]
    BY <1>3, <1>4, <1>7, <2>1
  <2> QED BY <1>4, <2>1, <2>2
<1>8. ASSUME NEW x \in K PROVE \E p \in places : pos[p] = x
  <2>1. PICK i \in I : x \in D[i]
    BY DEF Parts
  <2>2. PICK k \in DOMAIN L[i] : E[i][k] = x
    BY <1>3, <2>1
  <2>3. <<i, k>> \in places /\ pos[<<i, k>>] = x
    BY <1>5, <2>2
  <2> QED BY <2>3
<1>9. pos \in [places -> K]
  BY <1>6
<1> HIDE DEF pos
<1>10. pos \in Bijection(places, K)
  BY <1>7, <1>8, <1>9, IsBijection
<1>11. PICK f \in Bijection(DOMAIN all, K) : \A j \in DOMAIN all : all[j] = t[f[j]]
  BY DEF Lists, Told
<1>12. f \in [DOMAIN all -> K] /\ \A x \in K : \E j \in DOMAIN all : f[j] = x
  BY <1>11, BijectionIs
<1>13. ASSUME NEW p \in places PROVE L[p[1]][p[2]] \in ToSet(all)
  <2>1. PICK j \in DOMAIN all : f[j] = pos[p]
    BY <1>6, <1>12
  <2>2. L[p[1]][p[2]] = all[j]
    BY <1>6, <1>11, <2>1
  <2> QED BY <2>2 DEF ToSet
<1>14. ASSUME NEW r
       PROVE  Cardinality({p \in places : L[p[1]][p[2]] = r}) = Cardinality({j \in DOMAIN all : all[j] = r})
  <2> DEFINE U == {p \in places : L[p[1]][p[2]] = r}
             V == {x \in K : t[x] = r}
             W == {j \in DOMAIN all : all[j] = r}
  <2>1. U \in SUBSET places /\ V \in SUBSET K /\ W \in SUBSET (DOMAIN all)
    OBVIOUS
  <2>2. \A p \in places : p \in U <=> pos[p] \in V
    BY <1>6
  <2>3. \A j \in DOMAIN all : j \in W <=> f[j] \in V
    BY <1>11, <1>12
  <2> HIDE DEF U, V, W
  <2>4. Cardinality(U) = Cardinality(V)
    BY <1>10, <2>1, <2>2, Fibres
  <2>5. Cardinality(W) = Cardinality(V)
    BY <1>11, <2>1, <2>3, Fibres
  <2>6. Cardinality(U) = Cardinality(W)
    BY <2>4, <2>5
  <2> QED BY <2>6 DEF U, W
<1> QED BY <1>13, <1>14 DEF HoldAll

-----------------------------------------------------------------------------
(* The budget of a catalog.                                                *)

\* What the records of t at the positions P cost, unit by unit.
Units(t, P) == {w \in P \X Nat : w[2] \in 1 .. t[w[1]].cost}

Spent(t, P) == Cardinality(Units(t, P))

Priced(t, P) == \A m \in P : t[m].cost \in Nat

LEMMA OneSpent ==
    ASSUME NEW t, NEW m, t[m].cost \in Nat
    PROVE  IsFiniteSet(Units(t, {m})) /\ Spent(t, {m}) = t[m].cost
<1> DEFINE N == t[m].cost
           g == [u \in 1 .. N |-> <<m, u>>]
           U == Units(t, {m})
<1>1. N \in Nat
  OBVIOUS
<1>2. \A w : w \in U <=> \E u \in 1 .. N : w = <<m, u>>
  BY <1>1 DEF Units
<1> HIDE DEF N, U
<1>3. IsFiniteSet(1 .. N) /\ Cardinality(1 .. N) = N
  BY <1>1, FS_Interval
<1>4. g \in [1 .. N -> U] /\ (\A k, l \in 1 .. N : g[k] = g[l] => k = l)
  BY <1>2
<1>5. \A w \in U : \E u \in 1 .. N : g[u] = w
  BY <1>2
<1> HIDE DEF g
<1>6. g \in Injection(1 .. N, U) /\ g \in Surjection(1 .. N, U)
  BY <1>4, <1>5 DEF Injection, Surjection, IsInjective
<1>7. IsFiniteSet(U) /\ Cardinality(U) = N
  BY <1>3, <1>6, FS_Surjection
<1> QED BY <1>7 DEF Spent, U, N

LEMMA MoreSpent ==
    ASSUME NEW t, NEW P, IsFiniteSet(Units(t, P)), NEW m, m \notin P, t[m].cost \in Nat
    PROVE  /\ IsFiniteSet(Units(t, P \cup {m}))
           /\ Spent(t, P \cup {m}) = Spent(t, P) + t[m].cost
           /\ Spent(t, P) \in Nat
<1> DEFINE U == Units(t, P)
           V == Units(t, {m})
<1>1. Units(t, P \cup {m}) = U \cup V /\ U \cap V = {}
  BY DEF Units
<1>2. IsFiniteSet(U) /\ IsFiniteSet(V) /\ Cardinality(V) = t[m].cost
  BY OneSpent DEF Spent
<1> HIDE DEF U, V
<1>3. /\ IsFiniteSet(U \cup V) /\ Cardinality(U) \in Nat
      /\ Cardinality(U \cup V) = Cardinality(U) + Cardinality(V) - Cardinality(U \cap V)
  BY <1>2, FS_Union, FS_CardinalityType
<1>4. Cardinality(U \cap V) = 0
  BY <1>1, FS_EmptySet
<1>5. Cardinality(U \cup V) = Cardinality(U) + t[m].cost
  BY <1>2, <1>3, <1>4
<1> QED BY <1>1, <1>3, <1>5 DEF Spent, U

LEMMA NoneSpent == \A t : Units(t, {}) = {} /\ Spent(t, {}) = 0 /\ IsFiniteSet(Units(t, {}))
<1>1. \A t : Units(t, {}) = {}
  BY DEF Units
<1> QED BY <1>1, FS_EmptySet DEF Spent

LEMMA CostIs ==
    ASSUME NEW q, IsSeq(q), Priced(q, DOMAIN q)
    PROVE  IsFiniteSet(Units(q, DOMAIN q)) /\ CostOf(q) = Spent(q, DOMAIN q)
<1> DEFINE N == Len(q)
           G == [n \in 1 .. N |-> [x \in Nat |-> x + q[n].cost]]
           Def(f) == [n \in 0 .. N |-> IF n = 0 THEN 0 ELSE f[n - 1] + q[n].cost]
<1>0. N \in Nat /\ DOMAIN q = 1 .. N /\ \A n \in 1 .. N : q[n].cost \in Nat
  BY ListIs DEF Priced
<1> HIDE DEF N
<1>1. G \in Steppers(N, Nat) /\ \A n \in 1 .. N : \A x \in Nat : G[n][x] = x + q[n].cost
  BY <1>0 DEF Steppers
<1>2. ASSUME NEW f
      PROVE  /\ DOMAIN Def(f) = 0 .. N /\ Def(f)[0] = 0 /\ Def(f) = [n \in 0 .. N |-> Def(f)[n]]
             /\ \A n \in 1 .. N : Def(f)[n] = f[n - 1] + q[n].cost
  BY <1>0
<1> HIDE DEF G, Def
<1>3. PICK f : Stepped(N, Nat, 0, G, f)
  BY <1>0, <1>1, Recursion
<1>4. f = Def(f)
  <2>1. f \in [0 .. N -> Nat] /\ f[0] = 0 /\ \A n \in 1 .. N : f[n] = G[n][f[n - 1]]
    BY <1>3, Zenon DEF Stepped
  <2>2. ASSUME NEW n \in 0 .. N PROVE f[n] = Def(f)[n]
    <3>1. CASE n = 0
      BY <1>2, <2>1, <3>1
    <3>2. CASE n \in 1 .. N
      <4>1. n - 1 \in 0 .. N
        BY <1>0, <3>2
      <4>2. f[n - 1] \in Nat
        BY <2>1, <4>1
      <4>3. f[n] = f[n - 1] + q[n].cost
        BY <1>1, <2>1, <3>2, <4>2
      <4> QED BY <1>2, <3>2, <4>3
    <3> QED BY <1>0, <3>1, <3>2
  <2>3. f = [n \in 0 .. N |-> f[n]] /\ Def(f) = [n \in 0 .. N |-> Def(f)[n]]
    BY <1>2, <2>1
  <2> QED BY <2>2, <2>3
<1> DEFINE upto == CHOOSE h : h = Def(h)
<1>5. upto = Def(upto)
  BY <1>4, Zenon
<1>6. CostOf(q) = upto[N]
  BY Zenon DEF CostOf, Def, N
<1> HIDE DEF upto
<1>7. upto[0] = 0 /\ \A n \in 1 .. N : upto[n] = upto[n - 1] + q[n].cost
  BY <1>2, <1>5
<1> DEFINE S == {n \in 0 .. N : IsFiniteSet(Units(q, 1 .. n)) /\ upto[n] = Spent(q, 1 .. n)}
<1>8. 0 \in S
  <2>1. 1 .. 0 = {}
    OBVIOUS
  <2> QED BY <1>0, <1>7, <2>1, NoneSpent
<1>9. ASSUME NEW n \in 1 .. N, n - 1 \in S PROVE n \in S
  <2>1. 1 .. n = (1 .. (n - 1)) \cup {n} /\ n \notin 1 .. (n - 1)
    BY <1>0
  <2>2. IsFiniteSet(Units(q, 1 .. (n - 1))) /\ upto[n - 1] = Spent(q, 1 .. (n - 1))
    BY <1>9
  <2>3. /\ IsFiniteSet(Units(q, 1 .. n))
        /\ Spent(q, 1 .. n) = Spent(q, 1 .. (n - 1)) + q[n].cost
    <3> DEFINE P == 1 .. (n - 1)
    <3>1. IsFiniteSet(Units(q, P)) /\ n \notin P /\ q[n].cost \in Nat
      BY <1>0, <2>1, <2>2
    <3> HIDE DEF P
    <3>2. IsFiniteSet(Units(q, P \cup {n})) /\ Spent(q, P \cup {n}) = Spent(q, P) + q[n].cost
      BY <3>1, MoreSpent
    <3> QED BY <2>1, <3>2 DEF P
  <2>4. upto[n] = upto[n - 1] + q[n].cost
    BY <1>7
  <2> QED BY <1>0, <2>2, <2>3, <2>4
<1> HIDE DEF S
<1>10. \A n \in 0 .. N : n \in S
  BY <1>0, <1>8, <1>9, UpTo
<1>11. N \in S
  BY <1>0, <1>10
<1> QED BY <1>0, <1>6, <1>11 DEF S

\* A list costs what the positions cost that it holds.
LEMMA CostOfLists ==
    ASSUME NEW q, NEW t, NEW P, Lists(q, t, P), Priced(t, P)
    PROVE  CostOf(q) = Spent(t, P)
<1>1. PICK e \in Bijection(DOMAIN q, P) : \A k \in DOMAIN q : q[k] = t[e[k]]
  BY DEF Lists, Told
<1>2. /\ e \in [DOMAIN q -> P] /\ \A k, l \in DOMAIN q : e[k] = e[l] => k = l
      /\ \A x \in P : \E k \in DOMAIN q : e[k] = x
  BY <1>1, BijectionIs
<1>3. Priced(q, DOMAIN q) /\ IsSeq(q)
  BY <1>1, <1>2 DEF Priced, Lists, Told
<1>4. IsFiniteSet(Units(q, DOMAIN q)) /\ CostOf(q) = Spent(q, DOMAIN q)
  BY <1>3, CostIs
<1> DEFINE U == Units(q, DOMAIN q)
           V == Units(t, P)
           g == [w \in U |-> <<e[w[1]], w[2]>>]
<1>5. /\ \A w : w \in U <=> \E k \in DOMAIN q : \E u \in 1 .. t[e[k]].cost : w = <<k, u>>
      /\ \A w : w \in V <=> \E x \in P : \E u \in 1 .. t[x].cost : w = <<x, u>>
  BY <1>1, <1>2 DEF Units, Priced
<1> HIDE DEF U, V
<1>6. g \in [U -> V]
  BY <1>2, <1>5
<1>7. \A v, w \in U : g[v] = g[w] => v = w
  BY <1>2, <1>5
<1>8. \A v \in V : \E w \in U : g[w] = v
  <2> SUFFICES ASSUME NEW v \in V PROVE \E w \in U : g[w] = v
    OBVIOUS
  <2>1. PICK x \in P : \E u \in 1 .. t[x].cost : v = <<x, u>>
    BY <1>5
  <2>2. PICK u \in 1 .. t[x].cost : v = <<x, u>>
    BY <2>1
  <2>3. PICK k \in DOMAIN q : e[k] = x
    BY <1>2
  <2>4. <<k, u>> \in U /\ g[<<k, u>>] = v
    BY <1>5, <2>2, <2>3
  <2> QED BY <2>4
<1> HIDE DEF g
<1>9. g \in Injection(U, V) /\ g \in Surjection(U, V)
  BY <1>6, <1>7, <1>8 DEF Injection, Surjection, IsInjective
<1>10. Cardinality(V) = Cardinality(U)
  BY <1>4, <1>9, FS_Surjection DEF U
<1> QED BY <1>4, <1>10 DEF U, V, Spent

\* Dealing goes from the first record to the last.
Deals(d, p, budget) ==
    /\ d \in [0 .. Len(p) -> [chunk : Nat, spent : Nat]]
    /\ d[0] = [chunk |-> 0, spent |-> 0]
    /\ \A n \in 1 .. Len(p) :
          IF n = 1 \/ d[n - 1].spent + p[n].cost > budget
          THEN d[n].chunk = d[n - 1].chunk + 1 /\ d[n].spent = p[n].cost
          ELSE d[n].chunk = d[n - 1].chunk /\ d[n].spent = d[n - 1].spent + p[n].cost

LEMMA DealtDeals ==
    ASSUME NEW p, IsSeq(p), Priced(p, DOMAIN p), NEW budget \in Nat
    PROVE  Deals(Dealt(p, budget), p, budget)
<1> DEFINE N == Len(p)
           A == [chunk : Nat, spent : Nat]
           first == [chunk |-> 0, spent |-> 0]
           put(l, n) == IF n = 1 \/ l.spent + p[n].cost > budget
                           THEN [chunk |-> l.chunk + 1, spent |-> p[n].cost]
                           ELSE [l EXCEPT !.spent = @ + p[n].cost]
           G == [n \in 1 .. N |-> [x \in A |-> put(x, n)]]
           Def(f) == [n \in 0 .. N |-> IF n = 0 THEN first ELSE The({put(l, n) : l \in {f[n - 1]}})]
<1>0. N \in Nat /\ DOMAIN p = 1 .. N /\ \A n \in 1 .. N : p[n].cost \in Nat
  BY ListIs DEF Priced
<1>1. first \in A
  OBVIOUS
<1>2. ASSUME NEW n \in 1 .. N, NEW x \in A
      PROVE  /\ put(x, n) \in A
             /\ n = 1 \/ x.spent + p[n].cost > budget =>
                   put(x, n).chunk = x.chunk + 1 /\ put(x, n).spent = p[n].cost
             /\ ~(n = 1 \/ x.spent + p[n].cost > budget) =>
                   put(x, n).chunk = x.chunk /\ put(x, n).spent = x.spent + p[n].cost
  BY <1>0
<1> HIDE DEF put, A, first, N
<1>3. G \in Steppers(N, A) /\ \A n \in 1 .. N : \A x \in A : G[n][x] = put(x, n)
  BY <1>2 DEF Steppers
<1>4. ASSUME NEW f
      PROVE  /\ DOMAIN Def(f) = 0 .. N /\ Def(f)[0] = first /\ Def(f) = [n \in 0 .. N |-> Def(f)[n]]
             /\ \A n \in 1 .. N : Def(f)[n] = put(f[n - 1], n)
  <2>1. ASSUME NEW n \in 1 .. N PROVE Def(f)[n] = put(f[n - 1], n)
    <3>1. Def(f)[n] = The({put(l, n) : l \in {f[n - 1]}})
      BY <1>0
    <3>2. {put(l, n) : l \in {f[n - 1]}} = {put(f[n - 1], n)}
      OBVIOUS
    <3> QED BY <3>1, <3>2, TheIs
  <2>2. DOMAIN Def(f) = 0 .. N /\ Def(f) = [n \in 0 .. N |-> Def(f)[n]]
    OBVIOUS
  <2>3. Def(f)[0] = first
    BY <1>0
  <2> HIDE DEF Def
  <2> QED BY <2>1, <2>2, <2>3
<1> HIDE DEF G, Def
<1>5. PICK f : Stepped(N, A, first, G, f)
  BY <1>0, <1>1, <1>3, Recursion
<1>6. f = Def(f)
  <2>1. f \in [0 .. N -> A] /\ f[0] = first /\ \A n \in 1 .. N : f[n] = G[n][f[n - 1]]
    BY <1>5, Zenon DEF Stepped
  <2>2. ASSUME NEW n \in 0 .. N PROVE f[n] = Def(f)[n]
    <3>1. CASE n = 0
      BY <1>4, <2>1, <3>1
    <3>2. CASE n \in 1 .. N
      <4>1. n - 1 \in 0 .. N
        BY <1>0, <3>2
      <4>2. f[n - 1] \in A
        BY <2>1, <4>1
      <4>3. f[n] = put(f[n - 1], n)
        BY <1>3, <2>1, <3>2, <4>2
      <4> QED BY <1>4, <3>2, <4>3
    <3> QED BY <1>0, <3>1, <3>2
  <2>3. f = [n \in 0 .. N |-> f[n]] /\ Def(f) = [n \in 0 .. N |-> Def(f)[n]]
    BY <1>4, <2>1
  <2> QED BY <2>2, <2>3
<1> DEFINE d == CHOOSE h : h = Def(h)
<1>7. d = Def(d)
  BY <1>6, Zenon
<1>8. Dealt(p, budget) = d
  BY Zenon DEF Dealt, Def, N, first, put
<1> HIDE DEF d
<1>9. /\ DOMAIN d = 0 .. N /\ d = [n \in 0 .. N |-> d[n]]
      /\ d[0] = first /\ \A n \in 1 .. N : d[n] = put(d[n - 1], n)
  BY <1>4, <1>7
<1> DEFINE S == {n \in 0 .. N : d[n] \in A}
<1>10. 0 \in S
  BY <1>0, <1>1, <1>9
<1>11. ASSUME NEW n \in 1 .. N, n - 1 \in S PROVE n \in S
  <2>1. d[n - 1] \in A /\ n \in 0 .. N
    BY <1>0, <1>11
  <2>2. put(d[n - 1], n) \in A
    BY <1>2, <2>1
  <2> QED BY <1>9, <2>1, <2>2
<1> HIDE DEF S
<1>12. \A n \in 0 .. N : n \in S
  BY <1>0, <1>10, <1>11, UpTo
<1>13. d \in [0 .. N -> A]
  BY <1>9, <1>12 DEF S
<1>14. ASSUME NEW n \in 1 .. N
       PROVE  IF n = 1 \/ d[n - 1].spent + p[n].cost > budget
              THEN d[n].chunk = d[n - 1].chunk + 1 /\ d[n].spent = p[n].cost
              ELSE d[n].chunk = d[n - 1].chunk /\ d[n].spent = d[n - 1].spent + p[n].cost
  <2>1. n - 1 \in 0 .. N
    BY <1>0
  <2>2. d[n - 1] \in A /\ d[n] = put(d[n - 1], n)
    BY <1>9, <1>13, <2>1
  <2> QED BY <1>2, <2>2
<1>15. Deals(d, p, budget)
  BY <1>9, <1>13, <1>14 DEF Deals, A, first, N
<1> QED BY <1>8, <1>15

\* The first n records of chunk k.
In(d, n, k) == {m \in 1 .. n : d[m].chunk = k}

\* After n records: each is in one of the chunks there are; a chunk with more
\* than one record keeps within the budget; the last chunk has spent what its
\* records cost.
DealtSoFar(d, p, budget, n) ==
    /\ \A m \in 1 .. n : d[m].chunk \in 1 .. d[n].chunk
    /\ \A k \in 1 .. d[n].chunk : Spent(p, In(d, n, k)) <= budget \/ \E m : In(d, n, k) = {m}
    /\ n > 0 => /\ IsFiniteSet(Units(p, In(d, n, d[n].chunk)))
                /\ Spent(p, In(d, n, d[n].chunk)) = d[n].spent

LEMMA DealsKeep ==
    ASSUME NEW p, IsSeq(p), Priced(p, DOMAIN p), NEW budget \in Nat, NEW d, Deals(d, p, budget)
    PROVE  DealtSoFar(d, p, budget, Len(p))
<1> DEFINE N == Len(p)
           S == {n \in 0 .. N : DealtSoFar(d, p, budget, n)}
<1>0. /\ N \in Nat /\ DOMAIN p = 1 .. N /\ \A n \in 1 .. N : p[n].cost \in Nat
      /\ d \in [0 .. N -> [chunk : Nat, spent : Nat]] /\ d[0].chunk = 0
      /\ \A n \in 1 .. N :
            IF n = 1 \/ d[n - 1].spent + p[n].cost > budget
            THEN d[n].chunk = d[n - 1].chunk + 1 /\ d[n].spent = p[n].cost
            ELSE d[n].chunk = d[n - 1].chunk /\ d[n].spent = d[n - 1].spent + p[n].cost
  BY ListIs DEF Priced, Deals
<1> HIDE DEF N
<1>1. 0 \in S
  BY <1>0 DEF DealtSoFar
<1>2. ASSUME NEW n \in 1 .. N, n - 1 \in S PROVE n \in S
  <2> DEFINE c == d[n - 1].chunk
  <2>0. n \in Nat /\ n > 0 /\ c \in Nat /\ d[n].chunk \in Nat /\ p[n].cost \in Nat /\ d[n - 1].spent \in Nat
    <3>1. n \in 0 .. N /\ n - 1 \in 0 .. N
      BY <1>0
    <3>2. d[n] \in [chunk : Nat, spent : Nat] /\ d[n - 1] \in [chunk : Nat, spent : Nat]
      BY <1>0, <3>1
    <3> QED BY <1>0, <3>2
  <2>1. DealtSoFar(d, p, budget, n - 1)
    BY <1>2
  <2>2. \A m \in 1 .. n : m = n \/ (m \in 1 .. (n - 1) /\ d[m].chunk \in 1 .. c)
    BY <2>0, <2>1 DEF DealtSoFar
  <2>3. \A k : In(d, n, k) = IF k = d[n].chunk THEN In(d, n - 1, k) \cup {n} ELSE In(d, n - 1, k)
    BY <2>0 DEF In
  <2> HIDE DEF c
  <2>4. CASE n = 1 \/ d[n - 1].spent + p[n].cost > budget
    <3>1. d[n].chunk = c + 1 /\ d[n].spent = p[n].cost
      BY <1>0, <2>4 DEF c
    <3>2. In(d, n - 1, c + 1) = {}
      BY <2>0, <2>2 DEF In
    <3>3. In(d, n, c + 1) = {n}
      BY <2>3, <3>1, <3>2
    <3>4. \A m \in 1 .. n : d[m].chunk \in 1 .. d[n].chunk
      BY <2>0, <2>2, <3>1
    <3>5. ASSUME NEW k \in 1 .. d[n].chunk
          PROVE  Spent(p, In(d, n, k)) <= budget \/ \E m : In(d, n, k) = {m}
      <4>1. CASE k = c + 1
        BY <3>3, <4>1
      <4>2. CASE k # c + 1
        <5>1. k \in 1 .. c /\ In(d, n, k) = In(d, n - 1, k)
          BY <2>0, <2>3, <3>1, <4>2
        <5> QED BY <2>1, <5>1 DEF DealtSoFar, c
      <4> QED BY <4>1, <4>2
    <3>6. IsFiniteSet(Units(p, {n})) /\ Spent(p, {n}) = p[n].cost
      BY <2>0, OneSpent
    <3>7. DealtSoFar(d, p, budget, n)
      BY <3>1, <3>3, <3>4, <3>5, <3>6 DEF DealtSoFar
    <3> QED BY <3>7
  <2>5. CASE ~(n = 1 \/ d[n - 1].spent + p[n].cost > budget)
    <3> DEFINE P == In(d, n - 1, c)
    <3>1. d[n].chunk = c /\ d[n].spent = d[n - 1].spent + p[n].cost /\ d[n].spent <= budget /\ n - 1 > 0
      BY <1>0, <2>0, <2>5 DEF c
    <3>2. In(d, n, c) = P \cup {n} /\ n \notin P
      BY <2>0, <2>3, <3>1 DEF In
    <3>3. IsFiniteSet(Units(p, P)) /\ Spent(p, P) = d[n - 1].spent
      BY <2>1, <3>1 DEF DealtSoFar, c
    <3> HIDE DEF P
    <3>4. IsFiniteSet(Units(p, P \cup {n})) /\ Spent(p, P \cup {n}) = Spent(p, P) + p[n].cost
      BY <2>0, <3>2, <3>3, MoreSpent
    <3>5. c >= 1
      <4>1. n - 1 \in 1 .. (n - 1)
        BY <2>0, <3>1
      <4>2. d[n - 1].chunk \in 1 .. c
        BY <2>1, <4>1 DEF DealtSoFar, c
      <4> QED BY <2>0, <4>2
    <3>6. \A m \in 1 .. n : d[m].chunk \in 1 .. d[n].chunk
      BY <2>0, <2>2, <3>1, <3>5
    <3>7. ASSUME NEW k \in 1 .. d[n].chunk
          PROVE  Spent(p, In(d, n, k)) <= budget \/ \E m : In(d, n, k) = {m}
      <4>1. CASE k = c
        BY <3>1, <3>2, <3>3, <3>4, <4>1
      <4>2. CASE k # c
        <5>1. k \in 1 .. c /\ In(d, n, k) = In(d, n - 1, k)
          BY <2>0, <2>3, <3>1, <4>2
        <5> QED BY <2>1, <5>1 DEF DealtSoFar, c
      <4> QED BY <4>1, <4>2
    <3>8. DealtSoFar(d, p, budget, n)
      BY <3>1, <3>2, <3>3, <3>4, <3>6, <3>7 DEF DealtSoFar
    <3> QED BY <3>8
  <2> QED BY <2>4, <2>5
<1> HIDE DEF S
<1>3. \A n \in 0 .. N : n \in S
  BY <1>0, <1>1, <1>2, UpTo
<1>4. N \in S
  BY <1>0, <1>3
<1> QED BY <1>4 DEF S, N

\* The chunks g hold the records of t at the positions P, chunk i those at D[i],
\* and only a record that exceeds the budget by itself does so.
Cut(g, D, t, P, budget) ==
    /\ Parts(DOMAIN g, g, D, t, P)
    /\ budget > 0 => \A i \in DOMAIN g : Len(g[i]) > 1 => CostOf(g[i]) <= budget

LEMMA ChunkedCuts ==
    ASSUME NEW p, NEW t, NEW P, Lists(p, t, P), NEW budget \in Nat, budget > 0 => Priced(t, P),
           NEW g, g = Chunked(p, budget)
    PROVE  \E D : Cut(g, D, t, P, budget)
<1>1. CASE budget = 0
  <2>1. g = <<p>>
    BY <1>1 DEF Chunked
  <2> DEFINE D == [i \in {1} |-> P]
  <2>2. DOMAIN g = {1} /\ g[1] = p /\ D[1] = P
    BY <2>1
  <2> HIDE DEF D
  <2>3. Parts(DOMAIN g, g, D, t, P)
    BY <2>2 DEF Parts
  <2>4. Cut(g, D, t, P, budget)
    BY <1>1, <2>3 DEF Cut
  <2> QED BY <2>4
<1>2. CASE budget > 0
  <2> DEFINE N == Len(p)
             d == Dealt(p, budget)
             whole == [k \in 1 .. d[N].chunk |-> Kept(p, {n \in DOMAIN p : d[n].chunk = k})]
  <2>1. IsSeq(p) /\ N \in Nat /\ DOMAIN p = 1 .. N
    BY ListIs DEF Lists, Told
  <2>a. PICK e : Told(p, t, P, e)
    BY DEF Lists
  <2>2. e \in Bijection(DOMAIN p, P) /\ \A k \in DOMAIN p : p[k] = t[e[k]]
    BY <2>a DEF Told
  <2>3. /\ e \in [DOMAIN p -> P] /\ \A k, l \in DOMAIN p : e[k] = e[l] => k = l
        /\ \A x \in P : \E k \in DOMAIN p : e[k] = x
    BY <2>2, BijectionIs
  <2>4. Priced(p, DOMAIN p)
    BY <1>2, <2>2, <2>3 DEF Priced
  <2>5. DealtSoFar(d, p, budget, N)
    BY <2>1, <2>4, DealtDeals, DealsKeep
  <2>6. g = whole
    <3> DEFINE cut(x, y) == [k \in 1 .. y[Len(x)].chunk |-> Kept(x, {n \in DOMAIN x : y[n].chunk = k})]
    <3>0. budget # 0
      BY <1>2
    <3>1. Chunked(p, budget) = The({cut(x, Dealt(x, budget)) : x \in {p}})
      BY <3>0, Zenon DEF Chunked
    <3>2. cut(p, d) = whole
      OBVIOUS
    <3> HIDE DEF cut, whole
    <3>3. {cut(x, Dealt(x, budget)) : x \in {p}} = {cut(p, d)}
      OBVIOUS
    <3> QED BY <3>1, <3>2, <3>3, TheIs
  <2> HIDE DEF N, d
  <2>7. DOMAIN g = 1 .. d[N].chunk /\ \A k \in DOMAIN g : g[k] = Arranged(p, In(d, N, k), "")
    <3>1. \A k : {n \in DOMAIN p : d[n].chunk = k} = In(d, N, k)
      BY <2>1 DEF In
    <3> QED BY <2>6, <3>1 DEF Kept
  <2> HIDE DEF whole
  <2> DEFINE D == [k \in DOMAIN g |-> Image(e, In(d, N, k))]
  <2>8. ASSUME NEW k \in DOMAIN g
        PROVE  /\ In(d, N, k) \in SUBSET (DOMAIN p) /\ D[k] = Image(e, In(d, N, k))
               /\ D[k] \subseteq P /\ Lists(g[k], t, D[k]) /\ Lists(g[k], p, In(d, N, k))
    <3>1. In(d, N, k) \in SUBSET (DOMAIN p)
      BY <2>1 DEF In
    <3>2. D[k] = Image(e, In(d, N, k)) /\ D[k] \subseteq P
      BY <2>3, <3>1 DEF Image
    <3>3. Lists(Arranged(p, In(d, N, k), ""), t, Image(e, In(d, N, k)))
      BY <2>a, <3>1, PartLists
    <3>4. Lists(Arranged(p, In(d, N, k), ""), p, In(d, N, k))
      <4>1. IsFiniteSet(1 .. N) /\ In(d, N, k) \in SUBSET (1 .. N)
        BY <2>1, FS_Interval DEF In
      <4>2. IsFiniteSet(In(d, N, k)) /\ In(d, N, k) \subseteq Nat
        BY <2>1, <4>1, FS_Subset
      <4> QED BY <4>2, Arranges
    <3> QED BY <2>7, <3>1, <3>2, <3>3, <3>4
  <2>9. ASSUME NEW x \in P PROVE \E k \in DOMAIN g : x \in D[k]
    <3>1. PICK n \in DOMAIN p : e[n] = x
      BY <2>3
    <3>2. n \in 1 .. N /\ d[n].chunk \in DOMAIN g
      BY <2>1, <2>5, <2>7 DEF DealtSoFar
    <3>3. n \in In(d, N, d[n].chunk)
      BY <3>2 DEF In
    <3> QED BY <2>8, <3>1, <3>2, <3>3 DEF Image
  <2>10. ASSUME NEW k \in DOMAIN g, NEW l \in DOMAIN g, NEW x \in D[k] \cap D[l] PROVE k = l
    <3>1. PICK m \in In(d, N, k) : x = e[m]
      BY <2>8, <2>10 DEF Image
    <3>2. PICK n \in In(d, N, l) : x = e[n]
      BY <2>8, <2>10 DEF Image
    <3>3. m = n
      BY <2>3, <2>8, <3>1, <3>2
    <3> QED BY <3>1, <3>2, <3>3 DEF In
  <2>11. ASSUME NEW k \in DOMAIN g, Len(g[k]) > 1 PROVE CostOf(g[k]) <= budget
    <3> DEFINE M == In(d, N, k)
    <3>1. Lists(g[k], p, M) /\ M \in SUBSET (DOMAIN p)
      BY <2>8
    <3>2. Spent(p, M) <= budget \/ \E m : M = {m}
      BY <2>5, <2>7 DEF DealtSoFar
    <3> HIDE DEF M
    <3>3. CostOf(g[k]) = Spent(p, M)
      <4>1. Priced(p, M)
        BY <2>4, <3>1 DEF Priced
      <4> QED BY <3>1, <4>1, CostOfLists
    <3>4. ASSUME NEW m, M = {m} PROVE FALSE
      <4>1. PICK f \in Bijection(DOMAIN g[k], M) : TRUE
        BY <3>1 DEF Lists, Told
      <4>2. f \in [DOMAIN g[k] -> M] /\ \A i, j \in DOMAIN g[k] : f[i] = f[j] => i = j
        BY <4>1, BijectionIs
      <4>3. 1 \in DOMAIN g[k] /\ 2 \in DOMAIN g[k]
        <5>1. DOMAIN g[k] = 1 .. Len(g[k]) /\ Len(g[k]) \in Nat
          BY <3>1, ListIs DEF Lists, Told
        <5> QED BY <2>11, <5>1
      <4>4. f[1] = f[2]
        BY <3>4, <4>2, <4>3
      <4> QED BY <4>2, <4>3, <4>4
    <3> QED BY <3>2, <3>3, <3>4
  <2> HIDE DEF D
  <2>12. Parts(DOMAIN g, g, D, t, P)
    BY <2>8, <2>9, <2>10 DEF Parts
  <2>13. Cut(g, D, t, P, budget)
    BY <2>11, <2>12 DEF Cut
  <2> QED BY <2>13
<1> QED BY <1>1, <1>2

-----------------------------------------------------------------------------
(* The catalogs of a run.                                                  *)

\* The records as they are published, the positions of those that are, and of
\* those in one group.
Labelled(c, s) == [i \in DOMAIN s |-> Annotated(s[i], c.annotate)]
Wanted(c, s) == {i \in DOMAIN s : ~Excluded(s[i], c.exclude)}
InGroup(c, s, key) == {i \in Members(s, c.groupBy, key) : ~Excluded(s[i], c.exclude)}

LEMMA WantedFinite ==
    ASSUME NEW c, NEW s, IsSeq(s)
    PROVE  /\ IsFiniteSet(Wanted(c, s)) /\ Wanted(c, s) \subseteq Nat
           /\ \A key : /\ InGroup(c, s, key) \subseteq Wanted(c, s)
                       /\ IsFiniteSet(InGroup(c, s, key)) /\ InGroup(c, s, key) \subseteq Nat
<1>1. IsFiniteSet(DOMAIN s) /\ DOMAIN s \subseteq Nat
  <2>1. DOMAIN s = 1 .. Len(s) /\ Len(s) \in Nat
    BY ListIs
  <2> QED BY <2>1, FS_Interval
<1>2. \A key : InGroup(c, s, key) \subseteq Wanted(c, s)
  BY DEF InGroup, Wanted, Members
<1>3. Wanted(c, s) \in SUBSET (DOMAIN s)
  BY DEF Wanted
<1> QED BY <1>1, <1>2, <1>3, FS_Subset

LEMMA GroupCuts ==
    ASSUME NEW c, NEW s, IsSeq(s), c.budget \in Nat,
           c.budget > 0 => Priced(Labelled(c, s), Wanted(c, s)), NEW key
    PROVE  \E D : Cut(Chunks(c, s, key), D, Labelled(c, s), InGroup(c, s, key), c.budget)
<1> DEFINE p == Selected(c, s, Members(s, c.groupBy, key))
           t == Labelled(c, s)
           P == InGroup(c, s, key)
           g == Chunks(c, s, key)
           budget == c.budget
<1>1. p = Arranged(t, P, c.orderBy)
  BY DEF Selected, Labelled, InGroup
<1>2. IsFiniteSet(P) /\ P \subseteq Nat /\ P \subseteq Wanted(c, s)
  BY WantedFinite
<1>3. g = IF p = <<>> THEN <<>> ELSE Chunked(p, budget)
  BY Zenon DEF Chunks
<1>4. budget \in Nat /\ (budget > 0 => Priced(t, P))
  BY <1>2 DEF Priced
<1> HIDE DEF p, t, P, g, budget
<1>5. Lists(p, t, P)
  BY <1>1, <1>2, Arranges
<1>6. CASE p = <<>>
  <2>1. g = <<>>
    BY <1>3, <1>6, Zenon
  <2>2. P = {}
    <3>1. PICK e \in Bijection(DOMAIN p, P) : TRUE
      BY <1>5 DEF Lists, Told
    <3>2. \A x \in P : \E k \in DOMAIN p : e[k] = x
      BY <3>1, BijectionIs
    <3> QED BY <1>6, <3>2
  <2>3. DOMAIN g = {}
    BY <2>1
  <2>4. Parts(DOMAIN g, g, g, t, P)
    BY <2>2, <2>3 DEF Parts
  <2>5. Cut(g, g, t, P, budget)
    BY <2>3, <2>4 DEF Cut
  <2>6. \E D : Cut(g, D, t, P, budget)
    BY <2>5
  <2> QED BY <2>6 DEF t, P, g, budget
<1>7. CASE p # <<>>
  <2>1. g = Chunked(p, budget)
    BY <1>3, <1>7, Zenon
  <2>2. \E D : Cut(g, D, t, P, budget)
    BY <1>4, <1>5, <2>1, ChunkedCuts
  <2> QED BY <2>2 DEF t, P, g, budget
<1> QED BY <1>6, <1>7

\* The groups of which something is left to publish.
Published(c, s) == {key \in Keys(s, c.groupBy) : Chunks(c, s, key) # <<>>}

\* The chunk catalog b was rendered from.
ChunkOf(c, b) == IF c.indexed THEN b.slug[2] ELSE 1

\* The catalogs B are the chunks of the groups that are published.
Renders(c, s, B) ==
    /\ \A b \in B : /\ b.slug[1] \in Published(c, s)
                    /\ ChunkOf(c, b) \in DOMAIN Chunks(c, s, b.slug[1])
                    /\ b.content = Ordered(Chunks(c, s, b.slug[1])[ChunkOf(c, b)], c.renderBy)
    /\ \A k \in Published(c, s) : \A i \in DOMAIN Chunks(c, s, k) :
          \E b \in B : b.slug[1] = k /\ ChunkOf(c, b) = i
    /\ \A a, b \in B : a.slug[1] = b.slug[1] /\ ChunkOf(c, a) = ChunkOf(c, b) => a = b

LEMMA BuiltRenders ==
    ASSUME NEW c, NEW s, BuiltCatalogs(c, s).ok
    PROVE  Costed(c, s) /\ Renders(c, s, BuiltCatalogs(c, s).out)
<1> DEFINE groups == [key \in Keys(s, c.groupBy) |-> Chunks(c, s, key)]
           published == {key \in DOMAIN groups : groups[key] # <<>>}
           split == {key \in published : DOMAIN groups[key] # {1}}
           good == /\ \A i \in DOMAIN s : c.groupBy \in DOMAIN s[i]
                   /\ Costed(c, s)
                   /\ \A key \in split : c.indexed /\ ~Holds(c.refuseSplit, groups[key][1][1])
                   /\ \A k, l \in published : c.folded[k] = c.folded[l] => k = l
           all == UNION {Rendered(c, k, groups[k]) : k \in published}
<1>1. BuiltCatalogs(c, s) = IF good THEN [ok |-> TRUE, out |-> all] ELSE Err
  BY DEF BuiltCatalogs
<1>2. ~Err.ok
  BY DEF Err
<1>3. good /\ BuiltCatalogs(c, s).out = all
  BY <1>1, <1>2
<1>4. Costed(c, s) /\ \A key \in published : c.indexed \/ DOMAIN groups[key] = {1}
  BY <1>3
<1>5. /\ \A k \in published : groups[k] = Chunks(c, s, k)
      /\ published = Published(c, s)
  <2>1. \A k \in DOMAIN groups : groups[k] = Chunks(c, s, k)
    OBVIOUS
  <2>2. DOMAIN groups = Keys(s, c.groupBy)
    OBVIOUS
  <2> HIDE DEF groups
  <2> QED BY <2>1, <2>2 DEF Published
<1> HIDE DEF groups, published, split, good, all
<1>6. ASSUME NEW k \in published, NEW i \in DOMAIN groups[k],
             NEW b, b = [slug |-> <<k, IF c.indexed THEN i ELSE 0>>, content |-> Ordered(groups[k][i], c.renderBy)]
      PROVE  b.slug[1] = k /\ ChunkOf(c, b) = i /\ b.content = Ordered(groups[k][i], c.renderBy)
  BY <1>4, <1>6 DEF ChunkOf
<1>7. ASSUME NEW b \in all
      PROVE  \E k \in published : \E i \in DOMAIN groups[k] :
                b = [slug |-> <<k, IF c.indexed THEN i ELSE 0>>, content |-> Ordered(groups[k][i], c.renderBy)]
  <2>1. PICK k \in published : b \in Rendered(c, k, groups[k])
    BY DEF all
  <2> QED BY <2>1 DEF Rendered
<1>8. ASSUME NEW b \in all
      PROVE  /\ b.slug[1] \in published /\ ChunkOf(c, b) \in DOMAIN groups[b.slug[1]]
             /\ b.content = Ordered(groups[b.slug[1]][ChunkOf(c, b)], c.renderBy)
             /\ b = [slug |-> <<b.slug[1], IF c.indexed THEN ChunkOf(c, b) ELSE 0>>,
                     content |-> Ordered(groups[b.slug[1]][ChunkOf(c, b)], c.renderBy)]
  <2>1. PICK k \in published : \E i \in DOMAIN groups[k] :
            b = [slug |-> <<k, IF c.indexed THEN i ELSE 0>>, content |-> Ordered(groups[k][i], c.renderBy)]
    BY <1>7
  <2>2. PICK i \in DOMAIN groups[k] :
            b = [slug |-> <<k, IF c.indexed THEN i ELSE 0>>, content |-> Ordered(groups[k][i], c.renderBy)]
    BY <2>1
  <2>3. b.slug[1] = k /\ ChunkOf(c, b) = i /\ b.content = Ordered(groups[k][i], c.renderBy)
    BY <1>6, <2>2
  <2> QED BY <2>2, <2>3
<1>9. ASSUME NEW k \in published, NEW i \in DOMAIN groups[k]
      PROVE  \E b \in all : b.slug[1] = k /\ ChunkOf(c, b) = i
  <2> DEFINE b == [slug |-> <<k, IF c.indexed THEN i ELSE 0>>, content |-> Ordered(groups[k][i], c.renderBy)]
  <2>1. b \in Rendered(c, k, groups[k])
    BY DEF Rendered
  <2>2. b \in all
    BY <2>1 DEF all
  <2>3. b.slug[1] = k /\ ChunkOf(c, b) = i
    BY <1>6
  <2> QED BY <2>2, <2>3
<1>10. ASSUME NEW a \in all, NEW b \in all, a.slug[1] = b.slug[1], ChunkOf(c, a) = ChunkOf(c, b)
       PROVE  a = b
  BY <1>8, <1>10
<1>11. Renders(c, s, all)
  BY <1>5, <1>8, <1>9, <1>10 DEF Renders
<1> QED BY <1>3, <1>4, <1>11

\* The catalogs hold every record that is wanted in one place, and a catalog of
\* more than one record keeps within the budget.
Covers(c, s, B, D) ==
    /\ Parts(B, [b \in B |-> b.content], D, Labelled(c, s), Wanted(c, s))
    /\ c.budget > 0 => \A b \in B : Len(b.content) > 1 => CostOf(b.content) <= c.budget

LEMMA BuiltCovers ==
    ASSUME NEW c, NEW s, IsSeq(s), c.budget \in Nat, BuiltCatalogs(c, s).ok
    PROVE  \E D : Covers(c, s, BuiltCatalogs(c, s).out, D)
<1> DEFINE B == BuiltCatalogs(c, s).out
           t == Labelled(c, s)
           K == Wanted(c, s)
           DD == [k \in Published(c, s) |->
                     CHOOSE D : Cut(Chunks(c, s, k), D, t, InGroup(c, s, k), c.budget)]
           D == [b \in B |-> DD[b.slug[1]][ChunkOf(c, b)]]
           L == [b \in B |-> b.content]
<1>1. Costed(c, s) /\ Renders(c, s, B)
  BY BuiltRenders
<1>2. c.budget > 0 => Priced(t, K)
  BY <1>1 DEF Costed, Priced, Labelled, Wanted
<1>3. ASSUME NEW k \in Published(c, s)
      PROVE  Cut(Chunks(c, s, k), DD[k], t, InGroup(c, s, k), c.budget)
  <2>1. \E x : Cut(Chunks(c, s, k), x, t, InGroup(c, s, k), c.budget)
    BY <1>2, GroupCuts
  <2> HIDE DEF t
  <2>2. DD[k] = CHOOSE x : Cut(Chunks(c, s, k), x, t, InGroup(c, s, k), c.budget)
    OBVIOUS
  <2> QED BY <2>1, <2>2
<1> HIDE DEF B, DD
<1>4. /\ \A b \in B : L[b] = b.content /\ D[b] = DD[b.slug[1]][ChunkOf(c, b)]
  OBVIOUS
<1> HIDE DEF t, K, D
<1>5. ASSUME NEW b \in B
      PROVE  /\ Lists(b.content, t, D[b]) /\ D[b] \subseteq InGroup(c, s, b.slug[1]) /\ D[b] \subseteq K
             /\ c.budget > 0 /\ Len(b.content) > 1 => CostOf(b.content) <= c.budget
  <2> DEFINE k == b.slug[1]
             i == ChunkOf(c, b)
             g == Chunks(c, s, k)
  <2>1. k \in Published(c, s) /\ i \in DOMAIN g /\ b.content = Ordered(g[i], c.renderBy)
    BY <1>1 DEF Renders
  <2>2. Cut(g, DD[k], t, InGroup(c, s, k), c.budget) /\ D[b] = DD[k][i]
    BY <1>3, <1>4, <2>1
  <2>3. InGroup(c, s, k) \subseteq K
    BY WantedFinite DEF K
  <2> HIDE DEF k, i, g
  <2>4. Lists(g[i], t, D[b]) /\ D[b] \subseteq InGroup(c, s, k) /\ D[b] \subseteq K
    BY <2>1, <2>2, <2>3 DEF Cut, Parts
  <2>5. Lists(b.content, t, D[b])
    BY <2>1, <2>4, OrderedLists
  <2>6. ASSUME c.budget > 0, Len(b.content) > 1 PROVE CostOf(b.content) <= c.budget
    <3>1. Priced(t, D[b])
      BY <1>2, <2>4, <2>6 DEF Priced
    <3>2. CostOf(b.content) = CostOf(g[i])
      BY <2>4, <2>5, <3>1, CostOfLists
    <3>3. Len(b.content) = Len(g[i])
      BY <2>4, <2>5, ListsLen
    <3> QED BY <2>1, <2>2, <2>6, <3>2, <3>3 DEF Cut
  <2> QED BY <2>4, <2>5, <2>6 DEF k
<1>6. ASSUME NEW x \in K PROVE \E b \in B : x \in D[b]
  <2> DEFINE k == Render(s[x], c.groupBy)
             g == Chunks(c, s, k)
  <2>1. k \in Keys(s, c.groupBy) /\ x \in InGroup(c, s, k)
    BY DEF K, Keys, Wanted, InGroup, Members
  <2>2. \E y : Cut(g, y, t, InGroup(c, s, k), c.budget)
    BY <1>2, GroupCuts DEF t, K
  <2>3. k \in Published(c, s)
    <3>1. PICK y : Cut(g, y, t, InGroup(c, s, k), c.budget)
      BY <2>2
    <3>2. DOMAIN g # {}
      BY <2>1, <3>1 DEF Cut, Parts
    <3>3. g # <<>>
      BY <3>2
    <3> HIDE DEF k
    <3> QED BY <2>1, <3>3, Zenon DEF Published
  <2>4. PICK i \in DOMAIN g : x \in DD[k][i]
    BY <1>3, <2>1, <2>3 DEF Cut, Parts
  <2>5. PICK b \in B : b.slug[1] = k /\ ChunkOf(c, b) = i
    BY <1>1, <2>3 DEF Renders
  <2> QED BY <1>4, <2>4, <2>5
<1>7. ASSUME NEW a \in B, NEW b \in B, NEW x \in D[a] \cap D[b] PROVE a = b
  <2>1. a.slug[1] = b.slug[1]
    BY <1>5 DEF InGroup, Members
  <2>2. ChunkOf(c, a) = ChunkOf(c, b)
    <3> DEFINE k == b.slug[1]
    <3>1. k \in Published(c, s) /\ {ChunkOf(c, a), ChunkOf(c, b)} \subseteq DOMAIN Chunks(c, s, k)
      BY <1>1, <2>1 DEF Renders
    <3>2. \A i, j \in DOMAIN Chunks(c, s, k) : i # j => DD[k][i] \cap DD[k][j] = {}
      BY <1>3, <3>1 DEF Cut, Parts
    <3>3. x \in DD[k][ChunkOf(c, a)] /\ x \in DD[k][ChunkOf(c, b)]
      BY <1>4, <2>1
    <3> QED BY <3>1, <3>2, <3>3
  <2> QED BY <1>1, <2>1, <2>2 DEF Renders
<1> HIDE DEF L
<1>8. Parts(B, L, D, t, K)
  BY <1>4, <1>5, <1>6, <1>7 DEF Parts
<1>9. Covers(c, s, B, D)
  BY <1>5, <1>8 DEF Covers, t, K, L
<1>10. \E x : Covers(c, s, B, x)
  BY <1>9
<1> QED BY <1>10 DEF B

\* Past buildCatalogs, before anything of the run before it is removed.
BuiltInv ==
    pc = "clean" =>
        /\ BuiltCatalogs(spec.catalog, last.out).ok
        /\ built = BuiltCatalogs(spec.catalog, last.out).out

LEMMA BuiltInvStep == BuiltInv /\ [Next]_vars => BuiltInv'
<1> SUFFICES ASSUME BuiltInv, [Next]_vars, pc' = "clean" PROVE BuiltInv'
  BY DEF BuiltInv
<1>0. ASSUME pc = "clean", UNCHANGED <<file, last, built>> PROVE BuiltInv'
  BY <1>0 DEF BuiltInv, spec
<1>1. CASE Start
  BY <1>1 DEF Start, Load, EndRun
<1>2. CASE ResolveInputs \/ Prepare
  BY <1>2 DEF ResolveInputs, Prepare, EndRun
<1>3. CASE Step
  BY <1>3 DEF Step, Skip, Produce, EndRun
<1>4. CASE Call \/ Reauth
  <2>1. ASSUME NEW class, Failed(class) PROVE pc' \in {"call", "failed"}
    BY <2>1 DEF Failed, EndRun
  <2> QED BY <1>4, <2>1 DEF Call, Reauth, Answered, CallFails, Classified, Rejected, EndRun
<1>5. CASE Gather
  BY <1>5 DEF Gather, Produce, EndRun
<1>6. CASE Build
  <2>1. UNCHANGED <<file, last>>
    BY <1>6 DEF Build, runVars
  <2>2. /\ BuiltCatalogs(spec.catalog, last.out).ok
        /\ built' = BuiltCatalogs(spec.catalog, last.out).out
    BY <1>6 DEF Build, EndRun
  <2> QED BY <2>1, <2>2 DEF BuiltInv, spec
<1>7. CASE RemoveStaleCatalogs \/ Write \/ Publish \/ PublishFile \/ Retire
  BY <1>7 DEF RemoveStaleCatalogs, Write, Publish, PublishFile, Retire, EndRun
<1>8. CASE ContextEnds \/ Crash
  BY <1>0, <1>8 DEF ContextEnds, Crash, runVars, outVars
<1>9. CASE UNCHANGED vars
  BY <1>0, <1>9 DEF vars, runVars, outVars
<1> QED BY <1>1, <1>2, <1>3, <1>4, <1>5, <1>6, <1>7, <1>8, <1>9 DEF Next, Work

\* When the old files are about to be removed, what is to be published is what
\* buildCatalogs makes of the output of the last step, and it made no error.
THEOREM RunHasBuilt == Spec => []BuiltInv
<1>1. Init => BuiltInv
  BY DEF Init, BuiltInv
<1> QED BY <1>1, BuiltInvStep, PTL DEF Spec

\* catalogGroup, catalogSelect, sortRecords and catalogChunk neither lose nor
\* repeat a record, whatever the records, the groups, the order and the budget;
\* only a record that exceeds the budget by itself has a catalog that does.
THEOREM RunKeepsRecords == Spec => []EveryRecordOnce
<1>1. ASSUME LossInv, BuiltInv PROVE EveryRecordOnce
  <2> SUFFICES ASSUME pc = "clean" PROVE EveryRecordOnce
    BY DEF EveryRecordOnce
  <2> DEFINE c == spec.catalog
             s == last.out
             t == Labelled(c, s)
             K == Wanted(c, s)
             all == Selected(c, s, DOMAIN s)
             places == UNION {{b} \X DOMAIN b.content : b \in built}
             L == [b \in built |-> b.content]
  <2>1. IsSeq(s) /\ c.budget \in Nat
    <3>1. Running /\ Loaded /\ IsSeq(last.out)
      BY <1>1 DEF LossInv, Listed, Running
    <3>2. file \in Files
      BY <3>1 DEF Loaded
    <3> QED BY <3>1, <3>2, FilesAssumption DEF spec
  <2>2. BuiltCatalogs(c, s).ok /\ built = BuiltCatalogs(c, s).out
    BY <1>1 DEF BuiltInv
  <2> HIDE DEF c, s
  <2>3. PICK D : Covers(c, s, built, D)
    BY <2>1, <2>2, BuiltCovers
  <2>4. Parts(built, L, D, t, K)
    BY <2>3 DEF Covers
  <2>5. IsFiniteSet(K) /\ K \subseteq Nat
    BY <2>1, WantedFinite
  <2>6. Lists(all, t, K)
    <3>1. all = Arranged(t, K, c.orderBy)
      BY DEF Selected, Labelled, Wanted
    <3> HIDE DEF t, K, all
    <3> QED BY <2>5, <3>1, Arranges
  <2>7. places = UNION {{b} \X DOMAIN L[b] : b \in built}
    <3>1. \A b \in built : L[b] = b.content
      OBVIOUS
    <3> HIDE DEF L
    <3> QED BY <3>1
  <2>8. \A p \in places : L[p[1]] = p[1].content
    OBVIOUS
  <2> HIDE DEF t, K, all, places, L
  <2>9. HoldAll(places, L, all)
    BY <2>4, <2>5, <2>6, <2>7, PartsHold
  <2>10. \A p \in places : p[1].content[p[2]] \in ToSet(all)
    BY <2>8, <2>9 DEF HoldAll
  <2>11. ASSUME NEW r
         PROVE  Cardinality({p \in places : p[1].content[p[2]] = r})
                    = Cardinality({j \in DOMAIN all : all[j] = r})
    <3>1. {p \in places : p[1].content[p[2]] = r} = {p \in places : L[p[1]][p[2]] = r}
      BY <2>8
    <3> QED BY <2>9, <3>1 DEF HoldAll
  <2>12. \A b \in built : c.budget > 0 /\ Len(b.content) > 1 => CostOf(b.content) <= c.budget
    BY <2>3 DEF Covers
  <2> QED BY <2>10, <2>11, <2>12 DEF EveryRecordOnce, c, s, all, places
<1>2. LossInv /\ BuiltInv => EveryRecordOnce
  BY <1>1
<1> QED BY <1>2, RunCountsItsLosses, RunHasBuilt, PTL
=============================================================================
