----------------------------- MODULE PipelineRun -----------------------------
(***************************************************************************)
(* The runs of one publish pipeline in one process, from loading its file   *)
(* to the retirement of the catalog it replaces.  What decides whether a    *)
(* run starts (the schedule and the run log) is PublishSweep; here a run    *)
(* may start whenever none is under way.                                    *)
(*                                                                         *)
(* A run carries the output of its steps, the counter its safety rule       *)
(* looks at and the token of its upstream; between runs stay the last good  *)
(* copy of the file, the catalog files of a configured output directory,    *)
(* and what the network has been sent.                                      *)
(***************************************************************************)
EXTENDS PipelineSteps

CONSTANTS Files,        \* pipeline files the host may serve
          Text,         \* Text[f]: what file f says
          Answer,       \* Answer[i]: the rows the upstream has for item i
          NoFile, NoItem,
          KeepDir,      \* an output directory is configured
          MaxReauths,   \* maxReauthsPerRun
          MaxRuns,      \* bound: runs
          MaxFaults,    \* bound: upstream calls that fail
          MaxLosses     \* bound: catalogs that are refused, crashes, stops

ASSUME PipelineRunAssumption ==
    /\ KeepDir \in BOOLEAN
    /\ {MaxReauths, MaxRuns, MaxFaults, MaxLosses} \subseteq Nat
    /\ NoFile \notin Files

IsSeq(s) == s \in Seq(ToSet(s))

\* What files consist of.
ASSUME FilesAssumption ==
    \A f \in Files :
        /\ IsSeq(Text[f].steps) /\ {Text[f].limit, Text[f].catalog.budget} \subseteq Nat
        /\ \A k \in DOMAIN Text[f].steps :
              IsSeq(Text[f].steps[k].records) /\ IsSeq(Text[f].steps[k].of)

\* An item's rows show whose they are, or nobody could tell that they are missing.
ASSUME AnswerAssumption ==
    \A i \in DOMAIN Answer :
        /\ IsSeq(Answer[i])
        /\ i # NoItem /\ Answer[i] # <<>> =>
              \E j \in DOMAIN Answer[i] : Render(Answer[i][j], "item") = i

\* The upstream has no rows for an item it has never heard of.
Rows(i) == IF i \in DOMAIN Answer THEN Answer[i] ELSE <<>>

VARIABLES pc,        \* where the run is
          file,      \* the file it runs
          at,        \* the step it is at
          todo,      \* the items its forEach has left
          gathered,  \* what the items done have given
          outputs,   \* the named outputs
          last,      \* lastOutput
          counted,   \* the counter publish.refuseWhen names
          token,     \* whether the upstream still takes the run's token
          reauths,   \* re-exchanges so far
          built,     \* the catalogs built
          queue,     \* catalog files still to write, then to publish
          sent,      \* history: catalogs of this run that were published
          clean,     \* every outcome so far is "published"
          old,       \* the catalog to retire
          dir,       \* the catalog files in the output directory
          lastGood,  \* the last copy of the file that loaded
          ended,     \* the run's context has ended
          runs, faults, losses

runVars == <<file, at, todo, gathered, outputs, last, counted, token, reauths>>
outVars == <<built, queue, sent, clean, old, dir>>
vars == <<pc, runVars, outVars, lastGood, ended, runs, faults, losses>>

\* The loaded pipeline.
spec == Text[file]

\* A collection that no step has produced yet.
Nil == [ok |-> FALSE, out |-> <<>>]

Init ==
    /\ pc = "idle" /\ file = NoFile /\ at = 0
    /\ todo = <<>> /\ gathered = <<>> /\ outputs = <<>> /\ last = Nil
    /\ counted = 0 /\ token = FALSE /\ reauths = 0
    /\ built = {} /\ queue = {} /\ sent = {} /\ clean = TRUE
    /\ old = "active" /\ dir = {} /\ lastGood = NoFile
    /\ ended = FALSE /\ runs = 0 /\ faults = 0 /\ losses = 0

\* pipelineDir's cleanup: a temporary directory goes with its run.
EndRun(result) == pc' = result /\ dir' = IF KeepDir THEN dir ELSE {}

-----------------------------------------------------------------------------
(* Loading the file and preparing credentials.                             *)

\* The schema of its contract accepts the file.
Valid(f) == Text[f].valid

\* loadPipeline: the host's copy, or the last good one when it cannot be
\* fetched.  Only a copy that validates is run and remembered.
Load(served, new) ==
    \/ /\ served /\ Valid(new)
       /\ file' = new /\ lastGood' = new /\ pc' = "inputs"
       /\ UNCHANGED dir
    \/ /\ served /\ ~Valid(new)
       /\ EndRun("failed")
       /\ UNCHANGED <<file, lastGood>>
    \/ /\ ~served /\ lastGood # NoFile
       /\ file' = lastGood /\ pc' = "inputs"
       /\ UNCHANGED <<lastGood, dir>>
    \/ /\ ~served /\ lastGood = NoFile
       /\ EndRun("failed")
       /\ UNCHANGED <<file, lastGood>>

\* A run starts afresh, whatever the one before it left.
Start ==
    /\ pc \in {"idle", "ok", "failed"} /\ ~ended /\ runs < MaxRuns
    /\ runs' = runs + 1
    /\ \E served \in BOOLEAN, new \in Files : Load(served, new)
    /\ at' = 1 /\ todo' = <<>> /\ gathered' = <<>> /\ outputs' = <<>> /\ last' = Nil
    /\ counted' = 0 /\ token' = FALSE /\ reauths' = 0
    /\ built' = {} /\ queue' = {} /\ sent' = {} /\ clean' = TRUE
    /\ UNCHANGED <<old, ended, faults, losses>>

\* resolveRunInputs: an input may be missing, or not be what its type says.
ResolveInputs ==
    /\ pc = "inputs"
    /\ \/ pc' = "auth" /\ UNCHANGED <<dir, faults>>
       \/ faults < MaxFaults /\ faults' = faults + 1 /\ EndRun("failed")
    /\ UNCHANGED <<runVars, built, queue, sent, clean, old, lastGood, ended, runs, losses>>

\* With an upstream, the authenticator prepares a credential, which may take an
\* exchange; without one there is nothing to prepare.
Prepare ==
    /\ pc = "auth"
    /\ \/ pc' = "step" /\ token' = spec.upstream /\ UNCHANGED <<dir, faults>>
       \/ /\ spec.upstream /\ (ended \/ faults < MaxFaults)
          /\ EndRun("failed")
          /\ faults' = IF ended THEN faults ELSE faults + 1
          /\ UNCHANGED token
    /\ UNCHANGED <<file, at, todo, gathered, outputs, last, counted, reauths, built,
                   queue, sent, clean, old, lastGood, ended, runs, losses>>

-----------------------------------------------------------------------------
(* The steps.                                                              *)

step == spec.steps[at]

\* collection: a named output.
Named(n) == IF n \in DOMAIN outputs THEN Ok(outputs[n]) ELSE Err

\* currentCollection: the named collection, or what the step before produced.
Input == IF step.left # "" THEN Named(step.left) ELSE last

\* primitive, of the steps that call no upstream.
Primitive ==
    LET in == IF step.uses \in {"const", "concat"} THEN Ok(<<>>) ELSE Input
        right == Named(step.right)
        parts == [i \in DOMAIN step.of |-> Named(step.of[i])]
    IN  IF ~in.ok THEN Err
        ELSE CASE step.uses = "const" -> Ok(step.records)
               [] step.uses = "concat" ->
                    IF \A i \in DOMAIN parts : parts[i].ok
                    THEN Concat([i \in DOMAIN parts |-> parts[i].out]) ELSE Err
               [] step.uses = "join" ->
                    IF right.ok THEN Join(in.out, right.out, step.on, step.carry) ELSE Err
               [] step.uses = "derive" -> Derive(in.out, step.on, step.rules, step.then)
               [] step.uses = "dedupe" -> Dedupe(in.out, step.on)
               [] step.uses = "filter" -> Filter(in.out, step.test)
               [] step.uses = "transform" -> in
               [] OTHER -> Err

\* The end of a step: what it produced is bound to its name and flows on.
Produce(r) ==
    \/ /\ r.ok
       /\ outputs' = [n \in DOMAIN outputs \cup ({step.out} \ {""}) |->
                         IF n = step.out THEN r.out ELSE outputs[n]]
       /\ last' = Ok(r.out)
       /\ at' = at + 1
       /\ pc' = "step"
       /\ UNCHANGED dir
    \/ /\ ~r.ok
       /\ EndRun("failed")
       /\ UNCHANGED <<outputs, last, at>>

\* failWhenEmpty: of a step that ran, an empty collection may be a failure.
Checked(r) == IF step.failWhenEmpty /\ r.out = <<>> THEN Err ELSE r

\* A step whose `when:' does not hold: its `else:' is its output; without one the
\* collection flows past it, bound to no name.
Skip ==
    \/ step.alt # "" /\ Produce(Named(step.alt))
    \/ /\ step.alt = ""
       /\ at' = at + 1
       /\ UNCHANGED <<outputs, last, pc, dir>>

Upstream == step.uses \in {"get", "post"}

\* runSteps, one step: the context is looked at first.
Step ==
    /\ pc = "step" /\ at <= Len(spec.steps)
    /\ \/ /\ ended
          /\ EndRun("failed")
          /\ UNCHANGED <<at, outputs, last, todo>>
       \/ /\ ~ended /\ ~step.when
          /\ Skip
          /\ UNCHANGED todo
       \/ /\ ~ended /\ step.when /\ ~Upstream
          /\ \E r \in {Checked(Primitive)} : Produce(r)
          /\ UNCHANGED todo
       \/ /\ ~ended /\ step.when /\ Upstream /\ (~spec.upstream \/ (step.each # "" /\ ~Named(step.each).ok))
          /\ EndRun("failed")
          /\ UNCHANGED <<at, outputs, last, todo>>
       \/ /\ ~ended /\ step.when /\ Upstream /\ spec.upstream
          /\ step.each # "" => Named(step.each).ok
          /\ todo' = IF step.each = "" THEN <<NoItem>>
                     ELSE [i \in DOMAIN Named(step.each).out |->
                              Render(Named(step.each).out[i], "item")]
          /\ pc' = "call"
          /\ UNCHANGED <<at, outputs, last, dir>>
    /\ gathered' = <<>>
    /\ UNCHANGED <<file, counted, token, reauths, built, queue, sent, clean, old,
                   lastGood, ended, runs, faults, losses>>

\* Mutant: a failure the file tolerates is forgotten.
Failed_Uncounted(class) ==
    \/ /\ step.each # "" /\ class \in step.tolerate /\ ~ended
       /\ todo' = Tail(todo)
       /\ pc' = "call"
       /\ UNCHANGED <<counted, dir>>
    \/ /\ step.each = "" \/ class \notin step.tolerate \/ ended
       /\ EndRun("failed")
       /\ UNCHANGED <<todo, counted>>

\* dispatch, an item's call failed: in a loop, onError may record it and go on;
\* a cancelled context is no failure of an item.
Failed(class) ==
    \/ /\ step.each # "" /\ class \in step.tolerate /\ ~ended
       /\ todo' = Tail(todo)
       /\ counted' = IF class \in spec.counts THEN counted + 1 ELSE counted
       /\ pc' = "call"
       /\ UNCHANGED dir
    \/ /\ step.each = "" \/ class \notin step.tolerate \/ ended
       /\ EndRun("failed")
       /\ UNCHANGED <<todo, counted>>

\* Mutant: the budget of re-exchanges is not looked at, nor that the call is
\* the repeated one.
Rejected_Forever ==
    /\ reauths' = MaxReauths
    /\ pc' = "reauth"
    /\ UNCHANGED <<todo, counted, dir>>

\* withReauth: a rejected token is exchanged again and the call repeated once.
Rejected ==
    \/ /\ pc = "call" /\ reauths < MaxReauths
       /\ reauths' = reauths + 1
       /\ pc' = "reauth"
       /\ UNCHANGED <<todo, counted, dir>>
    \/ /\ pc = "again" \/ reauths = MaxReauths
       /\ Failed("reauth")
       /\ UNCHANGED reauths

Reauth ==
    /\ pc = "reauth"
    /\ \/ /\ ~ended
          /\ token' = TRUE /\ pc' = "again"
          /\ UNCHANGED <<todo, counted, dir, faults>>
       \/ /\ ended \/ faults < MaxFaults
          /\ faults' = IF ended THEN faults ELSE faults + 1
          /\ Failed("transport")
          /\ UNCHANGED token
    /\ UNCHANGED <<file, at, gathered, outputs, last, reauths, built, queue, sent,
                   clean, old, lastGood, ended, runs, losses>>

\* The answer is mapped to the item's rows, of which there may be none; in a loop
\* onEmptyOutput may record that.
Answered ==
    /\ token
    /\ gathered' = gathered \o Rows(Head(todo))
    /\ todo' = Tail(todo)
    /\ pc' = "call"
    /\ counted' = IF step.each # "" /\ Rows(Head(todo)) = <<>> /\ "none" \in spec.counts
                  THEN counted + 1 ELSE counted
    /\ UNCHANGED <<reauths, token, faults, dir>>

\* No answer, or one that is not a list or cannot be mapped.
CallFails ==
    /\ faults < MaxFaults
    /\ faults' = faults + 1
    /\ Failed("transport")
    /\ UNCHANGED <<gathered, reauths, token>>

\* classify: by the rules of the file a response means that there is no data,
\* or that the token is not taken any more.
Classified ==
    \/ /\ token /\ Rows(Head(todo)) = <<>>
       /\ Failed("empty")
       /\ UNCHANGED <<gathered, reauths, token, faults>>
    \/ /\ token' = FALSE
       /\ Rejected
       /\ UNCHANGED <<gathered, faults>>

\* One call to the upstream; nothing is sent once the context has ended.
Call ==
    /\ pc \in {"call", "again"} /\ todo # <<>>
    /\ \/ ~ended /\ (Answered \/ CallFails \/ Classified)
       \/ /\ ended
          /\ EndRun("failed")
          /\ UNCHANGED <<gathered, todo, counted, reauths, token, faults>>
    /\ UNCHANGED <<file, at, outputs, last, built, queue, sent, clean, old,
                   lastGood, ended, runs, losses>>

\* The last item is done.
Gather ==
    /\ pc = "call" /\ todo = <<>>
    /\ Produce(Checked(Ok(gathered)))
    /\ gathered' = <<>>
    /\ UNCHANGED <<file, todo, counted, token, reauths, built, queue, sent, clean, old,
                   lastGood, ended, runs, faults, losses>>

-----------------------------------------------------------------------------
(* Building, writing and publishing.                                       *)

\* buildCatalogs, and the look at the context after it; a rendering may fail.
Build ==
    /\ pc = "step" /\ at > Len(spec.steps)
    /\ \E c \in {BuiltCatalogs(spec.catalog, last.out)} :
           \/ /\ c.ok /\ ~ended
              /\ built' = c.out /\ queue' = c.out /\ pc' = "clean"
              /\ UNCHANGED <<dir, faults>>
           \/ /\ ~c.ok \/ ended \/ faults < MaxFaults
              /\ EndRun("failed")
              /\ faults' = IF c.ok /\ ~ended THEN faults + 1 ELSE faults
              /\ UNCHANGED <<built, queue>>
    /\ UNCHANGED <<runVars, sent, clean, old, lastGood, ended, runs, losses>>

\* Mutant: the files of the run before are left in the directory.
RemoveStaleCatalogs_Keeps ==
    /\ pc = "clean"
    /\ pc' = "write"
    /\ UNCHANGED <<runVars, outVars, lastGood, ended, runs, faults, losses>>

RemoveStaleCatalogs ==
    /\ pc = "clean"
    /\ dir' = {} /\ pc' = "write"
    /\ UNCHANGED <<runVars, built, queue, sent, clean, old, lastGood, ended, runs,
                   faults, losses>>

\* The files are taken in a fixed order.
Pick == CHOOSE c \in queue : TRUE

\* WriteCatalogs, one file; a failed write ends the run with the files so far.
Write ==
    /\ pc = "write" /\ queue # {}
    /\ \/ /\ dir' = {f \in dir : f.slug # Pick.slug} \cup {Pick}
          /\ queue' = queue \ {Pick}
          /\ UNCHANGED <<pc, faults>>
       \/ /\ faults < MaxFaults
          /\ faults' = faults + 1
          /\ EndRun("failed")
          /\ UNCHANGED queue
    /\ UNCHANGED <<runVars, built, sent, clean, old, lastGood, ended, runs, losses>>

\* publish.refuseWhen.
Refused == spec.counts # {} /\ counted > spec.limit

\* PublishCatalogs, up to the first post: the safety rule, then the files there
\* are; none at all is an error unless there is something to retire.
Publish ==
    /\ pc = "write" /\ queue = {}
    /\ \/ /\ ~Refused /\ (dir # {} \/ spec.retire)
          /\ pc' = "publish"
          /\ queue' = dir
          /\ UNCHANGED dir
       \/ /\ Refused \/ (dir = {} /\ ~spec.retire)
          /\ EndRun("failed")
          /\ UNCHANGED queue
    /\ UNCHANGED <<runVars, built, sent, clean, old, lastGood, ended, runs, faults,
                   losses>>

\* The sink does not take a post, or cannot be reached.
PostFails ==
    /\ ended \/ losses < MaxLosses
    /\ losses' = IF ended THEN losses ELSE losses + 1

\* publishFile: whatever becomes of one catalog, the next one is tried.
PublishFile ==
    /\ pc = "publish" /\ queue # {}
    /\ \/ /\ ~ended
          /\ sent' = sent \cup {Pick}
          /\ UNCHANGED <<clean, losses>>
       \/ /\ PostFails
          /\ clean' = FALSE
          /\ UNCHANGED sent
    /\ queue' = queue \ {Pick}
    /\ UNCHANGED <<pc, runVars, built, old, dir, lastGood, ended, runs, faults>>

\* Mutant: the old catalog is retired when anything at all was published.
AllPublished_Any == sent # {}

\* allPublished.
AllPublished == clean /\ sent # {}

\* The retirement, when the file asks for one and its replacements are all there;
\* then the run is judged by its outcomes (HasFailures).
Retire ==
    /\ pc = "publish" /\ queue = {}
    /\ \/ /\ spec.retire /\ AllPublished /\ ~ended
          /\ old' = "retired"
          /\ EndRun("ok")
          /\ UNCHANGED losses
       \/ /\ spec.retire /\ AllPublished
          /\ PostFails
          /\ EndRun("failed")
          /\ UNCHANGED old
       \/ /\ ~(spec.retire /\ AllPublished)
          /\ EndRun(IF clean THEN "ok" ELSE "failed")
          /\ UNCHANGED <<old, losses>>
    /\ UNCHANGED <<runVars, built, queue, sent, clean, lastGood, ended, runs, faults>>

-----------------------------------------------------------------------------
(* The environment.                                                        *)

\* The sweep's context ends while a run is under way.
ContextEnds ==
    /\ ~ended /\ pc \notin {"idle", "ok", "failed"} /\ losses < MaxLosses
    /\ ended' = TRUE /\ losses' = losses + 1
    /\ UNCHANGED <<pc, runVars, outVars, lastGood, runs, faults>>

\* The process dies and comes back: what it held is gone, the directory is not.
Crash ==
    /\ pc \notin {"idle", "ok", "failed"} /\ losses < MaxLosses
    /\ pc' = "idle" /\ lastGood' = NoFile /\ losses' = losses + 1 /\ ended' = FALSE
    /\ UNCHANGED <<runVars, outVars, runs, faults>>

Work ==
    \/ ResolveInputs \/ Prepare \/ Step \/ Call \/ Reauth \/ Gather \/ Build \/ RemoveStaleCatalogs
    \/ Write \/ Publish \/ PublishFile \/ Retire

Next == Start \/ Work \/ ContextEnds \/ Crash

\* Every call of a run has a timeout; nothing makes a run start.
Spec == Init /\ [][Next]_vars

FairSpec == Spec /\ WF_vars(Work)

-----------------------------------------------------------------------------
(* Properties.                                                             *)

Publishing == pc = "publish"

TypeOK ==
    /\ pc \in {"idle", "inputs", "auth", "step", "call", "again", "reauth", "clean", "write",
               "publish", "ok", "failed"}
    /\ reauths \in 0 .. MaxReauths /\ counted \in Nat
    /\ old \in {"active", "retired"}
    /\ lastGood # NoFile => Valid(lastGood)

\* What is published was built by this run, also when the directory still holds
\* the files of a run that died or built other catalogs.
NoStaleCatalog ==
    Publishing => queue \cup sent \subseteq built

\* What a catalog spends of its budget.
CostOf(seq) ==
    LET upto[n \in 0 .. Len(seq)] == IF n = 0 THEN 0 ELSE upto[n - 1] + seq[n].cost
    IN  upto[Len(seq)]

\* Grouping, chunking and sorting lose and repeat nothing: every record that is
\* not excluded has its place in one catalog, as often as it was collected, and
\* no place holds anything else; a catalog of more than one record keeps within
\* the budget.
EveryRecordOnce ==
    pc = "clean" =>
        LET c == spec.catalog
            all == Selected(c, last.out, DOMAIN last.out)
            places == UNION {{b} \X DOMAIN b.content : b \in built}
            there(p) == p[1].content[p[2]]
        IN  /\ \A p \in places : there(p) \in ToSet(all)
            /\ \A r \in ToSet(all) :
                  Cardinality({p \in places : there(p) = r})
                      = Cardinality({i \in DOMAIN all : all[i] = r})
            /\ \A b \in built : c.budget > 0 /\ Len(b.content) > 1 => CostOf(b.content) <= c.budget

\* Step k is a loop that counts every failure it tolerates, unless the failure is
\* that there is no data, and its list and its result are not replaced later.
Accounted(k) ==
    LET loop == spec.steps[k]
    IN  /\ loop.each # "" /\ loop.when /\ loop.uses \in {"get", "post"}
        /\ loop.tolerate \subseteq spec.counts \cup {"empty"}
        /\ loop.out \notin {"", loop.each}
        /\ \A l \in DOMAIN spec.steps : l > k => spec.steps[l].out \notin {loop.out, loop.each}

\* The items loop k goes through.
Asked(k) ==
    LET list == outputs[spec.steps[k].each]
    IN  {Render(list[i], "item") : i \in DOMAIN list} \ {NoItem}

\* The items the upstream has rows for, of which there are none in rows.
Missing(k, rows) ==
    {i \in Asked(k) : Rows(i) # <<>> /\ \A j \in DOMAIN rows : Render(rows[j], "item") # i}

\* A run that lost more items than its file tolerates sends nothing: of every
\* such loop, no more items are missing from what was sent than the limit says.
PartialRunSendsNothing ==
    Publishing /\ spec.counts # {} =>
        \A k \in DOMAIN spec.steps :
            Accounted(k) => Cardinality(Missing(k, outputs[spec.steps[k].out])) <= spec.limit

\* The run as the network sees it.
Abstract == INSTANCE CatalogRun WITH
    phase <- CASE pc = "idle" -> "idle" [] pc = "ok" -> "served"
               [] pc = "failed" -> "failed" [] pc = "publish" -> "sending"
               [] OTHER -> "collecting",
    want <- built

\* A run keeps the promise of CatalogRun: nothing is retired before everything
\* that replaces it has arrived, nothing is served half sent.
KeepsPromise == Abstract!Spec

\* A run that has started ends.
RunsEnd == pc = "inputs" ~> pc \in {"idle", "ok", "failed"}
=============================================================================
