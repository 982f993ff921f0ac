# TLA+ verification of the network adapter

The network adapter (beckn-onix) sits between a network participant's
application and a Beckn network. It does three things: it carries signed
messages between participants (the *message handler* and its steps), it calls
the backends that serve agricultural capabilities (the *provider steps*), and it
keeps catalogs in step with the network (the *catalog crawler* and the *catalog
publisher*). This directory holds TLA+ models of the parts that keep state
across processes, threads or messages, the TLC configurations that check them
and the TLAPS proofs about them.

Paths below are relative to the repository root; `CC` stands for
`pkg/plugin/implementation/catalogcrawler`, `CP` for
`pkg/plugin/implementation/catalogpublisher`, `IC` for
`pkg/plugin/implementation/internal/common` and `H` for `core/module/handler`.

## 1. Inventory

| component | state it keeps | operations | what is hard | what makes it correct |
|---|---|---|---|---|
| crawler work queue (`CC/internal/store`) | `crawler_queue`, `crawler_catalog`, `crawler_index` | Enqueue, ClaimNext, Complete, Reschedule, Park, RequeueOrAbandonParked, RecordFailure, UpsertIndexCursor | several replicas, leases that run out, crashes, a conditional GET that hides changes | exclusive claims within a lease, agreeing columns, budgets kept, every change settled in the end |
| scheduler and process lifecycle (`CC/scheduler.go`, `cmd/adapter/main.go`) | context, mutex, WaitGroup, three loops, after-sync jobs, closers | Start, ticks, RunOnce, Stop, shutdown | shutdown at any moment, on-demand runs, order of closers | nothing outlives Stop, no misuse of the WaitGroup, shutdown ends, cleanup still finds the database |
| publish sweep and run log (`CC/publishsweep.go`, `CP/pipeline/run.go`) | one marker per pipeline, an in-memory attempt budget per process | tick, due check, claim, execute, record, release, give up | replicas ticking at once, overrunning runs, failing store calls, crash between claim and record | a firing is published once, retried a bounded number of times, and served in the end |
| pipeline interpreter (`CP/pipeline`) | one run's outputs, counters and token; the last good pipeline file; the output directory | load, inputs, credentials, steps, build, write, publish, retire | partial failures in loops, dying tokens, files left by a dead run, catalogs refused after others were sent | no record lost or repeated, nothing sent when too much is missing, nothing retired before its replacement has arrived |
| network crawl and sink (`CC/networkcrawl.go`, `CC/discover.go`, `CC/internal/sink`) | the pass in flight, the page and batches in hand | claim, list, ask, publish, push | networks that clamp, cut, repeat or never end their pages; ticks that overlap; one refused batch of several | one pass at a time, every resource arrives, no copy outlives its permission, every pass ends |
| catalog publisher endpoint (`CP`) | the index of a participant and its versions | decode, load, sign, store, verify, answer | two requests for one catalog, a public index that lags, keys that rotate, one of several catalogs failing | a version names one content, what is reported was seen in public, the answer adds up |
| message handler (`H`) | per-request context, response | ServeHTTP: steps, route, sign, respond; response steps | order of steps, errors half way, unsigned answers | what is signed is what is sent, a callback is accepted exactly for a request that was made |
| payload store | one record per message, one index per transaction | Store, Get | read-modify-write of the index, request and callback under one key | a callback finds its request |
| provider call path (`IC`) | the token held for each provider, one call's retry budget | Run, serve, call, attempt, authenticate, exchange, forget | many requests sharing one token, a caller leaving during any step | one exchange at a time, a refused token never comes back, a failure blames the right party, every request ends |
| JSON mapper | compiled mappings, negative entries | compile, lookup, purge | one flight for many callers, a cancelled leader | one fetch for all, no request goes back to an older mapping, the cap counts live mappings |
| manifest loader, policy checker, version mediator | two cache entries per manifest, a policy set, a cache of artifacts | get, verify, keep; reload, swap, select; fetch, translate | refresh against use, failed refreshes, caches filled from caches, other adapters on the same cache | never half a reload, never older than the TTLs allow, never half translated |
| registry client (`sunbirdRegistry`) | a cache of usable answers | lookup of a key, a provider's plan, an agreement | a suspension while an answer is cached or under way, an outage | a bounded suspension window, refusals that are current |
| other registries, key managers, ciphers, validators, preprocessor | none or a cache | lookup, sign, encrypt, verify | - | functional correctness of data transformations |
| plugin manager, telemetry, configuration | start-up state | load, register, close | order of closers | closes users before what they use |

How they interact: the scheduler's poll tick calls `PollIndexes` and its sync
tick `SyncNext`, both in the external library `catalog-core`, which call back
into the store; the publish sweep rides the sync tick as an *after-sync job* and
calls `pipeline.Run`, which coordinates with the other replicas only through the
run log and then executes the pipeline, whose catalogs go to the catalog publisher;
the network crawl is another after-sync job; the message handler calls the plugins in the configured order and the
peer's handler through HTTP; the adapter's shutdown goroutine closes the plugin
manager's plugins and then stops the crawler.

The full list of components, with the reason for each one left out, and the list
of hazards with the line each one bites at, are in `PROJECT.json`.

## 2. Modules

| module | models | status |
|---|---|---|
| `CrawlQueue` | store of the crawler with its poller, workers and park sweep | checked, proved |
| `CrawlerLifecycle` | scheduler, after-sync jobs, RunOnce, shutdown | checked, proved |
| `PublishSweep` | publish sweep of every replica and the run log | checked, proved |
| `PipelineSteps` | the primitives of a pipeline and the building of catalogs, as operators | checked and proved through `PipelineRun` |
| `PipelineRun` | one process's runs of a pipeline, from its file to the retirement | checked, proved |
| `CatalogRun` | what a run promises the network (abstract) | implemented by `PipelineRun`, checked and proved |
| `CatalogPublish` | the catalog publish endpoint | checked, proved |
| `NetworkCrawl` | the crawl of other networks and the sink | checked, proved |
| `Exchange` | the signed message exchange of two adapters, their step chains and payload stores | checked, proved |
| `ProviderCall` | the provider step, its retry loop and token, and the JSON mapper's cache | checked, proved |
| `RegistryLookup` | the registry client behind `validateSign`, provider plans and agreements | checked, proved |
| `ManifestLoader` | the two-level manifest cache | checked, proved |
| `PolicyCheck` | the policy checker; extends `ManifestLoader` | checked, proved |
| `SchemaMediation` | the version mediator; extends `ManifestLoader` | checked, proved |
| `StepPlugins` | composes the four above as the steps of a handler | checked, proved |
| `...Proofs` | theorems and proofs of the modules they extend (`CrawlerProofs`: `CrawlerLifecycle` and `NetworkCrawl`) | complete |
| `MC...` | values of the constants, symmetry sets | |

### CrawlQueue

Every store call is one SQL statement or one transaction, so each is one action:
`Enqueue` (inside `PollDecide`), `ClaimNext`, `Complete`, `RecordFailure`,
`Reschedule`, `Park`, the two UPDATEs of `RequeueOrAbandonParked`
(`ReviveParked`, `AbandonParked`) and `UpsertIndexCursor`. What a caller keeps
between calls is in `worker` (the claimed item, the version it resolved), `poll`
(the index it fetched and the entries still to decide) and `sweep`. Time is what
the SQL compares: `next` is `now`, `later` (behind a backoff) or `never`
(`'infinity'`), and `expired` holds the claims older than `claimLease`. Which
parked rows are older than `ParkOlderThan` is a nondeterministic set. `Crash`
stands for a dead worker and for a store call of an item that failed; both leave
the claim on the row. `PollIndexes` and `SyncNext` are not in this repository;
their decisions are taken from the calls they make: an entry whose version
differs from the settled cursor is enqueued, a claimed item is resolved against
the index as it is at that moment, a failure is recorded before the item is
rescheduled or parked. A catalog's version stands for what the store keeps of it
in `crawler_catalog`; retiring a catalog is the same sequence of store calls.
The legacy status `failed`, which no statement writes any more, is left out, and
one poll pass is in flight at a time.

### PublishSweep

`run[r]` is what replica `r`'s sweep carries: the targets still to do and, in a
run, the `now`, `previous` and `firing` that `pipeline.run` read once and writes
later. `marker` is the row of the run log. `ReadRunLog` is everything up to the
due check, `ClaimPipelineRun` the conditional write (won, lost, failed),
`ExecuteSucceeds` and `ExecuteFails` the work, `RecordPipelineRun` and
`ReleasePipelineRun` its end, `EarlyFault` a failure before the due check, and
`Charge` and `GiveUp` are `afterRun` with its attempt budget. `ctxEnded` is the
sweep's context after `Stop`. `published` and `tries` are history variables;
`tries` starts afresh when another replica's release takes a give-up back
(finding 12), which is the one way a process can try a firing again. With `Overruns = FALSE` the schedule does not fire again while a
replica is between its due check and its last run-log write; with `TRUE` it may.
`LegacyRun` is the row keyed by capability that the due check falls back to.

### CrawlerLifecycle

`main` walks through `Scheduler.Start`, `loop` holds the loop goroutines, `job`
the after-sync jobs, `request` the `/crawl/trigger` requests and the goroutine
`RunOnce` starts for each, `closing` the shutdown goroutine. A critical section
under `Scheduler.mu` that does not block is one action; `Stop`, which holds the
lock while it waits, is two (`StopCancels`, `StopReturns`). A `select` with both
cases ready takes either, so a loop may tick once more after its context ended.
`LoopExits` is strongly fair because Go's `select` chooses among ready cases at
random.

### Exchange

One exchange is one HTTP call from an application through its own adapter's
Caller module to the peer's Receiver module and the application behind it.
`cpc` and `rpc` are where the two handlers are in their chains, as configured in
`config/local-beckn-one-bap.yaml` and `-bpp.yaml`; steps that touch only the
request (checkPolicy, addRoute, validateSchema, a key lookup) are the outcome
"the chain fails here" (`CallerFails`, `ReceiverFails`). The steps that read or
write the payload store are actions: `SignStep` looks up the request a callback
answers, `CallerStorePayload` and `ReceiverStorePayload` overwrite the entry of
the message id, `ValidateSign` looks up what a 4-line header should cover. A
header is the id of the exchange it was made for and `req` the request header it
covers. `Proxy`, `Publish` and `Provide` are the three ways ServeHTTP ends, with
the signing of the response (`SignAck`, `Refuse`) inside them, and `Return` is the
proxy of the caller, which may also time out while the receiver goes on. A step
that fails is answered with a NACK or, when it returns an `AckNoCallbackErr` and
the protocol is v2, with a 202 whose status is ACK and which says that no callback
will follow (`Refusals`, the body `accepted`); a caller's own step may refuse
either way (`CallerRefuses`), without a Signature.
`Request` may repeat a message id (an application's retry) and `Callback` may
answer a delivered request any number of times. `persisted`, `delivered` and
`refused` are history. A routing rule depends on the message only, so the route
is a function of it; a message in `Provided` is served by a module with provider
steps, which neither stores nor routes. `SharedCache` says whether both adapters
use one Redis. Two headers made in the same second over the same body would be
equal; the model keeps them apart, which can only make a lookup fail more often.
No forged header is modelled: the properties are about what honest adapters do
to each other.

### ProviderCall

Concurrent requests run `Step.Run` of one provider step. `pc[r]` is where a
request is between two points at which another one may interfere. `Run` is the
dispatch up to `serve`: over every kind of receiver, binding and registry record
it passes the request on, routes it, fails it or serves it. A served request
uses its mapping three times (`leg`: `Verify`, the request half, the response
half), each a `Lookup` in the mapper's cache and, on a miss, `Join`, `Fetch` and
`Remember` through the singleflight group (`golang.org/x/sync`, external: one
leader per key, whose result everyone waiting is given). `entries[m]` keeps an
expired entry until the next `purgeExpired`, as the map does, because it counts
against `maxCacheEntries` until then. Between the request and the response half
lies the call: `Attempt` is the top of the retry loop with `authenticate`, `Lock`
and `Exchange` are `providerToken` before and while it holds the token mutex,
`Answer` is an attempt's outcome with its classification into permanent and
transient (`Fail`), `Backoff` the sleep between two. A mutex does not look at the
context, so a request that left still takes `Lock`.

A mapping is the version published when it was fetched and a token the number of
the exchange that issued it; `Publish`, `Revoke`, `EntryExpires`, `TokenExpires`
and `ContextEnds` are the environment. The outcome `failed` stands for the errors
that do not depend on what requests share (a refused payload, an unreachable
registry, an evaluation that fails, an envelope that does not open). The step
holds one token per provider; the model has one provider with a token and
references in `Static` whose provider takes none, because providers do not share
a token or its mutex. `refused` and `inherited` are history variables.

### PipelineRun, PipelineSteps and CatalogRun

`pc` is where the run is: `inputs`, `auth`, `step`, the loop of one upstream step
(`call`, `again` after a re-exchange, `reauth`), then `clean`, `write`, `publish`.
`Text[f]` is what a pipeline file says, as a record of its steps, its catalog
plan and its publish rules; `Answer[i]` is what the upstream has for an item.
`Step` is one round of `runSteps`, with `when:`/`else:`; `Checked` is
`failWhenEmpty`, which looks at the output of a step that ran and not at an
`else:`;
`Primitive` dispatches to the operators of `PipelineSteps`, which compute what
`join`, `derive`, `dedupe`, `filter`, `concat` and the catalog plan (group,
exclude, annotate, order, chunk, render, slug) compute on records. An expression
is a test of one field. The loops of the code that keep, sort or cut records are
written by positions: `Arranged` gives each kept position its rank, by the
`Weight` of a field and then by position, which is what a stable sort does, and
`Dealt` says into which chunk each record goes. `Call` is one request to the upstream and its
classification; `Failed` is `onError`, which exists in loops only, and `Answered` includes
`onEmptyOutput`, which may record an item without rows (the counter `none`);
`Rejected` and
`Reauth` are `withReauth`. `lastGood` and the output directory survive a run, a
crash clears the former only. Which run starts when is `PublishSweep`'s matter;
`Start` is open to any moment without a run.

`CatalogRun` says what the network may rely on: a run sends only what it has
built, it counts as served only when all of it has arrived, and only then may the
catalog it replaces be retired. `KeepsPromise` is `CatalogRun!Spec` under the
mapping `phase <- pc`, `want <- built`.

### CatalogPublish

One request goes through decode, `Load` (the keyset and the prior entries), `Sign`
(`catalog-core`'s `publisher.Publish`: baseline, change, tombstone or nothing for
each catalog), `Store`, then attempts of `Verify` with backoffs (`Wait`) and
`Respond`. An index entry is the version of its baseline, its version, its
content, whether it is live and the key it is signed with. `served` is the index
at the public address, which with `Lag` may be older than the one stored until
`Propagate`. `Rotate` changes the node's key and, later, the one the registry
knows. Requests run together as they come, as nothing in the code keeps them
apart. `log`, `shown` and `raced` are history: what was stored and by whom, the
index and the registered key a request looked at, and the catalogs that one
request stored while another one was between its load and its store (finding 9).
`retire` is a list, and an id listed twice is submitted twice.

### NetworkCrawl

`Claim` is a tick that is due and finds no pass in flight; `List`, `Turn`, `Ask`,
`Turned`, `Publish` and `Push` are the pass. `Pages` is what a network answers at
an offset; the proofs know of it only what the assumptions say (section 5), and in
`MCNetworkCrawl` `MCAnswer` says how networks do it: `paged` counts resources,
clamps the limit and reports what it applied, `plain` counts catalogs and reports
nothing, `stuck` and `deaf` are the same but always answer their first page, and
`mute` clamps like `paged` and reports nothing. `Countable` are the networks whose
answers the code can tell apart from the end of what they hold; a `mute` one that
clamps is not among them, and its walk ends early. `BatchCatalog` cuts a catalog
by bytes: `DocBytes` is the size of the document a batch is sent in, with the
offers in the lead batch and the member `"resources"` itself (`Frame`), which
`Budget`, like the code, does not count. Every
answer of the discovery service that `verdict` tells apart is in `Answers`. A
call that fails may or may not have arrived. Offsets beyond the longest holding
are not told apart (`MaxOffset`).

### RegistryLookup, ManifestLoader, PolicyCheck, SchemaMediation, StepPlugins

Time is relative in these: a cache entry has a remaining life, a document an age,
a record the time since it last permitted use. `RegistryLookup` is about one
subject: a key (one search that carries the participant and the key), a
provider's plan (two searches) or a requester (an agreement, never cached). A
search reads the registry at one moment and its answer arrives at a later one.
`ManifestLoader` has one manifest with its entries under the name and under the
metadata; body and signature are published and fetched one after the other.
`PolicyCheck` loads the policies of one file, one at a time in any order, swaps
them in together and lets requests select and evaluate in between;
`SchemaMediation` is about the messages of a caller: it fetches the counterparty's
manifest, then every artifact it needs, and forwards the message translated,
untouched or not at all (a receiver does the same against its own manifest, read
once at start-up; that side is not modelled). What a message carries is
a set of schema objects out of `Payloads`, and `Reads` is what each version of the
manifest says of an object: supported, in another version, in no version at all,
of an undeclared type, or of one without a canonical version. The last two are
skipped, as the code skips them. A node that was not onboarded refuses
everything, a message that names no counterparty is forwarded unchecked, and the
artifact of an object in the context (`Outside`) is applied to the message as a
whole. Its cache keeps the slot of an entry that ran out, as the code does.
Reading the cache, fetching and writing it are one action, where the code lets
other messages run in between; no property depends on that. `StepPlugins` composes
them: a behaviour is about one of the three steps, since at run time they share
nothing but the loader.

## 3. Runs

| run | instance | shows |
|---|---|---|
| `CrawlQueue_live` | 1 catalog, 2 workers, 3 claim ids, 2 versions, 1 crash, 1 transient failure, syncs may outlive their lease, no conditional GET | `LeaseProtectsHolder`, `SnapshotFresh`; `Converges` under fairness |
| `CrawlQueue_prompt` | 2 catalogs of which one never syncs, 2 workers, syncs end within their lease, conditional GET | `AbandonedExplained`, `CursorNeverRegresses`; `EventuallyAbandoned`, which is about hosts that send validators |
| `CrawlQueue_lostupdate` | 1 catalog, 1 worker, conditional GET | violates `NoLostUpdate` |
| `PublishSweep` | 2 replicas, 1 pipeline, firings at 1 and 2, a crash, stop or failing run-log call | `PublishedOnce`, `ClaimStands`, `BudgetBounds`; `EventuallyServed` |
| `CrawlerLifecycle_live` | 2 jobs, 1 request slot, a shutdown at any moment | `NothingOutlivesStop`; `ShutdownCompletes` |
| `Exchange_binding` | 3 exchanges over 2 messages (one served by a provider module, one with published callbacks), 1 fault | `BoundToOwnRequest`, `AnswersHonest`, `LoneCallbackAccepted` |
| `ProviderCall_live` | 2 requests over 2 mappings (one with a token, one static), room for 1 in the cache, 2 attempts, 2 versions, 2 tokens, 1 expiry, 1 caller that leaves | `OneExchangeAtATime`, `RefusedTokenNotHeld`, `MappingNeverGoesBack`; `RequestsAnswered` |
| `PipelineRun_live` | 2 runs over 5 files, an upstream of 3 items, 2 failing calls, 2 refusals, crashes or stops, a kept directory | `NoStaleCatalog`, `EveryRecordOnce`, `PartialRunSendsNothing`; the refinement `KeepsPromise`; `RunsEnd` |
| `CatalogPublish_verify` | 2 requests that may race, the first with 2 and the second with 4 bodies to choose from, over 2 catalogs, 2 attempts, a lagging index, 1 rotation, 1 fault | `VersionNamesOneContent`, `AcceptedChangeIsServed`, `AnswersAddUp`; `RequestsAnswered` |
| `NetworkCrawl_pass` | 2 ticks, networks of every kind but `deaf`, a clamp below the page size, a byte limit that splits a catalog, 1 fault | `OnePassAtATime`, `CopiesPermitted`, `WalkCollectsAll`, `AcceptedIsStored`, `BatchesAddUp`; `PassEnds` |
| `NetworkCrawl_deaf` | a network that ignores the offset and reports no page | violates `PassEnds` |
| `StepPlugins_fresh` | 2 clients of the registry; or 1 request and the reload; or 1 message at a time out of 2 payloads, whose objects the 2 manifest versions read in all five ways, and room for 2 artifacts; TTLs of 2, 2 releases, 1 fault | `SuspensionWindow`, `RefusalIsCurrent`, `DocumentAge`, `SoundPolicySet`, `MediatedWhole`; `PolicyCatchesUp` |

**Why the bounds are enough.** The claim protocol concerns one row, one holder
and one rival: one catalog and two workers have every interleaving of claim,
expiry, reclaim and late settle, and three claim ids allow two live claims and a
fresh one. Two versions let a cursor go back. `MaxAttempts = 2` and
`MaxParkCount = 1` take a row through retry, park, revival, a second park and
abandonment. A firing is contested by two replicas; two firings let a late write
hit the next one. Three exchanges are a request with two callbacks, or a request,
its retry and a callback, the smallest histories in which an entry is overwritten
between its write and its use; the fault is an expiry, a failing lookup or a
missing key. What requests to a provider step share is one cache entry, one
flight and one token, and a cap of one lets the second mapping meet a full cache;
one expiry and one republication are enough for a request to use two versions of
its mapping, and two tokens for a late refusal to meet a fresh one (of two
initial states that differ by a permutation of the requests, `MCSpec` keeps one).
A pipeline
run meets what the run before it left, so two runs suffice; the files use every
primitive, a group that is split, one that is excluded as a whole and a loop with
a tolerated failure, an empty answer and a rejected token. Two publish requests
are a baseline and a change, or either and a retirement, one after the other or
racing; two attempts are a retry. The network crawl's holdings cut a catalog at a page's end and split one
into two batches, and the second tick is the one that overlaps. With a TTL of 2
an entry can be used, be filled from another entry and run out; two releases are
an old and a new one. All invariants and action properties of the passing runs,
and the refinement `KeepsPromise`, are proved without the bounds (section 5).

**Fairness.** Each loop of `scheduler.go` runs until `Stop` and its ticker fires
again, so the poller, every worker and the sweep are weakly fair; time passes
(`LeaseExpires`, `BackoffElapses`). The strong fairness of `ReviveParked` and
`AbandonParked` on all catalogs says that a row stays parked for at most
`ParkOlderThan` before a sweep takes it. In `PublishSweep` strong fairness of
`Tick(r, Pipelines)` and `ReadRunLog` says that the registry does not leave a
binding out, and the host not the file, for ever, and that of the execution that
a broken pipeline file is mended: with a permanent fault for ever, `afterRun`
deliberately never marks the firing served. Nothing forces a run to succeed.
In `ProviderCall` the steps of a request that `Run` has taken up are weakly fair:
its goroutine is scheduled, a fetch, an exchange and an attempt each have a
timeout and so end, and a backoff is finite. `Lock` needs no more than weak
fairness in that instance because there is only one other request; with more,
Go's mutex, which hands over to a waiter that starves, is the reason. The same
reason, a goroutine whose every call has a timeout, is behind the weak fairness
of `Work` (`PipelineRun`), `Handle` (`CatalogPublish`) and `Step`
(`NetworkCrawl`). In `StepPlugins` the refresh loop is weakly fair, and time is
strongly fair because it can pass only between calls to the cache, which take
none. No request has to arrive, leave or be served, and no run has to start.

Deadlock is not checked where the system really may stop: after the shutdown in
`CrawlerLifecycle_live` (`ShutdownCompletes` says that it stops only there), and
in the other runs when the bounded number of requests, runs, exchanges or ticks
is used up.

## 4. What the checks found

1. **A late worker still settles** (`CrawlQueue_prompt.cfg` with `SlowWorkers = TRUE`:
   `SettleRemovesRow`, and `CursorNeverRegresses`). `Complete` deletes the
   row only for the holder but upserts the cursor for anybody, against
   `0002_claim_id.sql` ("only the holder can settle").
2. **A change can be lost behind a 304** (`CrawlQueue_lostupdate`). An entry
   that changes after a worker resolved it and before it completes is folded
   into the claimed row, which `Complete` deletes; the poll has stored the
   validators of that index, so later polls answer 304. Without conditional GET
   the next poll repairs it, which is why `Converges` is checked with
   `ConditionalGet = FALSE`.
3. **A firing can be published twice** (`PublishSweep.cfg` with `Overruns = TRUE`,
   `MaxTime = 4`, `Firings = {1, 3}`, `MaxFaults = 0`: `PublishedOnce`). A run that
   outlasts its window writes its own `now`, or the `previous` it read, over
   another replica's later claim. The run shows that without overruns this does
   not happen.
4. **A claim cannot be released at shutdown** (`CrawlerLifecycle_live.cfg`
   with `ReleaseReachesStore`). The database is closed before the crawler is stopped.

5. **A solicited callback can be refused** (`Exchange_binding.cfg` with
   `SolicitedNotRefused`). The BAP stores
   a callback over the record of the request it answers, so another callback to
   the same request, signed over it and arriving later, is refused as
   "unsolicited or entry expired" (`H/step.go:250`). `LoneCallbackAccepted` is
   what does hold: the only callback to a request sent once is bound and
   accepted. Later callbacks the BPP signs after storing the first are not bound
   to the request at all.

6. **A caller that leaves fails the requests after it** (`ProviderCall_live.cfg`
   with `CancellationCanBeRetried`).
   The mapper's shared fetch runs under its first caller's context, and
   `remember` stores its cancellation like a broken mapping (`jsonmapper.go:407`):
   for `negativeTTL` every request for the capability fails with `context
   canceled`, where the comment at `jsonmapper.go:395-398` promises "a
   cancellation they can retry". A request whose provider has already answered
   can be hit too, when its mapping expired during the call.

7. **A late refusal drops a fresh token** (no run). `forgetToken` does not
   compare (`IC/http.go:162`), so a second 401 for the old token drops the one
   exchanged since. `RefusedTokenNotHeld` holds; the price is one more exchange.

8. **A network can hold the crawl for ever** (`NetworkCrawl_deaf`). Without a
   reported page the next offset is what was asked for, so the guard at
   `CC/discover.go:179` cannot see that the network ignores it; the pass never
   ends and no later one starts.

9. **Two publishes of one catalog can share a version** (`CatalogPublish_verify.cfg`
   with `VersionNamesOneContent` less its exception for `raced`). Nothing holds
   between `LoadCatalogs` and `catalogStore.Publish` (`CP/catalogpublisher.go:241`).
   The property says that nothing else makes two contents share a version.

10. **A stale public index verifies a retirement** (`CatalogPublish_verify.cfg` with
    `ReportedIsServed`). Baselines and tombstones are looked for by id only
    (`CP/verify.go:233-236, 263-277`); `AcceptedChangeIsServed` holds.

11. **Nothing published can count as served** (no run). The empty-directory guard at
    `CP/pipeline/interpreter.go:1220` does not apply when a retirement is
    configured; the retirement is then skipped and the run has no failures.

12. **A give-up can be undone by another replica** (no run). `ReleasePipelineRun`
    restores what its run read before, over a give-up that another replica wrote
    meanwhile (`CP/pipeline/run.go:338`). `BudgetBounds` and `EventuallyServed`
    are stated up to this.

13. **A forced refresh can be missed** (no run). `shouldBypassCache` marks the key
    before the refresh succeeds, and a failed cache write leaves the older entry
    (`manifestloader.go:297, 318`). `SoundPolicySet` excepts exactly these.

14. **The suspension window is longer than its comment says** (no run): the TTL
    plus the time of the searches (`sunbirdRegistry.go:659`), which is what
    `SuspensionWindow` states.

15. **A catalog that cannot sync is retried for ever** behind a host without
    validators (`CrawlQueue_prompt.cfg` with `ConditionalGet = FALSE` and
    `EventuallyAbandoned` less its premise). Every poll then compares the index
    anew, and `Enqueue` makes the abandoned row queued again
    (`CC/internal/store/queue.go:48`), where `CC/README.md:123` calls abandonment
    "terminal".

16. **An artifact can be applied to the wrong object** (no run). A path outside
    `$.message` is treated as the whole message
    (`schemaversionmediator.go:518-522`), and the object found there stays as it
    was. `MediatedWhole` excepts these objects (`Outside`).

Without a run: the proxy's 502 carries no Signature (`H/stdHandler.go:473`), a
failing cache read wipes a transaction index (`payloadstore.go:308`), the shipped
Caller modules name `validateAckSign` without a `signValidator`
(`config/local-beckn-one-bap.yaml`), a batch can be over its limit by the member
`"resources"` (`CC/internal/sink/batch.go:57`; `BatchesAddUp` allows just that), an id retired twice is submitted twice
(`CP/catalogpublisher.go:246`), a policy result with neither expected key passes
(`opapolicychecker/evaluator.go:440`), the artifact cache duplicates slots
(`schemaversionmediator.go:318`) and a type absent from a manifest is skipped
(`:1163`). Details and quotations are in `PROJECT.json`.

Smaller observations, not runs of their own: a late `Complete` clears the reason
of a catalog another worker abandoned (`CC/internal/store/queue.go:182`); the
give-up stamps `time.Now()`, so a firing that fell due during the failing run is
skipped with it (`CC/publishsweep.go:374`); attempts spent on one firing are
carried over to the next when no give-up lies between them (`publishsweep.go:225`
counts them per firing); a failure before the due check is charged even when the
pipeline is not due (`publishsweep.go:215-218` says such a run "never gets
here"); `CC/README.md:122-123` says "fewer than maxParkCount" where
`queue.go:153` compares with `<=`; `onError` is looked at in `forEach` loops only;
a failed re-exchange counts as a transport failure, not as a rejected token; the
policy of a manifest that has expired stays in force while reloads fail; a network
that clamps its pages and reports none is read up to its first short page, with
no failure counted (`docs/adr/0003-paging-a-crawl.md:51-52` says so); two messages
of one transaction stored at
once lose one id of the transaction index (documented in `payloadstore/README.md`,
and no step reads that index).

## 5. Proofs

`CrawlQueueProofs` proves, for every set of catalogs, workers and claim ids and
every bound, from `ConstantsAssumption` alone:

- `QueueInvariant`: `Spec => []QueueInv`. None of the checked invariants is
  inductive alone. `QueueInv` conjoins them and adds what they need: distinct
  busy workers carry distinct claims, the attempts of a row a worker is failing
  leave room for one more, and a claim that is not expired is on its row. One
  lemma per action says what it does to a row and what to the holders.
- From it `TypeCorrect`, `ColumnsAgree`, `LeaseIsExclusive`, `OneOwner`,
  `SnapshotStaysFresh`, `BudgetsHold`: the invariants of the runs.
- Under `SlowWorkers = FALSE`, `PromptSettles`, `PromptCursors` and
  `PromptReasons`: the three properties that a late worker breaks, from the
  further invariant that every busy worker is within its lease, that no version
  in flight is older than the settled one, and that a parked row has its reason.

`CrawlerProofs` proves of the scheduler `LifecycleInvariant`, `TypeCorrect`,
`StopDrains` and `WaitIsNeverRaced` for every set of jobs and requests, with and
without a store. The strengthening says that only `Stop` holds the lock, that the
shutdown begins after `Start` is done and that a draining scheduler is cancelled.

Of the network crawl it proves `CrawlInvariant`, and from it `CrawlOnePass`,
`CrawlCopiesPermitted`, `CrawlAcceptedStored`, `CrawlBatchesAddUp` and
`CrawlCollectsAll`, for any
registry, any answers of the networks, any sizes and budgets and any number of
ticks. The assumptions are that a network gives only catalogs of its own, with
any numbers for the page (`PagesAssumption`), that a catalog id is one network's
and a network has one entry (`CatalogsAssumption`), and the types of the
registry and the sizes. `CrawlInv` adds `Walking` (the network under way
permits copies, and none we hold of it ends later than what the pass stamps now,
without which a later batch could shorten what was reported), `InHand` (the page
is that network's and was given after the pass turned to it), `Sending` (while no
batch was refused, what is not stored yet is still to be sent) and `EndsInTime`
(no copy outlasts what its network permits from now, which is `Walking` for the
next pass). `Push` needs that `BatchCatalog` loses nothing: `BatchCatalogCovers`
says that its batches, one after the other, are the catalog's resources, and that
a batch of several resources, with the offers the lead carries, is over
`MaxDocBytes` by no more than the `Frame`. This is induction over the document; it is
done by hand, with well-founded induction on a set (`UpTo`) and one lemma on what
a function defined from 0 or 1 upwards satisfies (`Recursion`).
`BatchesAddUp` then follows the batches while they are sent (`EndOf`, `Cut`).

`CrawlCollectsAll` holds of the networks that are `Countable`, and nothing is
assumed of the others: such a network counts what it holds one way, in resources
or in catalogs, a page has what lies between the places it says it applied, or else
the places asked for, and a total or a short page leaves nothing beyond it. A network
that skips its own resources, or that clamps and reports no page, cannot be found
out by the code (ADR-0003:51-52 says so of the latter). From this
`WalkInv` follows a walk without loss: everything before its offset has arrived
(`Walked`), what is in hand is what is left of the page at that offset
(`Reading`), and of the catalog under way what is not stored is still to be sent
(`Pushing`). `PageRead` is where `appliedPage.after` is needed to be right.

`ExchangeProofs` proves `ExchangeInvariant` for any set of messages, any number
of exchanges and faults, any routing, either protocol generation and one cache
or two, and from it `ExchangeTypeCorrect`, `CallbacksBoundToRequests`,
`NothingUnrecorded`. `AnswersAreHonest` proves `AnswersHonest` from it and, for
what a 202 promises, from `LoneInvariant` below. The
strengthening is `StoreBinding` (an entry for a request names a request of that
message that the BAP recorded), which rests on `Recorded` (each chain stores
before it sends on) and `Fresh` (an exchange that has not begun left no trace),
and `Responses`, the two response properties for a response not yet read. Two
lemmas reduce the steps of a handler to their effect, and `PersistStep` is the
one place where an entry changes. `LoneCallbackHolds` proves
`LoneCallbackAccepted` from `LoneInv`: `ChainOrder` (how far each chain has come),
`LatestEntry` (without faults and with two caches, a record gives way only to a
later one of its message) and `LoneBound` (the only callback carries its request
from its signing on and is not refused).

`ProviderCallProofs` proves `ProviderCallInvariant` for any sets of requests and
references, any retry budget, cap and bounds, and from it
`ProviderCallTypeCorrect`, `FetchesAreShared`, `ExchangesAreShared`,
`RefusedTokensAreForgotten`, `FailuresAreHonest`, and the action properties
`VersionsNeverGoBack` and `CapIsForLiveEntries`. Three parts make the invariant
inductive: `CallCounts` (at each place of the loop, how many attempts were made
and how the last one failed, without which the budget and the blame do not
carry over a step), `TokensIssued` (a token held, sent or refused was issued, so
a fresh one is none of the refused), and `VersionsOrdered` (what a request used
is at most what the cache holds for its mapping, what its flight brings, and
what is published). The last one is where the singleflight group matters: two
flights for one reference could land in either order.

`StepPluginsProofs` proves for the composition, with any sets of clients,
readers, requests and messages and any lifetimes:

- `LookupInvariant`, and from it `SuspensionWindowHolds` and
  `RefusalIsCurrentHolds`. Neither property says anything of a call that is under
  way or of the cache, so `LookupInv` adds how stale each may be: `PermittedIsFresh`
  (a record that permits has not been idle), `HeldRecent` (a cached answer's
  records were idle no longer than its entry has lived plus its searches),
  `Recent` (the same for the searches of a call already answered) and `Clean` (a
  call that met no denial finds none now; a denying reply belongs to a call that
  met one). Time is the action that needs all of them.
- `DocumentAgeHolds`: `LoaderInv` bounds the age of a document in either entry by
  what is left of the entry's life, and of what a reader holds by the entry it
  came from; that an entry is filled from the other is why two TTLs are needed.
- `PolicySetSound`: `PolicyInv` says of what a reload has gathered what the
  property says of the set in force, since a swap is where one becomes the other.
  That nothing is older than the process rests on `Renewed` and `MetadataNew`:
  after the forced refresh an old document survives only under the metadata key,
  and no longer than the entry in front of it. `PolicyAssumption` says that the
  reload is a reader of the loader.
- `MediatedWholeHolds`: `MediationInv` says phase by phase (`Phases`) that without
  trouble every artifact a message needs has been fetched or is still to be, that
  nothing is translated before the end, and of a message forwarded what the
  property says (`Whole`); and that each artifact kept has a slot of the bounded
  cache. What a message needs is what `CheckCompatibility` finds, and the objects
  it skips, the unnamed counterparty and the objects in the context are stated as
  exceptions in the property, for any payloads and any manifests
  (`MediationAssumption`: messages are readers of the loader, the capacity is
  positive, a manifest reads every object one way).

`PublishSweepProofs` proves `SweepTypeCorrect` in general and, with
`Overruns = FALSE`, `SweepInvariant` and from it `SweepPublishesOnce`,
`SweepClaimStands` and `SweepBudgetBounds`, for any number of replicas, pipelines,
firings, attempts and faults. It rests on `InStep`: whoever is in a run works on
the firing that is due now. Then a standing claim keeps every other replica out
(`OneExecutor`), so only the run that raised a marker can lower it, and a firing
once published stays claimed (`ServedOnce`). `Counted` compares the attempt budget
with the history and `WithinBudget` says a budget at its limit is about to be
given up. Finding 3 is what the hypothesis keeps out.

`PipelineRunProofs` proves `RunInvariant`, `RunTypeCorrect`, `RunPublishesItsOwn`
and `RunKeepsPromise`, the refinement of `CatalogRun`, for any pipeline files, any
upstream and any bounds. A run that begins to send must have every catalog it
built, and nothing else, in its directory; a file replaces one of the same slug,
so this rests on `SlugsDiffer`: `buildCatalogs` never gives two catalogs the same
slug. `Shelved` says phase by phase how the directory, the queue and what was sent
add up to what was built.

The two properties about the records themselves are proved from the assumptions
that a file's steps are a list and its limit and budget are numbers
(`FilesAssumption`), that values are ordered by numbers (`WeightAssumption`), and
that some row of an item shows whose it is (`AnswerAssumption`: without that
nobody could tell from what is sent that an item is missing; it restricts what
the upstream's mapping produces and not what the program does).

`RunSendsWhole` proves `PartialRunSendsNothing`. The counter `refuseWhen` looks at
is one number for the whole run, and an item can be lost at any call of any loop,
so the property says nothing of a run that is not about to send. `LossInv` compares
at every moment: a loop that is done misses no more items than were counted
(`LoopDone`); of the loop under way, no more items are missing from what it has
gathered, those still to be asked left aside, than were counted (`LoopUnderWay`).
An answered item moves out of both sides, a tolerated failure adds one to each
(`LoopGoesOn`, `FailedTallies`, `AnsweredTallies`), and an item the upstream has no
rows for is not missing whatever is counted. `Produces` needs that a loop's list
and result are not bound again by a later step (`Accounted`). `Listed`, that every
collection is a list of records, needs a lemma on each primitive
(`PrimitiveLists`).

`RunKeepsRecords` proves `EveryRecordOnce`. Counting how often a record occurs
does not carry through a sort or a cut, positions do: `Lists(q, t, P)` says that
`q` holds the records of `t` at the positions `P`, through a bijection, and
`Parts` that several lists share out such a set. `Arranges` (ranks under an order
that is total on a finite set of positions are a bijection), `ChunkedCuts`,
`GroupCuts` and `BuiltCovers` take this from selection to the catalogs, and
`PartsHold` turns it back into numbers of occurrences. That a chunk keeps within
its budget is `DealtSoFar`, by induction over the records, with costs counted as
the size of a set of units (`Units`, `CostIs`). `BuiltInv` says that what is about
to be written is what `buildCatalogs` made of the last step's output.

`CatalogPublishProofs` proves `PublishInvariant`, `PublishTypeCorrect`,
`PublishAnswersAddUp`, `PublishIndexInvariant`, `PublishVersionsStable` and
`PublishAcceptedServed`, whatever requests run together and for any requests,
catalogs, bodies (about those catalogs: `BodiesAssumption`), keys and bounds.
`Booked` says what a request has in hand at each phase and that it was logged,
tombstones included. `OInv` adds that what a request has loaded is still what the
index holds (`Held`) and that the newest version logged is the one on the index
(`Newest`), both of the catalogs nobody has raced for; that what it plans comes of
what it loaded (`PlannedFrom`); and, of any catalog, that what was shown to it has
the registered key and at least its version (`Verified`), and that a tombstone is
never logged by a request that submits the catalog (`Truthful`).

Several invariants are proved and are not part of a run, because the theorems
cover every instance: `TypeOK` of seven modules, `RowConsistent`, `NoTwoOwners`,
`BudgetsKept`, `SettleRemovesRow`, `AddNeverRacesWait`,
`RecordedBeforeDelivered`, `OneFetchPerRef`, `FailureBlamesTheRightParty` and
`CapCountsLiveEntries`.

Only model-checked: the liveness properties, `Converges`, `EventuallyAbandoned`,
`EventuallyServed`, `ShutdownCompletes`, `RequestsAnswered` (of `ProviderCall` and
of `CatalogPublish`), `RunsEnd`, `PassEnds` and `PolicyCatchesUp`: the prover
handles neither fairness nor `ENABLED`. Every other property of a passing run is
stated by a theorem. The functions in the model that are defined by recursion are
proved about through `UpTo` and `Recursion`, since the library's induction
theorems take an operator as a parameter. The prover does not expand `@@`, so
`Produce` writes out the function it binds an output in.

## 6. Plan

1. More than one poll pass in flight in `CrawlQueue` (an on-demand crawl beside
   the scheduled one).
2. The order of the records inside a catalog: `Arranged` is proved to be a
   rearrangement, and that it is the sorted one is its definition.
3. The cron search `prevFiring` against its definition, over bounded calendars.
4. The payload store's transaction index with concurrent writers, once something
   reads it.

## 7. Not modelled

Formatting, logging, metrics and tracing; cryptographic arithmetic; JSON schema
matching (both schema validators, with the schema documents they hold), JSONata
and Rego evaluation; the expression language of pipelines beyond tests of one
field; parsing of YAML, cron and configuration; loading of plugins; the credential
validator (one pure check of one credential); the key managers and ciphers; the
registries without a state (`registry`, `dediregistry`); the options `DisableCache`
and `SkipSignatureVerification` of the manifest loader; the provider capability
steps, which build payloads for the path `ProviderCall` models; the behaviour of
the external services (registry, index hosts, other networks, discovery service,
`catalog-core`, PostgreSQL beyond the atomicity of one statement or transaction,
RabbitMQ, Redis) beyond what the code depends on.
