# A TLA+ model of atheros-search

This directory holds a formal model of the `atheros-search` service (Go, under
`src/atheros-search`): TLA+ modules for its concurrent core, TLC configurations
that check them on small instances, and TLAPS proofs of the most important
properties for every size. `PROJECT.json` maps each definition to the lines it
translates, and lists the runs, the seeded defects each property catches, the
hazards, the findings and the theorems.

    tlc -workers 2 -config EmbeddingJobs.cfg MCEmbeddingJobs
    tlapm EmbeddingJobsProofs.tla

## 1. The system

`atheros-search` answers hybrid (dense and keyword) search over documents that
another service, Octopus, writes into PostgreSQL. Octopus also creates a row in
`embedding_jobs` for each document text that needs a vector. A pool of workers in
this service leases those rows, has the texts embedded by a llama.cpp server, and
publishes the vectors. Around that core stand repair commands, health reporting,
saved views, annotations, reports, and a React console.

| Component (source) | State | Operations | What makes it hard | What makes it correct | Module |
|---|---|---|---|---|---|
| Embedding job queue, worker pool (`internal/worker`) | `embedding_jobs` rows with lease token, fence, expiry, attempts; two vector tables; per worker its batch | claim, embed a kind group, complete in one transaction, fall back to one job at a time, fail, defer, renew, recover | workers, renewers, the recovery loop and Octopus interleave; leases expire during work; crashes; commits whose answer is lost; deadlock victims | a lease has one owner; only current texts get vectors; finished rows stay; each lease ends | `EmbeddingJobs`, `JobLedger` |
| Circuit breaker per lane (`embed/circuit.go`) | state, failure count, backoff, open window, probe slot | admit, record, releaseProbe, State | outcomes of calls admitted in an earlier state | the probe slot is not leaked; fields stay consistent | `Circuit` |
| Request scheduler (`embed/scheduler.go`) | two semaphores, four counters | Acquire per lane, release | two resources taken in turn, cancellation at each wait | permits conserved; queries keep their share; waits end | `Scheduler` |
| Embedding HTTP client (`embed/client.go`) | requests of one call, pool, shared cancellation | pack, send, associate, pool | first error cancels siblings; responses in any order; handing out work while goroutines end | vectors return to their own texts; the cause is reported; the call returns | `EmbedInputs` |
| Tokenizer preflight (`embed/preflight.go`) and its metric (`metrics.go`, `app.go`) | state, delay; four metric series | Run, observer, periodic publisher | two writers of one metric, backoff | the claim gate follows the backend; the metric settles | `Preflight` |
| Repair command (`app/repair/repair.go`) | none of its own | reset-stale, retry-failed, cancel-superseded, cancel-orphaned, proxy-reconcile | runs against the live queue, selects before it locks | undoes no finished work | `EmbeddingRepair` |
| Repair campaigns (`app/repair/scoped.go`) | progress row (cursor), receipts | one page | concurrent invocations, pages that fail half way, headroom shared with Octopus | nothing skipped, nothing repaired twice, headroom kept | `ProxyCampaign` |
| ETL health snapshot (`etlhealth/health.go`) | cached snapshot, refresh flag, channel | Snapshot, refresh, observer | one shared background refresh, lost wakeups, double close | one refresh at a time, answers never older | `HealthMonitor` |
| Query vector cache (`embed/cache.go`) | entries and their LRU order | Get, Put | misses of one text overlap, expiry, capacity | bounded, no expired answer, least recently used dropped | `QueryCache` |
| Upstream probes (`operations/upstream.go`) | cached sample, baseline, rates, waiters of the first fetch | read, refresh, validate, observe, show | a refresh outlives its request; several instances, counters that start over | rates belong to the sample shown, waiters are woken | `Upstream` |
| Readiness (`health/ready.go`) | the error kept while waiting; cached counts | WaitForSchemaReady, Check | deadlines cut polls short, concurrent checks | the cause is reported, failed counts are not cached | `Readiness` |
| Authentication (`auth/auth.go`) | key cache with expiry, record of missing keys, refresh lock | verify, look up, record a miss, refresh | keys rotate while requests overlap | no decision under a withdrawn key once its lifetime is over, fetches kept apart | `KeyStore` |
| Saved views (`savedviews`) | rows with revisions, limit lock | create, update, delete | per-owner limit and unique names under concurrent edits | limit and names hold, no lost update | `SavedViews` |
| Annotations, merge decisions (`assets`) | rows with revisions, audit | annotate, decide | first writes lock nothing | no lost update, decisions final | `AssetReviews` |
| Search service (`search`) | one request | embed, dense and sparse query, coverage, fusion, fallback | one leg fails, rows change between legs | the leg that answered is named, results are those of the legs, in order | `SearchService` |
| Record context, investigations (`search/record_context.go`, `reporting/investigation_*.go`) | one request and its snapshot | up to seven statements | evidence arrives and expires meanwhile, four limits | parts agree, proximity is corroborated, activity is exact | `Investigation` |
| Graph (`reporting/graph_*.go`, `network.go`) | one request, a walk with two cursors | pages, tree, cut graph, neighbourhood | nodes and edges change apart, limits cut both | responses closed, walks complete, a shortest-path forest | `GraphReport` |
| Paged reports (`reporting/inventory_*.go`, `network.go`, `assets/entities.go`) | the cursor a client holds | page, attach candidates, list | ties, NULLs, rows that move between pages | nothing that stayed is missed or shown twice | `PagedReports` |
| Dedup client, configuration, transport, UI | mostly per request | | | | see section 8 |

How they interact: a worker's batch calls the lane client, which asks the
`Circuit` and then `HTTPClient.Embed` (`EmbedInputs`), whose requests each
acquire a `Scheduler` slot; the same slots serve queries. `Preflight` gates
claiming (`ClaimGate`), and an open breaker makes a claimed batch go back deferred. The queue's rows are shared with Octopus and
the repair commands through PostgreSQL only; there the protocol is token, fence,
row locks, per-source advisory locks and one queue lock. `HealthMonitor` and the
gauge publisher read the rows and publish metrics. A request passes `KeyStore`
(`registerJSONRoles`) and then one of the handlers; those share tables with each other
and with the projections of Octopus, and no memory but the caches: search asks the
`QueryCache` before the lane client, readiness and the operations view share their
refreshes between requests.

## 2. Modules and how they correspond to the code

**EmbeddingJobs.** One action is one statement or transaction of `worker.go`,
`lease.go` and `scope.go`. The completion transaction is split where it can wait
or be overtaken: `LockSource` (the advisory lock, which is *selected from the
document row*, so a missing row locks nothing), `WriteCompletion` (document and
lease rechecked, vector and row written), `CommitStore` (everything becomes
visible), with `AbortStore` (failed check, database error, deadlock victim) and
`CommitUnacknowledged` (the commit takes effect, its answer is lost) beside it. A
batched transaction that fails leaves its group to `BeginOne`, the per-job
fallback. `Crash` drops a worker's local state and its open transaction. `Tick`,
`Renew` and `Recover` are the database clock, `renewLeases` and
`recoverExpiredLeases`. Octopus (external) updates, supersedes, deletes and
inserts documents under the source lock. Texts are members of a small set, and a
text stands for its own SHA-256; a stored checksum may differ from its text. A
lease token (a fresh UUID per claim) is the number of the fence minted with it.
When a row is due (`next_attempt_at`) is left open, so every retry delay is
covered. Row locks are implied by `written`: a row rewritten by an open
transaction is passed over by recovery (SKIP LOCKED) and waited for by others.

**JobLedger** is the abstract specification: jobs with a status, documents with a
published vector in each table; one step moves statuses along the legal edges or
completes a set of jobs together with their vectors. `ImplementsLedger` says the
queue is such a ledger under the mapping `status <- rows[j].status`,
`published <- ` checksum in `embeddings`, `byKind <- ` checksum in the kind's table.

**EmbeddingRepair** extends EmbeddingJobs with the repair commands. Statements that
lock the rows they choose are one action. The cancel statements choose rows in a
CTE without locking and update by id: `SelectSuperseded`/`SelectOrphaned`, then
`CancelTargets`. Which documents are of a proxy source kind is chosen initially.

**ProxyCampaign** models `repairProxyPage` with apply: `BeginPage` (progress row
locked), `ScanPage`, `AdmitPage` (queue lock, headroom), `RetryOne` (recheck under
the source lock), `CommitPage` (reopenings, receipts and cursor), `AbortPage`
(rollback at any point). Workers are summarised by `Work`, later writers of vectors
by `LoseVector`, Octopus by `Enqueue`; these three are external to the file. `Work` takes a job
only while it has attempts left, as the claim does.

**Circuit** has one action per critical section of the breaker's mutex;
`LaneClient.call` is admit, outcome, and for neutral outcomes a separate
`ReleaseProbe`. **Scheduler** has one action per channel operation and per critical
section of the counters. **EmbedInputs** is `embedInputs`: packing, the unbuffered
job channel, the pool, the error channel of capacity one, cancellation, and the
association of response items by index; vectors are named by the chunk they
describe. **Preflight** is `Run`/`runOnce`/`nextSleep` beside the gauge publisher;
each `Set` of a series is a step. **HealthMonitor** is `Snapshot`/`refresh`; snapshots
are numbered by the refresh that measured them.

**KeyStore** is `jwtVerifier`: a request reads the clock once, looks its key up under the
read lock, records a miss in a bounded table, and queues for `refreshMu`, where it looks
again before it fetches. The provider's answer (`Answered`) and the store under the write
lock (`Fetched`) are two steps, for the download takes time. A fetch that fails leaves
`lastRefresh` as it was, so everyone who waits for `refreshMu` asks the provider again in
turn; `FetchesApart` speaks of fetches that get keys. A token is its key id, its roles and
whether signature and claims hold. **SavedViews** and **AssetReviews** have one action per SQL statement at READ
COMMITTED, with the row locks of `FOR UPDATE`, the advisory lock of a create, the unique
keys a transaction holds until it ends, and a rollback between any two statements.
The unique index on names and the key of the audit table are external: they belong to
the pipeline's schema, and two *first* writes of an annotation are kept apart by that key
alone (both find no row to lock).

**SearchService** is `Search`: embedding, dense leg, coverage check, sparse leg and fusion
with every early return and fallback, the report that cannot be encoded included. A query asks
for the overfetch, at most `MaxOverfetch` rows (5000 in the code); in the run no
kind has more documents than the cap, and the theorem is about any cap. Rows may be retired, indexed and embedded between
the legs. Scores are small grades, and the reciprocal ranks of `Fuse` are exact integers over
a common denominator. **Investigation** holds both readers of retained evidence, which
share the roster and link statements; each statement is an action on the snapshot of a
REPEATABLE READ transaction, and the record context resolves its document before that
snapshot. Only the first page of evidence is modelled. The peak of the activity is found as in
the code, in a loop over the buckets that compares rates *rounded to hundredths* with a strict `>` from zero: of
buckets whose rates round alike the first is the peak, and there is none when all round to
zero. The rounding is exact here; the code rounds a binary fraction, which may fall either way when a rate
lies exactly between two hundredths.

**GraphReport** has the four ways the graph is served. Nodes and edges are numbers in the
order of their ids; where the code orders by an attribute (`observed_at` of the unpaged
graph; authorisation and the last observation when a default root is chosen) the order of ids stands for it, and a filter on kinds of edges is a table without the
others. `buildPresentationTree` works on what has been read, one step for each root (`VisitRoot`), each node
found from the head of the queue (`Discover`) and each node that leaves it (`Explored`); the result is
compared with shortest distances in the graph returned. **PagedReports** has the `ORDER BY` of each report (as
a key) and, apart from it as in the code, the `WHERE` clause that continues after a
cursor; `WalkComplete` compares the two over walks in which rows change. Devices may have no `last_seen`:
the table shows them first, and a page but the last that would end in one dereferences a nil time
(`Panic`), which ends the walk. A page of the inventory graph is a response with the page's rows and with
the other device of each merge candidate (`Attach`), which has its own page later; `given` holds the rows,
`responses` all that each response brought, and `ShownOnce` says how the two relate.

**Upstream** has one action per critical section of the reader's two mutexes and one for the
fetch between them; **Readiness** has the start-up wait, with the caller's cancellation, and the checks: those that fail before
they count and the counts they share; **QueryCache**
has Get, the backend call outside the mutex, and Put; its list is a sequence of entries, an entry removed and
put back at the front where the code moves a list element.

**MCLanes, MCCaches, MCRequests** each hold several components that share no state. Which
one a behaviour is about is chosen at the start (`part`), so a run visits the sum of their
state spaces, and properties speak of the part at hand. Variables of the other parts keep
their first value; in MCRequests, where parts would multiply the initial states, they
are "off".

Definitions commented "Wrong:" are seeded defects. No action uses them; each stands
for a plausible mistake in the definition it precedes and shows which property
would notice (`mutants` in `PROJECT.json`).

## 3. Runs

| Run | Instance | States | Checks |
|---|---|---|---|
| `jobs` | 2 workers, 2 jobs of 2 documents and one kind, batch 2, 2 attempts, 2 claims per job, lease of 1 tick | 1.3 M | types, `QueueSafe` (`LeaseExclusive`, `WrittenStillLeased`, `CompletedHasVector`, `AttemptBudget`), `ImplementsLedger` |
| `jobs_live` | 2 workers, 1 job, 2 texts, reinsertion, 3 claims, lease of 2 ticks | 56 k | `LeaseReleased`, `OrphanRetired` |
| `jobs_scoped` | as before with source kinds configured | | finds `OrphanRetired` violated (finding 1) |
| `circuit_release` | 3 calls, limit 1 | | finds `ClosedCallReleasesNothing` violated (finding 2) |
| `repair` | 1 worker, 2 jobs for 2 texts of one document, 3 attempts and claims | 1.9 M | `WrittenStillLeased`, `FreshVectorWrites`, `ReopenedRightly` (`OnlyMissingReopened`, `CancelledForGood`) |
| `repair_cancel` | 1 worker, 1 job of a document that may be inactive at first | | finds `FinishedNotCancelled` violated (finding 3) |
| `campaign` | 2 invocations, a missing-vector and a reviewed-failure campaign, 3 old jobs and 1 new, pages of 2 | 6.7 M | types, `HeadroomKept`, `EachJobOnce` (`NothingSkipped`, `OncePerCampaign`) |
| `lanes` | breaker: 3 calls, limit 2, windows 2, 4, 5; scheduler: 2 queries, 2 workers, 2 slots, reservation clamped to 1; preflight: delays 1, 2, 4, 5, success interval 5 | 7.1 k | types, `ProbeSlotNotLeaked`, `CircuitProgress`, `SlotsAccounted` (`PermitsConserved`, `ReservedForQueries`), `WaitEnds`, `GateFollowsBackend`, `MetricSettles` |
| `embed` | up to 2 texts of 2 chunks, token counts 0, 1, 3, 4, packing budget 2, request limit 3, pool of 2 | 215 k | types, `PackedAndPooled` (`PackedWithinLimit`, `PooledFromOwnChunks`), `RootCauseReported`, `EmbedReturns` |
| `caches` | health: 2 callers, 4 calls; proxy: 2 readers, 5 samples of 2 instances; readiness: 2 checks, 2 polls, a caller who may cancel; vectors: 2 clients, 3 texts, capacity 2 | 493 k | types, `RefreshesSound` (`OneRefresh`, `GaugesBeforeWakeup`), `SnapshotsMonotone`, `RatesOfShown`, `ReadinessHonest`, `CacheSound`, `SharedWaitEnds` |
| `requests` | keys: 2 requests, 2 keys; views: 2 requests, 3 names, limit 2; reviews: 2 reviewers, 1 asset, 1 candidate; search: 3 documents, 2 kinds; investigation: 2 devices, 2 access points, 2 sensors, 2 windows, 4 summaries; pages: 3 rows that tie, some without a time; graph: 5 nodes, 6 edges on a cycle | 4.0 M | types, `HandledKeyRecent`, `FetchesApart`, `WithinLimit`, `NoLostUpdate`, `DecisionsFinal`, `SearchSound`, `AnswersConsistent`, `PagesSound`, `GraphSound`, `TreeSound` |
| `node_budget` | 2 devices, 1 access point, node limits 1 and 3 | | finds `NodeBudget` violated (finding 4) |

Why the bounds are enough for the cases meant:

* The `repair` run includes every step of the queue, and so checks `FreshVectorWrites`
  for the queue alone as well.
* Two workers and two claims per job give the interleaving every lease protocol
  must survive: claim, expiry, recovery, second claim, late statement of the first
  owner. Both jobs are of one kind, so a batch of two is one group and one completion
  transaction holds both: it locks, writes and fails with one row written and the other
  not. Two transactions that wait for each other crosswise would need four jobs, as claims
  exclude each other; the model has what PostgreSQL makes of such a deadlock, a victim that
  rolls back at any statement (`AbortStore`). Batches of several kind groups are left to
  the proofs. Changes of a document's *text* are covered
  by `repair` (two jobs for two texts) and `jobs_live`; in `jobs` a document is
  superseded, activated again or deleted. The proofs remove all these bounds but
  one: `MaxFence` and the rest are arbitrary constants there.
* `MaxFence` bounds how often a job is claimed. A behaviour that has used all claims
  stops, which is why the queue configurations switch deadlock checking off, and why
  `OrphanRetired` only speaks of jobs that may still be claimed.
* Three calls of the breaker in `lanes` are a probe, a call left over from the closed state, and
  one more to be admitted; the window bound cuts the second doubling.
* The scheduler in `lanes` has one query more than the reservation and one worker more than its
  share, so that each kind of wait happens.
* `campaign` has more jobs than a page, a job created after the cutoff, a job whose
  vector may be lost again (`LossyJobs`), and headroom for fewer jobs than a page.
  Invocations may all end for good, so deadlock checking is off.
* For the health monitor in `caches` the number of calls is bounded (`MaxCalls`); a call starts at most two
  refreshes, so the refreshes are not bounded further. `embed` models one call, which
  ends. Both switch deadlock checking off for that reason, and so does `requests`, where
  clocks, revisions and ids reach their bounds and a walk over pages ends.
* The proxy's samples include two of one instance, one whose counter went back, one of
  another instance between them and one dated in the future, in any order.
* A walk over three rows with pages of one and two has a boundary inside every tie; one row
  changes between its pages (`MaxChanges`), in every way its report can tell. The
  graph's cycle has a node reached along two paths, its starts every subset of edges and
  tables with missing endpoints; limits of three and five cut it or do not.
* In an investigation two devices may share none, one or two sensors and windows, so that
  each side of `QualifiesRFOverlap` happens; node limits of one and three cut the roster or do
  not; one row arrives or expires between any two statements.
* `MaxPerUser` 2 with 3 names and 3 ids lets two creates meet at the last free place.
* Symmetry is used for workers (`jobs`) and invocations (`campaign`), which no
  definition tells apart, and only where no liveness is checked.

## 4. Fairness

* `EmbeddingJobs`: statements of a batch return, the clock advances, the recovery
  ticker fires. The pool sets no statement timeout, so the first is an assumption about
  PostgreSQL, which answers, breaks the connection, or resolves a deadlock by choosing a
  victim (`AbortStore`); embedding calls have an HTTP timeout. Crashes are not fair and
  never required. `PollingSpec`, used for `OrphanRetired`, adds that idle workers keep
  polling. Renewal is not assumed.
* `Circuit`: calls end (HTTP and context timeouts), time passes, and the gauge
  publisher reads `State` every few seconds.
* `Scheduler`: holders release (deferred in the callers). Taking a slot is *strongly*
  fair: Go's channels serve blocked senders in FIFO order, so a goroutine that waits
  while slots are freed again and again gets one. Cancellation is never assumed.
* `HealthMonitor` and `Upstream`: goroutines run, and the refresh has a timeout; it ends
  whether or not the request that began it is still there, and who has been woken goes on. `Preflight`: both
  goroutines run, timers fire; nothing is assumed of the backend. `EmbedInputs`: caller
  and pool run, HTTP requests end.

## 5. Proofs

All theorems hold for arbitrary constants that satisfy the named assumptions of the
modules. Most only type the configuration (`JobAssumption`, `BoundAssumption`,
`CircuitAssumption`, `CallerAssumption`, `SlotAssumption`, `MonitorAssumption`,
`CampaignAssumption`, `EmbedAssumption`, `PreflightAssumption`, `ViewAssumption`, `ReviewAssumption`,
`CacheAssumption`). `PageAssumption` adds that a page has at least one row, `SearchAssumption` that the kinds of a
search are distinct and at least one and that the denominator is a multiple of every rank's divisor (so that
the reciprocal ranks are exact), `InvestigationAssumption` that the sets of devices, access points and
windows are finite and a bucket is not empty. `KeyAssumption` adds that the cooldown of the key store is not longer
than the lifetime of its keys, as in the code (30 seconds and 5 minutes), and
`GraphAssumption` that a graph is finite, the ends of an edge have ids and a limit is not zero
(`NormalizeGraphFilters` replaces such limits).
What a composed module does is proved there: `LanesProofs` extends `MCLanes`, `CachesProofs` extends `MCCaches`,
and `RequestsProofs`, `ReportsProofs` and `ListsProofs` extend `MCRequests`, so that a theorem and the run name
the same definition. Values that only the instance checked has (`MCSamples`, `MCEdges` and the
like) are constants of those modules.

**EmbeddingJobsProofs.** `TypeCorrect` first. `LeaseExclusive` is not inductive: two
claims on a row could carry the same fence for all it says. The invariant `LeaseInv`
adds that the parts of a batch lie within it and an open transaction only exists while
storing (`WithinBatch`), that every claim's token and fence were minted together, not
later than the row's fence, for the text of the job (`ClaimsMinted`), that two workers
never hold claims with the same fence (`ClaimsUnique`), and that written rows still
carry their lease (`WrittenStillLeased`). From it follow `LeaseExclusion` and
`CompletionUnderLease`. The lemma `RowSteps` says what one step may do to one row
(`RowStep`); `TerminalRowsStable` and `RetryBudget` rest on it. `VectorInv` (both
tables equal; completed implies a vector) gives `CompletedWithVector`. `SourceInv`
(source locks exclude; a written claim's document is locked and current) gives
`VectorsFresh`: **if deleted document ids are not inserted again**, a published vector
describes the document as it is at the commit. Without that premise it fails in the
model, because a missing document row locks nothing; whether Octopus ever reuses an id
is outside this repository. `QueueImplementsLedger` is the refinement: initial states
map to initial states (rows start pending, without vectors), and every step maps to a
ledger step or a stutter (`StatusMoves`, `CommitPublishes`). `QueueIsSafe` puts the state
invariants together as the `jobs` run checks them.

The same module proves the queue *while the repair commands run* (`EmbeddingRepair`). `RepairInv` is the
queue's own invariants kept under every command: a command passes over or waits for rows an open transaction
has written, takes the lease of a row it resets or cancels, and mints no fence, so that claims taken before it
keep their place or fail their recheck. It adds `KindInv`: a claimed or completed job has the kind of its
document, because `proxy-reconcile` reopens completed jobs by the document's kind alone. From it
`RepairedQueueIsSafe`, `CompletionUnderRepair`, `RepairsReopenRightly` and, without reinsertion, `VectorsFreshUnderRepair`.

**ProxyCampaignProofs.** `HeadroomKept` and `EachJobOnce` rest on `CampaignInv`: one invocation
holds a campaign's progress row (`Exclusive`); its page is an initial part of the jobs
in scope after the cursor it locked (`PageFollowsCursor`); with the queue lock held, what it will still reopen fits under the
high-water mark (`PageFits`); receipts lie behind the cursor (`ReceiptsBehind`),
and a job of a page that lacks its vector awaits its second look or has been reopened (`NothingOverlooked`). The last needs
that workers take only jobs with attempts left (`lease.go:25`), which is a guard of `Work`.

**LanesProofs.** *Breaker* (`StateMatchesFailures` and `BackoffGrows` are proved only): the conjunction of
types, `StateMatchesFailures` and `ProbeSlotNotLeaked` is inductive, for late outcomes keep
count and state in step because recording stops counting at the limit. `BackoffNeverShrinks` uses the
lemma `Windows` on the doubling. *Scheduler:* `PermitsConserved` counts callers at program points; it is
inductive with types and the fact that only workers are at worker points (`PermitInv`). The lemmas
`SlotHolderMoves`, `WorkerSlotKept` and `CountMoves` say how a move changes a set of holders and its cardinality.
`SlotsAccounted` follows: at most `WorkerMax` workers hold a worker permit, and who holds a slot
on the worker lane holds one. *Preflight:* `GateInv` says that `Run` waits while its observer publishes the state just
recorded, and that after a check the delay is the success interval or lies between the first retry delay and its bound; `PreflightPaced` (`RunPaced`, proved only) follows.
`LanesInv` puts the three parts together, with the types.

**EmbedInputsProofs.** The requests packed so far tile the chunks before `first` (`Tiled`), and one
in hand is within the limits (`InHand`); every request handed out is at work, answered, or behind an
error; and nobody is cancelled by the call before the cause is in the error channel. From these follow
`RootCauseReported` and, with the association of a response's items being the identity when it is
accepted (a pigeonhole argument), `PackedAndPooled`. Offsets and weights are running sums; that
the recursive functions exist and are what they say is itself proved (`RunningSum`), by
the smallest length for which they would not.

**CachesProofs.** *Health:* `OneRefresh` needs the order of refreshes (`Numbered`):
nothing newer than the latest channel has started, a querying refresh is newer than the
cache. `AnswersNeverOlder` follows from the same. `WokenAfterGauges` adds `Published`:
at the observer the refresh's snapshot is the cached one, and afterwards the gauges are.
`RefreshesAreSound` puts both together; `CachedRefreshesSound` and `CachedSnapshotsMonotone` carry them to
the composed module of the `caches` run. *Proxies:* rates that are kept lead to the baseline from an earlier
sample of the same instance with no larger counts (`RatesToLast`), and a request takes sample and rates in
one critical section; hence `RatesOfShown` for any samples in any order. *Readiness:* the error kept
while waiting is one of the database exactly when no answer came after it (`WaitInv`), counts are those of the table when they
were read (`CountsRead`), and who counts holds the lock and reads no less than the cache holds (`ProbesRead`). *Vectors:* every entry has been used and expires at most a lifetime from
now (`EntriesPut`), which with types makes `CacheSound` inductive; the lemmas `Removed`, `LeftInOrder`, `FrontKept` and
`CutKept` say what taking an entry out, moving it to the front and dropping the last do to a list.

**RequestsProofs.** *Keys:* all cached keys were served by the last fetch and expire with it
(`CacheServed`); who fetches or stores is alone and a cooldown away from the last stored fetch, hence
`SuccessfulFetchesApart`; who looks again does so
within the lifetime (`RefreshSerial`). *Views:* past its first statement a create holds its owner's lock,
an update its row at the revision expected (`ViewLocked`), and a name written is reserved (`NameReserved`).
*Reviews:* the same for annotations (`ReviewLocked`), with the first write reserved by the audit
table's key (`FirstAudited`) instead of a row lock, and a candidate with a decision has its status (`DecidedOnce`).

**ReportsProofs.** `GraphSound` for any graph. What the two cursors of a walk have passed has been delivered, and
the edges delivered lie behind the edge cursor (`Behind`); the rows a page has read are the first of
what was ahead (`NodesRead`, `EdgesRead`). `LeastKept` says what a `LIMIT` in the order of ids keeps, `PageAhead` that
the next cursor passes exactly what the page shows, `ListOfSet` and `ListsJoined` that a page adds
each of its edges once. The nodes of a tree are nodes because edges lead to nodes (`SpreadWithin`,
by the shortest walk that would leave them). The budget of a neighbourhood is a sum of cardinalities.

`TreeSound` is the correctness of breadth-first search, for any graph. While a forest grows (`ForestOk`) a node
that is no root hangs by a tree edge from one a level above (`Hanging`), each such node has its own tree edge (`EdgesCounted`), the queue
holds nodes of one level and then of the next (`QueueLevel`), and a node that has left it has all its neighbours placed,
at most one level below, and none still waiting above it (`LeftComplete`). When the queue runs empty, what
has been placed is a set no association leaves, which keeps the next root apart from the earlier ones (`RootsApart`). In a
complete forest neighbours differ by at most one level and everything hangs from the level above, so the depth of
a node is its distance from the roots (`DepthIsDistance`). That an answer not truncated shows the root's
component rests on counting (all selected nodes were returned) and on `NothingMissed`.

*Investigations:* every part of an answer is a function of the one snapshot and of the parts read before it
(`InvestigationInv`), hence `AnswersConsistent`. The peak is the first of the highest rounded rate among the buckets
summed so far, which come before those left. `PlacesTaken` and `LimitKeeps` say that the rank of
an element is its place in an ordered list and what a `LIMIT` keeps; sums are cardinalities of counted items, regrouped by
`SumOfGroups`; `BucketCovers` is the arithmetic of a bucket.

**ListsProofs.** *Pages:* an `ORDER BY` is the number of rows before a row, so a sorted list of a finite set exists and shows each
element once. The clause of the next page and the order are separate definitions, as in the code; that the clause selects
exactly the rows after the cursor is proved for each report. `PagesInv` then says that a row that stayed is shown or
still ahead, and rows shown come before the cursor; devices a candidate brought along are larger than a row of their
response, so they come before their own page or on it. *Search:* a leg holds each document once since a kind is read
once; shares of a rank fall strictly because ranks divide the denominator; the stable sort and the cuts keep both
(`SearchInv`). `SearchIsSound` follows, and `RequestsWellTyped` from the three invariants of the request handlers together.

Every invariant and every action property of the passing runs is stated by a theorem. Only model-checked: what
must eventually happen (fairness and `ENABLED` are beyond the prover) and the four runs that show a
disagreement. Definitions that are proved about contain no recursive operator, and no fold or `SortSeq`: what those
compute is an induction over data that the provers cannot instantiate. Where the code sorts, the model
takes the element with so many before it; where it loops over a queue, the model takes a step.

## 6. Findings

1. *Orphaned jobs in a scoped pool* (`jobs_scoped`). With source kinds configured the
   claim query needs the document row, so jobs whose document is gone stay pending for
   ever; `repair.go:409-413` says the claim path cancels them.
2. *Probe slot freed by another call* (`circuit_release`). A call admitted while the
   breaker was closed that is cancelled in the half-open state frees the running probe's
   slot; `circuit.go:170-174` says such a call changes nothing. The slot is never leaked;
   a second probe is admitted.
3. *Finished jobs cancelled* (`repair_cancel`). The cancel commands overwrite a job that
   completed after they chose it. In the trace `cancel-superseded` chooses a job whose document is
   not active, the document is made active again, a worker claims and completes the job, and the
   update, by `job_id` alone, marks the completed row cancelled; `scripts/README.md:48-49` says it
   cancels pending and leased jobs of documents that are not active.

4. *More nodes than the budget* (`node_budget`). An investigation's roster is limited to
   `node_limit` rows and each brings a device and an access point;
   `investigation_queries.go:54-56` calls the node budget authoritative.

Three smaller disagreements were seen in the same models. `health.go:220-221` says no
caller races with gauge publication: a caller answered from the cache may, one who waited
for the refresh does not (`GaugesBeforeWakeup`). `preflight.go:29` calls
`PreflightRetryInterval` the delay before the first retry: after a success the first
failure waits the maximum delay, since `nextDelay` still holds the success interval.
`metrics.go:243` says exactly one preflight state is published: two interleaved calls can
leave two series at 1 until the next publication (`MetricSettles` is what holds).

Observed while modelling, without a statement they contradict: the final sort of `Search`
discards the recency order `Sparse` gives to ties; the link limit of the RF similarity query
applies before `QualifiesRFOverlap`, so a qualifying pair can be hidden behind ones that do
not qualify (`ProximityCorroborated` speaks of investigations that looked at all pairs);
`inventoryTablePage` dereferences `LastSeen` of the last row without a check for NULL (`Panic`); a failed
fetch of the key set starts no cooldown; cancelling the start-up hides the database error met before;
`focusGraphAroundMAC` and `QueryCache.InvalidateKind` have no callers.

## 7. Plan

Done: the queue with its abstract specification, the repair commands composed with it,
the campaigns, breaker, scheduler, embedding call, preflight and health snapshot; the
caches, the key store, views and reviews, search, record context and investigations, the graph and the
paged reports.

The proofs cover every safety property the passing runs check.

What could be added, in this order:

1. `EmbedLane`: composition of `Circuit`, `EmbedInputs` and `Scheduler` as `LaneClient`
   composes them.
2. Chunking (`tokens.go:61-164`) against a reference definition.

## 8. Not modelled

* Heartbeat rows of the pool (`runHeartbeat`): written, never read by the queue.
* Retry delays and jitter: any delay is allowed instead.
* Request decoding, configuration, tracing, tokenising and vector arithmetic, and the
  display of results: no state that changes between steps, or data TLC cannot tell apart.
* Totals and review counts of the inventory, `PairDetail`, `Explain` and later pages of
  evidence: single statements over one snapshot.
* The statistics reader of the operations view: it uses the snapshot reader of `Upstream`
  and derives nothing from successive samples.
* The dedup and data-quality client: every call is one request to a manager outside this
  repository; nothing is retried or remembered here.
* Reinsertion of a deleted document id under an open completion (`scope.go:58`): the model has it
  (`Reinsertion`), and `FreshVectorWrites` is checked and proved without it.
* `status` and inspection modes of the repair command, and the schema gate: they only read.
* The migrations and Octopus itself are not in this repository; constraints the code
  relies on are modelled from its statements and marked external.
* Generated protobuf code, assets and the UI. Its walk over pages is the client of
  `PagedReports` and `GraphReport`.
