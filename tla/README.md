# Verification of prometheus_exporters

TLA+ models, TLC runs and TLAPS proofs kept beside the Go sources of
`prometheus_exporters`. Paths below are relative to the repository.

## 1. The system

The repository builds seven exporters. Two of them keep state and run loops of
their own (github, cloudflare), one is a concurrent proxy (relay), one library
holds a lease (secrets/openbao), the others read the host when Prometheus asks
and remember nothing, or next to nothing.

| component | state it keeps | operations | talks to |
|---|---|---|---|
| github poller (`src/github/poller.go`) | ticker, job budget of a cycle | poll: repositories, pull requests, commits, tags, first page of runs, jobs of changed runs | client, store |
| github backfiller (`src/github/backfill.go`) | rotation and cursor over repositories | one request a tick: jobs of one run, else one page of history | client, store |
| github client (`src/github/client.go`) | ETag map, remaining quota | Get: conditional request, 403 classification and retry | GitHub |
| github database (`src/github/db`) | runs, jobs, marks, progress, rollups | upserts, work queue, prune with rollup, migrations | PostgreSQL |
| cloudflare governor (`internal/governor`) | five-minute cost window, server's remaining, retry-after | Allow, Record, UpdateFromHeaders, HandleRetryAfter | scheduler |
| cloudflare scheduler (`internal/scheduler`) | collectors and their cancel functions, wait group | Register, Deregister, Start, StartCollector, Stop, the tick | governor, collectors |
| cloudflare counters (`internal/store`, `collector.CalculateWindow`) | totals per series, windows already added | Add, Get, GetAll, Prune, Reset | collectors, prune loop |
| cloudflare discovery (`internal/discovery`) | capability matrix | four stages, settings, introspection | main, server |
| cloudflare snapshots (REST collectors in `internal/collector`) | the series of the last collection, per collector | Collect, swap under a lock | API, scrapes |
| cloudflare self metrics (`internal/collector/metrics.go`) | last success per collector, gauges | success, error, shed | scheduler callbacks |
| github token (`src/github/auth.go`) | token and its believed expiry, the library's own cache | Token | client |
| cloudflare process (`cmd/cloudflare_exporter`) | context, server, token, loops | run, signal, Shutdown, deferred calls, re-discovery, pruning | all of the above |
| relay exporter (`cmd/relay_exporter`) | semaphore of concurrent relays | proxyHandler, run | target exporters |
| OpenBao client (`src/secrets/openbao.go`) | token, renewal goroutine | login, renew loop, ReadSecret, Close | OpenBao |
| openbao exporter (`src/collector/openbao`) | peers, native metrics, both shared by overlapping scrapes | Collect, discover | OpenBao |
| firewall collector | one latch, set when it starts | Collect | netlink |
| libvirt, ipsec and other network collectors | none between scrapes | Collect | kernel, sockets, libvirtd, charon |

What is hard here: two goroutines work on the same database rows and share an
ETag cache without a lock around the whole operation; an ETag makes the answer
of a retried request depend on whether an earlier one was *answered*, not on
whether it was *stored*; a governor is asked before a collection and told after
it; windows of counters are derived from the clock and added to totals that can
never go down; loops are started, stopped and re-registered at run time; the
process dies between any two SQL statements; a trigger moves expired rows to
rollups in a transaction that sees a snapshot of its own; the host changes
between two reads of one scrape. The full list is in
`PROJECT.json` under `hazards`, each at its line.

What would make each component correct: jobs are marked as synced only when
they are stored; the walk through history ends, and nothing deferred is lost
(github); the cost of a five-minute window stays under the ceiling and a
throttled governor recovers (governor); a stopped scheduler stops
(scheduler); each minute is counted once (counters); a discovered state is the
outcome of the last probe (discovery); a permit of the relay is returned on
every path (relay); an expired token is replaced (OpenBao, github); a run is in
the raw table or in its daily row, never in neither or in both (retention); what
a scrape sends belongs together (host collectors).

## 2. Modules

### GithubJobSync -- runs and jobs of one repository

Two workers share `pageTag`, `jobsTag` (the ETag map) and the tables `row`,
`jobs`, `synced`, `progress`. A run is its number and the version of its last
update (its `updated_at`, the SyncKey); a job of a run is the version of the
answer it was last written from, and a run has `JobsPerRun` of them.

| action | code |
|---|---|
| `Poll`, `ReceivePage`, `UpsertWorkflowRuns`, `SelectRunsForJobFetch`, `FetchNextRun` | `poller.go` `poll`, `collectWorkflows` |
| `ReceiveJobs`, `UpsertWorkflowJobs`, `MarkJobsSynced` | `fetchJobsForRun` and `stepJobs`, which make the same calls |
| `PickRun`, `AskJobs` | `backfill.go` `stepJobs` |
| `PickPage`, `AskPage`, `SaveBackfillProgress` | `backfill.go` `stepRunsPage` |
| `RequestPage`, `RecordPageTag`, `RecordJobsTag` | `client.go` `Get` |
| `Crash` | the process dies: locals and ETags go, the database stays |
| `NewDay` | midnight changes the `created>=` parameter of every page URL |
| `UpdateRun` | GitHub |

Every HTTP request is two steps (the answer is formed, the client receives it)
and every SQL statement is one. The upserts of a batch are a loop of one
autocommitted statement for each row (`db/bulk.go:19`): `unsaved` is what a worker
has still to write of its page, or of the jobs it was answered, and a step of the
other worker or a crash may fall between two rows. A batch that breaks off leaves
the rows it has written, so the jobs of two versions side by side.
`Fault(kind)` adds a lost answer (`transport`), a body that breaks off after the
header with the ETag (`body`), a failed statement (`storage`), which ends its
batch, a crash or an emptied ETag map (`evict`), at most `MaxFaults` times. `Poison` is the set of
runs whose jobs request GitHub refuses every time.

Abstractions. One repository; the rotation over repositories, the quota
headroom and the repository list are not in this module: a poll finds any part
of its job budget left by the repositories before this one. All runs are inside
the retention horizon. The look-up of an ETag and GitHub's comparison are one
step. The jobs of a run change only with its `updated_at`, which the code
assumes too (`collectors/workflows.go:172`). `completed_at` counts as a day old
from the first midnight after it, earlier than the code's 24 hours: more
interleavings, never fewer. Page numbers saturate at `PageBound`; `MaxVersion`
and `MaxUpdates` bound what GitHub does to one run and to all of them.

### CloudflareGovernor -- the budget of one API surface

The GraphQL and the REST bucket share nothing, so one bucket is modelled. `left`
holds for every entry of the bucket how many ticks it still counts; `working`
are the loops between `Allow` and `Record`, which are two critical sections with
a whole collection in between.

| action | code |
|---|---|
| `StartCollection` (with `Allow`, `Shedding`, `Remaining`) | `executeCollection` up to `Collect`, `Allow`, `remainingLocked` |
| `Request` | the queries inside `Collect`, one for each zone or account |
| `Record` | `Record`, after `Collect`, with or without an error |
| `Tick` | the sliding window, the end of a back-off |
| `UpdateFromHeaders`, `HandleRetryAfter` | the methods; nothing in the exporter calls them at this commit |

Abstractions. Time is in ticks, a window has `Window` of them; a collector may
start at any time, so tickers need no clock of their own. `calls` and `asked` are history, for the documented limit on
calls. `Slots` only names entries and is never exhausted in the runs.

### CloudflareScheduler -- loops and their cancel functions

`Callers` are goroutines that call the scheduler, `Loops` the goroutines it
starts, numbered in the order of the starts; a name may have had several loops.

| action | code |
|---|---|
| `Register`, `Deregister`, `Start` | the methods, each under the lock |
| `FindCollector`, `RecordCancel`, `Launch` | `StartCollector`: look up, lock again, `wg.Add` and `go` |
| `Stop`, `Wait` | `Stop`: cancel under the lock, `wg.Wait` outside |
| `EndCollection`, `TickLoop`, `EndLoop` | `runCollector`, whose `select` may take either ready case |

Abstractions. What a collection does is in the other modules. `Restarts` says
whether a collector that runs is started again; the exporter calls `Start`
once, the package forbids nothing.

### CloudflareCounters -- windows, the aggregation store and its prune loop

One metric of one GraphQL collector, a series per zone or account.

| action | code |
|---|---|
| `Begin` | `Collect` computes its window (`CalculateWindow`: `End`, `From`) |
| `Answer` | `collectZone`/`collectAccount`: rows (`Returned`) go to `Store.Add` (`Add`) |
| `Fail`, `Shed` | a failed query; the governor says no |
| `EndCollection`, `MakeTicker` | `runCollector`: the ticker is made after the first collection |
| `Prune` | the prune loop of `main.go` with `store.New(2 * ScrapeDelay)` |
| `Tick` | the clock, the ticker and its channel of one |

Time is in ticks of which a minute has `Minute`, since the code truncates only
one end of a window. A minute's data is complete `Landing` ticks after its end.
`Add` is modelled for a value that is the minute's count. A restart loses all
of the store, so it is `Init` at a later time.

### CloudflareSnapshots -- the REST collectors

| action | code |
|---|---|
| `Begin`, `Swap` | `Collect` of certificates, domains and DNS records: a new slice, put in place under the lock |
| `NextPage`, `LastPage`, `Fail` | one request: `fetchAllDNSRecords`, `fetchCertificatePacks`, `fetchDomains`, `fetchTunnels` |
| `PublishPart` | `refreshInventory` of the tunnel collector, which replaces one account at a time |
| `Create`, `Delete` | Cloudflare, which lists the newest first |

The collector is chosen in `Init`: `inventory` is the tunnel inventory, which
asks without a page number, or one of the three that swap a whole snapshot (the
DNS records with all their pages, the other two as the case of one page).
Items are numbers, one series each. `Parts` are the zones or accounts; `page`,
`draft` and `unasked`, the parts a collection has not finished, are its locals.

### GithubBackfill -- quota, ticks and rotation

The backfiller's `Step` and the poller's requests, over the one client both use.

| action | code |
|---|---|
| `Tick` | `Run` and the head of `Step`: `hasHeadroom`, then the rotation if it is empty |
| `NextRepo`, `Panic` | `nextRepo`, `refreshRotation`; the index after a refresh that failed at the end of the list |
| `Ask`, `NothingToDo`, `Receive` | `stepJobs` or `stepRunsPage`: one request, or none |
| `PollerAsks`, `PollerHears` | the poller's requests |
| `Retry`, `AskAgain`, `Lost` | `Client.Get`: a 403 classified, slept on and repeated; an answer that is lost |
| `NewHour`, `FindRepo`, `FindWork` | GitHub and the tables |

A request is formed at GitHub in one step and received in another, so the
figures of two answers may arrive in the other order. `Receive` clears the work
asked for, or leaves it where a status of error or a failed statement follows an
answer whose headers were recorded. `Listings` are the names of
the repositories known in the order of `ORDER BY name`; `remaining` is 0 before
the first of them and when the quota is gone, as in the code. `quota`, `leaked`
and `spentInStep` are GitHub's side and history. What a step fetches is one bit
per repository.

### GithubPulls -- pull requests of one repository over days

| action | code |
|---|---|
| `VisitRepo`, `SkipRepo` | `poll` with and without this repository in the list |
| `CollectPage` | `PRCollector.Collect`, a page: fresh, 304, lost |
| `StorePulls` | `UpsertPullRequests` with the trigger `fn_retain_pull_requests` of each statement |
| `Sample` | `sampleOpenPullRequests` of today and yesterday |
| `CrashPoll`, `NextDay`, `OpenPull`, `ClosePull` | the process, the calendar, GitHub |

A pull request is its number and the day it was closed. A list is read up to
`maxPages`, which `Init` takes from `PageCaps` (100 in the code,
`pullrequests.go:75`): when a page behind it would be needed, the collection is an
error, and what it has read is dropped with its ETags kept. Commits are fetched,
stored and pruned the same way; tags and releases are stored without a trigger.

### GithubRetention and RunLedger -- runs leave for their daily rows

`GithubRetention` has the transactions of two sessions statement by statement:
`FetchRuns` with the horizon of the exporter's clock, `PutRun` and `PutJob` open
a transaction (`NOW()` is fixed there), `SumJobs` and `SumRuns` are the rollups
of `fn_retain_workflow_runs` and `fn_retain_workflow_jobs` in the order of
migration 003, `AddAfterWait` is the end of a wait for a locked daily row,
`Prune` the DELETE with its cascade and the commit, `Abort` a failure, a crash
or a deadlock. Time is in half days. `runsDaily` and `jobsDaily` count how often
a run went into the rollup, up to 2. A run has one job, stored with a `started_at`
or without one (`timed`): the sums leave out a job that has none, the cascade does
not. `PutRun` waits for another session that has the row of the run, `PutJob` for
one that has the row of the job only, as its foreign key takes a share of the
run's key, which an update of the run does not touch but its deletion does.

`RunLedger` is what a reader of both tables relies on: a run is at GitHub, then
raw, then settled, and never comes back. `Ledger == INSTANCE RunLedger WITH
place <- Place` maps the tables to it.

### GithubAuth -- two caches of one token

`UseToken`, `RefreshToken`, `RefreshFails` are the paths of `Auth.Token`;
`LibraryToken` is what the ghinstallation transport hands out, from its own
cache until shortly before the token's end. Time is in five minutes.

`GithubCollection` puts GithubBackfill, GithubPulls and GithubAuth side by side:
a behaviour is one of any of them. They share no state the models keep.

### CloudflareProcess, CloudflareDiscovery, SelfMetrics, OpenbaoLease

| module | actions | code |
|---|---|---|
| CloudflareProcess | `StartLoops` ... `Exit` | `run` in `main.go` and its deferred calls, one after the other |
| | `Signal`, `ContextDone`, `WatcherCancels`, `Shutdown` | the goroutine that waits for a signal |
| | `Form`, `Send`, `NotSent`, `Answered`, `EndLoop` | the collectors' loops and the discovery loop, with the token of `Client` |
| CloudflareDiscovery | `Run`, `Identity`, `Zones`, `Schema`, `Fields`, `Zoneless`, `Settings`, `StartProbing`, `Probe`, `EndRun` | `Discovery.Run`, stage by stage and dataset by dataset |
| | `Start`, `Replace` | the first discovery with `registerCollectors`; the later ones |
| SelfMetrics | `Succeed`, `Store`, `FindWorst`, `Publish` | `RecordCollectionSuccess`, `updateGlobalLastUpdated` with their locks |
| OpenbaoLease | `Wake`, `LoggedIn`, `Renewed`, `...Fails`, `StopLoop`, `Close` | `NewOpenBaoClient`, `renewLoop`, `login`, `renewToken`, `Close` |
| | `GrantLogin`, `GrantRenewal`, `Revoke`, `Switch`, `Tick` | OpenBao and time, five seconds a tick |

In `CloudflareProcess` a request keeps whether it was formed with the token that
`Close` wipes. In `CloudflareDiscovery` the answer to the settings (`Answers`)
names what a zone is granted, but whatever came with a viewer in it counts as
enabled (`discovery.go:657` to 673), also `enabled: false` or no node at all, so
only a failed request takes a dataset out. In `OpenbaoLease` a request is granted at one time and answered at a
later one, so that the client counts its lease from a later moment than OpenBao
does; the loop is assumed to act when its timer is due. `CloudflareExporter`
puts the four side by side.

### RelayExporter, OpenbaoExporter, LibvirtExporter, HostCollectors

| module | actions | code |
|---|---|---|
| RelayExporter | `Accept` ... `Finish`, `Fail`, `Signal`, `Exit` | `proxyHandler` with every return, `run`, `exporter.Serve` |
| OpenbaoExporter | `StartScrape`, `Health`, `ReadMembers`, `EmitLeaders`, `FetchText`, `FetchFails`, `StoreText`, `ServeText` | `Collect` and the handler that appends `NativeMetrics`, for scrapes that overlap |
| | `Discover` | the discovery of the raft peers |
| LibvirtExporter | `Available`, `HostMetrics`, `ListAll`, `Extract`, `Find`, `Statistics`, `...Fails`, `NotFound` | a scrape call by call, each over a connection of its own |
| | `Define`, `Start`, `Stop`, `Destroy`, `Daemon` | what happens to the host meanwhile |
| HostCollectors | `Probe`, `Begin`, `BeginLatched`, `ReadTable`, `ReadFails`, `SendEntry`, `SendAll` | a scrape of one of the seven collectors of network_exporter and ipsec_exporter |

A domain of `LibvirtExporter` that does not answer is left out and the scrape goes
on with a shorter list (`client.go:165`); a list that cannot be had at all ends it.
`Probe` of `HostCollectors` latches an error that lasts and, under `--host-netns`,
any failure to open that namespace (`firewall.go:83`). A read finds any part of what its table may hold, so two reads
of one scrape never have to agree (`Readings`); only a directory of sysfs has one
entry of a name. The links of iface are listed first (`links`) and the bond or
bridge of each is read after that (`masters`), so a member may name a master
that was not there when the links were listed. A series is its labels and what it was made
for: two of the same labels are what the registry would refuse.
`HostExporters` puts the four side by side; the exporters are processes of
their own.

### Proof modules

`GithubJobSyncProofs`, `GithubCollectionProofs`, `GithubRetentionProofs`,
`CloudflareGovernorProofs`, `CloudflareSchedulerProofs`,
`CloudflareCollectorsProofs`, `CloudflareExporterProofs` and
`HostExportersProofs` each extend the module they are about, section 5;
`CloudflareCollectorsProofs` extends `CloudflareCounters` and
`CloudflareSnapshots`, the two ways a collector keeps what it fetched.

## 3. Runs

| run | bounds | shows |
|---|---|---|
| job_sync_backfiller | the backfiller alone; 3 runs of 2 jobs on pages of two, 2 versions, 4 updates in all, 2 failures out of transport, crash and evict | a mark never runs ahead of the stored jobs, also when a batch of jobs breaks off half-way; a page answered 304 is stored; no row, job or mark goes back |
| job_sync_both_loops | both loops; 2 runs of 1 job on 2 pages, 2 versions, 3 updates in all, 1 failure out of transport, body, storage and crash | type correctness; no mark is ahead of what GitHub answered; with fairness, every run ends up stored and marked at its last version, and the walk completes again and again |
| github_collection | 2 repositories, 5 requests an hour, a floor of 3, 1 request of the poller an hour, 1 retry, 1 mishap or throttle; 2 pull requests on pages of one, a cap of 2 or 3 pages, 3 days, 1 retained, 1 loss, 1 crash; a token of 12 ticks | a step of the backfiller uses one request of the quota at most, and below the floor one and one more for each lost answer; samples and rollups account for every pull request stored; with fairness, every repository is served, every pull request is stored if nothing is lost and the list stays below the cap, and an expired token is replaced |
| github_retention | 2 runs, 2 sessions, window 3, margin 2, delay 1, lag 0 or 1, clock to 4 half days | a stored run that is gone has been counted, and once unless transactions overlapped; a job that has a start before its cascade; the tables implement `RunLedger` |
| governor_shared | a collector of each class, ceiling 6, window of 1 tick, back-offs 0 and 2, headers 0 and 3 | type correctness; the overshoot is bounded and the reserve kept whatever the server sends; with fairness, collections resume |
| scheduler_one_caller | 2 names, 1 caller, 3 starts | no loop is orphaned, `Stop` returns |
| counters_overlap | 2 zones, minute 2, delay 6, window 8, interval 3, 1 fault, clock to 29 | each minute counted exactly once and whole |
| snapshots_records | 2 zones, 3 items, pages of 1, cap of 2, 3 changes; either kind of collector | an unchanged zone is complete, up to the cap; the two metric families agree |
| cloudflare_exporter | 2 loops and the discovery; 2 datasets, 5 collectors; 3 recorders, clock to 3; leases of 15 and 105 s, back-off to 8 ticks | no request goes out with a wiped token, no collection is cut off by `Close`, and the process ends; a matrix has a state for every dataset and `available` was asked for and answered without an error in the same run; the global time is the worst; the token held is good and the gauge says so, and the client gets a token again |
| host_exporters | 3 callers, 2 permits; 2 scrapes and 2 raft configurations; 3 domains of 2 names; 8 sockets, 4 neighbours, 4 links, 4 flows, 3 rules, 3 associations, limit of 2 | permits belong to requests in flight and a success was read to its end; native metrics are no older than the scrapes they overlap; a libvirt scrape is complete for what ran all along; the series of a scrape are distinct and refer to each other |
| bug_job_sync_interleaved, bug_pulls_recounted | the smallest instance that shows it | section 4 |

A conjunction such as `HostSeriesSound` is made of named parts, each stated and
commented on its own in the module.

For the two loops, two runs on pages of one are enough to have a newest and an
older one, a full page followed by another page, and a budget of one that defers
a run; two versions are enough for a mark, an answer and a row that all differ,
and three updates are a second run beside one that is updated under the loops'
hands; two pages with `MaxPages = 2` reach the cap; one failure is enough where
each property speaks of recovery from the last one. For the backfiller alone,
pages of two and runs of two jobs are batches that can break off half-way, the
third run is on a page of its own, and two failures are a crash in the batch and
another one, or a lost answer, in what mends it. Two jobs a run make the run of
both loops longer than five minutes; what its properties say of jobs is only what
GitHub answered.

For the governor, 6 is the smallest ceiling at which the threshold of a fifth
sheds background work while standard work goes on, and three loops can ask at
once and exceed it; with a window of one tick the entries of a tick expire
together, which is enough for them to expire while a collection is in flight.
For the scheduler, three starts of two names are a restart of one of them after
a `Deregister` or a `Stop`. For the counters, a minute of two ticks is the
smallest that can be cut; the clock runs for several windows and twice the
memory of the store after the first minute is added. Time bounds never make a
behaviour stop early in a way a property depends on: all properties of that
module are safety. For the snapshots, three items on pages of one exceed the
cap of two pages.

Fairness. In `GithubJobSync`, `FairSpec` assumes that the backfiller's ticker keeps firing, that a
poll that has begun goes on to its next step (it is straight-line code, and
every request and statement ends, with an error if not with a result), and that
days pass. It does not assume that polls begin: the list of repositories is
fetched conditionally as well, and a 304 for its first page leaves `poll`
nothing to iterate over (`collectors/repos.go:37`). `PollingSpec` adds that
assumption where a property needs it. Its failures are finite in number, or nothing
could be promised. In `CloudflareGovernor` the clock goes on, a loop asks again
while it is allowed (its ticker fires) and a collection ends (requests time
out). `BudgetReturns` promises collections to a governor that in the end is
told neither to back off nor that nothing is left: the 0 a 429 leaves behind
is lifted by nothing but the header of another response. In `CloudflareScheduler` collections end, calls go on, and a loop whose
context is done is not passed over by `select` for ever: Go chooses a ready
case at random, hence strong fairness for `EndLoop`.
In `GithubCollection` the ticker of the backfiller fires, an answer or its error
comes, an hour begins when the last one is over, and the poller polls. What an
hour grants exceeds the floor by more than the polls use (`Limit > Floor +
PollCost`): without that there is nothing to be served with. The mishaps are
finite in number. For the pull requests a poll goes on to its end and the list
of repositories changes now and then (`SF` on `VisitRepo`; a 304 for it skips
everything); `AllStored` speaks of behaviours without a loss and of lists below
the cap on pages, because the code never asks again for what was lost behind an
ETag and stores nothing of a list that is longer. For the token, requests are
made and a refresh succeeds now and then. In `CloudflareProcess` goroutines run and
requests end, and `select` does not pass a done context over for ever (`SF` on
`EndLoop`). In `OpenbaoLease` the loop runs, time passes, and OpenBao grants
what it is asked for while it is reachable; `LeaseRecovers` assumes it is reachable in
the end.

For the quota, a limit of 5 over a floor of 3 leaves one request to each loop
before the floor and lets the backfiller cross it on a stale figure; one mishap
is a lost answer, a failed statement, a panic or a throttle anywhere. For pull
requests, pages of one make the second page shift when a newer one is opened, two
of them are out of reach of a cap of two, which a list at its cap already passes,
and within one of three,
and three days with a window of one let a pull request be opened, closed,
pruned and sampled. For retention, half days let a run expire in the middle of
a transaction, and two sessions overlap in all ways two can; `Delay` plus `Lags`
within `Margin` is what `horizon.go:28` asks for. For the lease, 105 s is the
shortest lease whose margin covers a late answer, a renewal and a login that
time out, and 15 s is one that is shorter. For the relay, three callers meet two
permits, so one of them is refused. For libvirt, two domains share a name, so
one may take the other's place during a scrape.

## 4. Findings

Two runs violate a statement the code or its documentation makes.

* bug_job_sync_interleaved: *two loops, one run.* Poller and backfiller fetch the
  jobs of one run at the same time; the older answer is stored over, or the 304
  marked before, the newer one, without any failure.
* bug_pulls_recounted: *a pruned pull request is counted again.* Pull requests
  are listed without a horizon, so one that was closed more than 90 days ago and
  pruned comes back when its page changes, and is rolled up once more; runs are
  protected by `CollectionHorizon`, pull requests and commits are not.

The following disagree with what the code or its documentation says as well.
The property is in the module named, and TLC refutes it with the constants
given; they are kept out of the list of runs, which has one instance for each
part.

| property | constants | what happens | says otherwise |
|---|---|---|---|
| `UnchangedPageIsStored` of GithubJobSync | one run, `Faults = {"storage"}`, `MaxFaults = 1` | the ETag is recorded when the header arrives (`client.go:171`); if the body or the upsert fails, the retry is a 304 and the page is passed over | `backfill.go:442` "The page has not changed since it was last fetched, so its runs are already stored" |
| `EventuallyAllMarked` of GithubJobSync, `PollingSpec` | `Poison = {2}`, no faults | `stepJobs` takes the newest run without jobs; one that GitHub refuses every time starves the older ones | `db/backfill.go:104` "work deferred by the poll's per-cycle budget is never lost" |
| `CallsWithinBudget` of CloudflareGovernor | one loop, `Zones = 2`, `Ceiling = 3` | a collection costs 1 whatever it sends, and `Allow` reserves nothing | `docs/cloudflare_exporter.md:194` "Maximum GraphQL API calls allowed per five-minute sliding window" |
| `ThresholdsAsCommented` of CloudflareGovernor | as governor_shared; for the critical class `Standard = {}`, `Ceiling = 24`, `Reported = {0, 1}` | `Allow` sheds background work below a fifth, standard work below a twentieth and critical work never (`governor.go:141` to 153), a class below what the comments of the two constants say | `governor.go:49-55` "below which standard-priority requests are rejected", "below which even critical-priority requests are rejected" |
| `LatestValueCounts` of CloudflareCounters | as counters_overlap but `Landing = 8`, data that is complete after the delay | `Add` drops a bucket it has (`store.go:78`), so the value first read stays | `docs/cloudflare_exporter.md:353` "the new value replaces the old one" |
| `NothingSkipped` of CloudflareCounters | `Window = Interval = Minute = 2`, one fault | a shed or failed collection is not made up for; the next window does not contain its minute | `docs/cloudflare_exporter.md:391` "collectors are delayed rather than dropped" |
| `FailedKeepsSeries` of CloudflareSnapshots | as snapshots_records | certificates, domains and DNS records of a zone that fails once disappear; only the tunnel inventory keeps them | `docs/cloudflare_exporter.md:384` "continues to serve the previous generation of that collector's metrics" |
| `UnreachableAlone` of OpenbaoExporter, `OpenbaoSpec` | two scrapes | the native metrics of an earlier scrape are served beside `openbao_up 0` | `docs/openbao_exporter.md:224` "reports `openbao_up 0` and no other metrics" |
| `FirewallLatchesForGood` of HostCollectors | as host_exporters | under `--host-netns` any error of the first open, also one that passes, latches for the life of the process (`firewall.go:83` to 87) | `firewall.go:100-109` the probe "only latches for conditions that are a property of the deployment"; `docs/network_exporter.md:328` |
| `EveryPrunedJobCounted` of GithubRetention | as github_retention | a job without `started_at`, which `workflows.go:196-198` leaves nil, is summed by neither trigger (`003:122`, `003:211`) and goes with the cascade | `003:31` "a raw row passes through the rollup exactly once" |
| `AvailableIsEnabled` of CloudflareDiscovery | as cloudflare_exporter | `parseSettingsFromResponse` sets `Enabled` whatever was answered (`discovery.go:657` to 673); `discovery_test.go:925` knows it | `discovery.go:566` "dataset not enabled in settings" |
| `EntitlementsPickedUp` of CloudflareExporter | as cloudflare_exporter | a later discovery replaces the matrix and registers no collector; after a failed first one nothing is ever collected | `docs/cloudflare_exporter.md:193` "re-runs to pick up new zones or product entitlements" |

Met while modelling, and refuted by no property:

* The cap on the pages of a walk is compared on the path of a full fresh page
  only (`backfill.go:447`), so a 304 for the last page moves on past it.
* After a 429 without a remaining count `serverRemaining` stays 0
  (`governor.go:291`). No caller reports a 429 at this commit, so this waits
  for the first one that does; it is why `BudgetReturns` has its condition.
* `isRESTDataset` guesses the surface from a data set's name, so some requests
  are charged to the bucket of the other one (`scheduler.go:206`).
* A second start of a collector that runs orphans a loop and `Stop` hangs, and
  `StartCollector` races with `Deregister` and `Stop` once two goroutines call
  the scheduler: set `Restarts = TRUE`, or give `Callers` a second member, in
  `SchedulerOneCaller.cfg`. The exporter starts once from one goroutine;
  scheduler_one_caller shows that this use is right.
* The jitter of a ticker alone (`MaxLate = 1`, `MaxFaults = 0`) loses a minute
  with the default window as well; a scrape delay shorter than a
  window and its interval counts a minute twice; a window that is no multiple
  of a minute can count a minute in part.
* The store adds up whatever it is given; one metric, an average query duration
  (`collector/dns.go:220`), is no count.
* A record created while the pages of a zone are read moves others over a page
  boundary, and they are listed twice in one collection (`dns_records.go:242`).
* Certificates of one pack may have the same labels (`certificate.go:143`).
* Retention of runs: two transactions that overlap each sum what both have seen
  and add it twice to `workflow_runs_daily`; the second waits on the daily row
  and adds the sum of its old snapshot. `EachRunCounted` leaves overlapped
  transactions out for that reason. `RunsMissingJobs` knows no horizon, so jobs
  of a run older than 90 days are stored, rolled up and deleted in one statement,
  and counted again when the mark that should follow fails.
* `auth.go:83` takes a token to live an hour from now, but the library may hand
  out the one it cached: a dead token is sent for up to 50 minutes.
* Pull requests: a 304 for page 1 ends the list, so one closed on page 2 goes
  unnoticed until page 1 changes; the gauge of open pull requests is then set to 0
  (`poller.go:231`); a page lost after its ETag was recorded is not asked for
  again; a list of more than 100 pages is never stored (`pullrequests.go:75`).
  Commits are counted and `LastSuccess` advances although the upsert
  failed. A 304 for the releases of a repository takes the dates from its tags.
* The list of repositories: a 304 is taken for its end (`collectors/repos.go:37`),
  so a poll goes over none of them, or those of the pages before.
* Backfill rotation: the index panics when the names cannot be read at its end
  (`backfill.go:319`); an exhausted quota is 0, which means "not observed yet"
  (`backfill.go:285`), so a request goes out on every tick. The sleep of a retry
  does not listen to the context (`client.go:242`).
* github_exporter makes the context of its signals inside `serve`
  (`main.go:302`): the loops are not cancelled before the pool is closed.
* cloudflare_exporter: a signal before `httpServer` is set makes `Shutdown`
  dereference nil (`server.go:114`), which `CloudflareProcess` has as the end
  "panicked"; the probe of stage 4 looks at no GraphQL errors; a login under way
  when `Close` is called stores its token over the cleared one; a dataset that changes its state
  keeps the series of the old one at 1 (`main.go:742`); a collector that has
  never succeeded does not count for the global minimum (`metrics.go:197`).
* relay_exporter: an answer cut at 100 MiB is served as a success; `Serve`
  returns as soon as `Shutdown` is called, so handlers in flight are cut off.
* Host collectors: sockets that listen with SO_REUSEPORT, and rules with the
  same comment, give series with equal labels; `HostSeriesDistinct` leaves
  tcpstate and firewall out. A UDP socket of IPv6 is taken to listen only when
  its remote address is that of IPv4.

## 5. Proofs

Checked by TLAPS for every value of the constants.

* `TypeCorrect`: `Spec => []TypeOK`. Inductive together with `WorksOnRun` (a
  worker between its request and its mark has a run), because `AskJobs` reads
  `version[run]`.
* `MarksWereAnswered`: `Spec => []MarkedWasAnswered`, for both loops with every
  kind of failure. The inductive invariant adds that listed and stored versions
  exist at GitHub, that an ETag stands for an answer that was given
  (`TagsAnswered`) and what a worker holds at each step (`KeyAnswered`).
* `LoneLoopLosesNoJobs`: one worker alone and no failed write or broken body
  imply `[]MarkedJobsStored`, the property the findings refute in general; the
  worker may die between any two rows of a batch. The
  inductive invariant says that an ETag stands for jobs that are stored or
  about to be (`TagsStored`): a crash half-way loses the ETags with the batch. Exactly
  that fails once a write can fail.
* `LoneLoopQueuesTheRest` (`UnqueuedHasJobs`), under the same conditions: the
  property that bug_job_sync_interleaved refutes for two loops holds of either
  loop alone; that run has no failures, so there it is the second loop that loses
  the jobs.
* `LoneLoopStoresUnchanged` (`UnchangedPageIsStored`), under the same
  conditions: the ETag of a page stands for a listing that is stored or that the
  worker holds and is about to store (`PageTagsStored`), and what a lone worker
  holds is no older than the rows (`PageHeld`).
* `LoneLoopNeverGoesBack` (`NeverGoesBack`), an action property, for a loop alone
  under every kind of failure: no step makes a row, a job or a mark of a run older,
  wherever a batch breaks off. No statement compares with what is stored; what it
  stores is new enough because a page held is no older than the rows, the key is
  the row's until the mark, and the answer held is no older than the jobs
  (`RowsHeld`, `KeyHeld`, `AnswerHeld`). With two loops a page read before
  and stored after the other's takes a row back.

* `GovernorTypeCorrect`, `OvershootIsBounded` (`OvershootBounded`) and
  `ReserveIsKept` (`ReserveKept`) of `CloudflareGovernorProofs`: for any set of
  collectors, ceiling, window and headers. The step that matters is
  `StartCollection`: what is in the window is below the ceiling by `Allow`, so
  the excess is what is in flight, and a loop is in flight once. The proofs need
  `Collectors` and `Slots` finite, for cardinalities.
* `OneCallerDeregisters` (`DeregisteredIsStopped`) and `OneCallerStops`
  (`StopReachesAll`) of `CloudflareSchedulerProofs`: for one caller that does
  not restart what runs. The inductive invariant says that a loop that nobody
  cancelled is the one its name's entry cancels, so that the loops `Stop` waits for
  have all been cancelled, which it needs in order to return.
* `CloudflareCollectorsProofs`, the counters: `EachMinuteOnce` (`CountedOnce`) provided
  `Window + Minute + MaxDuration <= 2 * Delay`, which the defaults satisfy;
  `NoMinuteIsSkipped` (`NothingSkipped`) provided the window covers an interval
  for each fault and a collection's duration and lateness besides, which the
  defaults do not; `MinutesAreWhole` (`CountedWhole`) provided data lands within
  the delay and the query filters by minute or the window is made of whole
  minutes. The inductive invariants relate the end of the last window, the
  clock and the age of the records; the findings are what happens without each
  assumption.
* `CloudflareCollectorsProofs`, the REST collectors, for any parts, items, page size,
  cap and changes:
  * `SnapshotsAreComplete` (`SnapshotsComplete`): of a part that has not changed
    while it is read, the draft is exactly the pages before the one that is asked
    for next (`SnapshotsInv`), so that after the last page it is the whole list,
    or its first `MaxPages` pages.
  * `InventoryKeepsFailed`, an action property: the tunnel inventory never changes
    the series of an account that failed in the collection. It is
    `FailedKeepsSeries`, which the collectors that swap a whole snapshot break,
    for the one collector that keeps it.

* `GithubRetentionProofs`: `RetentionTypeCorrect` (`RetentionTypeOK`),
  `EachRunIsCounted` (`EachRunCounted`, from `EachRunOnce` and
  `NothingPrunedUncounted`), `JobsPrunedAreCounted` (`PrunedJobsCounted`) and
  `ImplementsLedger`, for any runs, sessions and
  clocks that satisfy `Delay + lag <= Margin <= Retention`. The inductive
  invariant says that what a session is about to insert is fresh, newer than any
  cutoff a trigger can have used (`PutsFresh`), that what it has summed has
  expired (`AddsExpired`), and, for `EachRunOnce`, that without overlap only one
  session has a transaction open (`AloneOpen`), so that the sum it adds is of
  rows nobody else has taken. `ImplementsLedger` is the refinement: a commit is
  a step of the ledger, everything else stutters; it holds with overlaps,
  deadlocks and crashes. `JobsPrunedAreCounted`, of the jobs last stored with a start
  (`TimedPutting`), adds that a transaction that is
  alone, between its sum and its commit, has every expired job it can delete, by
  age or by the cascade, in what it adds (`JobsInv`).
* `GithubCollectionProofs`, of the parts that `GithubCollection` puts side by side:
  * `QuotaIsSpared` (`QuotaSpared`): once the floor was passed as often as
    answers were lost and once more, the quota is gone, the low figure is on its
    way to the backfiller, or the backfiller has it and pauses (`QuotaInv`).
  * `PullsAreAccountedFor` (`PullsAccountedFor`): a pull request is a row as it
    was last stored, or was pruned after the window and therefore stood open on
    neither day that is sampled (`PullsInv`).
  * `CollectionTypesKept` (`TypeOK`): the index of the rotation is in the list, or
    one behind its end where the list is read again, which has found as many
    names or more, because repositories are only added (`BackfillInv`); and a poll
    asks for no page behind the cap. The orderings of a finite set are
    finite sequences, for which `BackfillAssumption` has `Repos` as a sequence of
    its own elements.

* `CloudflareExporterProofs`, theorems of the four parts side by side, so a step
  of one part is shown to leave the invariants of the others alone:
  * `ShutsDownInOrder` (`ShutdownInOrder`): once the token is wiped the context
    is cancelled and all loops of collectors have ended (`ShutdownInv`).
  * `MatrixIsSound` (`DiscoverySound`): from the end of the settings stage every
    dataset has its state, and during that stage it has one or is still to be
    asked for, and one that is available had each of its requests of this run
    answered without an error (`MatrixInv`); whether the answer said that it is
    enabled is not looked at, section 4.
  * `GlobalIsTheWorst` (`GlobalIsWorst`), for any number of collectors: nobody
    stores a time while one is about to be published (`WorstInv`), because the
    read lock of `updateGlobalLastUpdated` is held until the gauge is set.
  * `LeaseIsSound` (`LeaseSound`), for any leases: an answer is at most 10 s old
    when it arrives, so the loop that wakes up has 25 s left of a lease of 105 s, enough for a
    renewal and a login that are never answered (`LeaseInv`).
  * `ExporterTypesKept` (`TypeOK`), of the four parts.
* `HostExportersProofs`, in the same way:
  * `RelayIsSound` (`RelaySound`), for any callers and permits: the permits taken
    are as many as the handlers between their permit and their return.
  * `ResponsesBelongTogether` (`OpenbaoResponses`): a response is held to the begin
    of the oldest scrape it overlapped with, which is no later than the begin
    of any scrape under way, so a text that one of them stores is fresh enough
    for all; and the peers of a scrape are those
    of one list (`OpenbaoInv`).
  * `ScrapeIsRight` (`LibvirtScrapeRight`): a domain that ran all along is listed,
    then waits with the series of the calls made so far, then is served
    (`LibvirtInv`).
  * `SeriesMakeOnePicture` (`HostSeriesSound`), for any tables and limit: a firewall
    that reports 0 was read in vain in this scrape, or its probe met an error that
    lasts or a namespace that could not be opened; what is
    sent is made of what this scrape read and nothing else, it is sent only when
    all has been read, a list that is cut was cut at the limit and not before, and what
    a series refers to was sent before it or came of the same read (`HostInv`).
    Assumed are finite tables of sockets and neighbours and entries that are
    records of exactly their fields.
  * `HostTypesKept` (`TypeOK`), of the four parts; the clock of OpenBao's scrapes
    stops at its bound (`OpenbaoClock`).

Liveness under fairness (`EventuallyAllMarked`, `WalkCompletes`, `AllServed`,
`AllStored`, `TokenRecovers`, `BudgetReturns`, `StopReturns`, `ProcessEnds`,
`LeaseRecovers`) is out of the prover's reach and stays with TLC.
Only model-checked besides are the two properties that runs refute in
general, of which `UnqueuedHasJobs` is proved for a loop alone. Every other invariant
and every action property the runs check is a theorem.

## 6. What is left

Worth proving next: action properties of the other components of the kind of
`LoneLoopNeverGoesBack`, such as that a counter of the store never goes down
while its record is kept; and for the two loops together, what remains of the
queue's promise when no page is stored between a request for jobs and its mark.

Not modelled: configuration and secrets files (pure parsing at start-up),
metric declarations and label tables, the migration runner and the connection
to the database, the web site, test helpers. Modelled in part: commits, tags
and releases, which follow the sequence of the pull requests without their
state; the orderly shutdown of github_exporter, for the database a crash
between two statements; the HTTP pages of the exporters; the decoders of VICI,
netlink and procfs, whose outcome is the table a collector reads.
