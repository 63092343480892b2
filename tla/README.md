# A TLA+ model of skills-dashboard

skills-dashboard is a dashboard over AWS CloudWatch that one person runs on their
own machine: a local HTTP server that asks CloudWatch, and a single-page
application that the server hands to the browser. This directory holds TLA+
modules translated from that code, the TLC configurations that check them on
small instances, and TLAPS proofs of what matters most in them for every
instance. Paths below are relative to the repository's root, which `PROJECT.json`
calls `src/`; the `map` in it names the lines behind every definition.

    tlc -workers 2 -config MCCache.cfg MCCache     # model-check an instance
    tlapm CacheProofs.tla                          # check the proofs of a module

## 1. The system

The server exists twice. The node engine (`server/src`, TypeScript, one thread)
and the Go engine (`internal`, `cmd`) answer the same HTTP interface, and
`scripts/parity.mjs` compares their answers byte for byte. `start.mjs` starts
whichever is built. The modules here are translated from the node engine.

| Component | State it keeps | Operations |
|---|---|---|
| Query cache, `aws/cache.ts` | a map from key to entry: promise, expiry, whether it has settled | `do` (wait, claim, load, retry), `prune`, `invalidate` |
| Logs Insights runner, `aws/insights.ts` | a semaphore (`free`, `waiting`), a query per run in CloudWatch | `acquire`, `release`, `run`, `runHeld`, `poll`, `StopQuery` |
| Credentials and connection, `config/credstore.ts`, `connect.ts`, `http/credentials.ts`, `service.ts` | the saved key in memory and in `credentials.json`, the connection `service.aws` | `PUT` and `DELETE /api/credentials`, `resolveConnection`, `connect`, `setAWS`, `requireAWS` |
| Configuration store, `config/store.ts`, `config/config.ts`, `http/settings.ts` | the configuration in memory and in `config.json`, a `.bak` | `load`, `set`, `save`, `PUT /api/config` |
| Log panels, `http/panels-logs.ts` | none of their own | `runLogQueries`: one wave of queries per panel, through the cache |
| Page assembly, `http/panels.ts`, `http/respond.ts` | none beyond a request | `handlePage`, `handlePanel`, `buildPanels`, `finish` |
| Discovery, `http/settings.ts`, `aws/discovery.ts` | none of their own | `handleDiscovery`, `cachedDiscovery` under a limit of 30 s; page walks of the SDK |
| Window and series, `domain/window.ts`, `domain/series.ts` | none | ranges, periods, the axis; series with holes, reductions, tables |
| Metric catalog, `domain/catalog.ts`, `domain/dimensions.ts` | none | specs, SEARCH expressions, query ids, names |
| Metric fetch, `aws/metrics.ts` | the series found so far, per fetch | chunks and pages of `GetMetricData` |
| Metric panels, `http/panels-metrics.ts` | none beyond a request | seven builders |
| Query text and log formats, `domain/query.ts`, `domain/logfmt.ts` | none | the clauses of every Logs Insights query; how a line is read in the preview |
| Log panel builders, `http/panels-logs.ts` | none beyond a request | seven builders over the rows of their queries |
| Start and shutdown, `main.ts`, `flags.ts`, `config/env.ts` | the listening server | load, connect, `listen` with other ports to fall back on, shutdown |
| Web page, `timerange.svelte.ts`, `PageView.svelte`, `visibility.ts`, `api.ts` | the time selection, the address, the request under way, payload and error on screen, an interval | select, refresh, navigate, hide, abort, time out |
| Charts, tables, settings form, `UPlotChart.svelte`, `chart.ts`, `DataTable.svelte`, `ResourcePicker.svelte`, `resources.ts`, `routes/settings` | what the operator switched off, sorted, filtered, unfolded, opened, ticked or typed | each of those, and the refresh, lookup or save that replaces the data below |
| Go engine, `internal/**`, `cmd/**` | the same, under mutexes | the same |

How they meet:

- a request takes `service.aws` once, in the turn in which it arrives
  (`requireAWS`), and keeps that connection to its end. Connection, cache and
  configuration are shared by all requests and have no lock: what protects them
  is that the thread changes hands only at an `await`;
- panels call `Cache.do`, which calls the runner or the metric fetch, which call
  AWS under a deadline and under the signal of the request;
- saving the settings empties the cache (`cache.invalidate`), and so does
  swapping the connection (`setAWS`);
- `connect` writes the region of a key into the configuration, so the credential
  handlers and the settings handler write the same file.

What is hard to test is what happens between two awaits of different requests.
Calls miss together, wait together and retry together; waiters of a semaphore
are granted a place they have not taken yet; a browser leaves, or a deadline
fires, in every one of those states; a save overtakes a deletion; a write fails
after the memory has changed; the process dies between two writes; a request
that took the old connection goes on after a swap. `hazards` in `PROJECT.json`
lists each at its line, with the properties that would catch it going wrong,
or with the reason why none does. Where nothing interleaves, the difficulty is
in numbers that look right: samples cut into pieces and chunks, lists and
aggregates that Insights stops, a state summed like a count, totals of what was
already cut; and in the browser, in what the operator set on data that a refresh
replaces.

What makes each component correct: the cache never loads a key twice at once,
never hands over an answer that is stale or that is somebody else's
cancellation, and always answers. The runner neither loses nor duplicates a
place, wakes who waits, stops the queries it gives up on and keeps the limit.
The credentials at work are the stored ones once the requests have settled, and
a restart comes back to them. The configuration served is valid, is the stored
one and survives a restart. Panels of different connections do not mix, and a page
has all its panels, in order, whichever of them failed. A number on a panel is the
one its samples or lines give, or there is a warning beside it. The screen ends
as that of the selection, and what the operator set stays with what it was set on.

## 2. The modules

| Module | Code | Kind |
|---|---|---|
| `SingleFlight` | what `aws/cache.ts` promises | abstract specification |
| `Cache` | `aws/cache.ts` | component; implements `SingleFlight` |
| `LogPanels` | `runLogQueries` of `http/panels-logs.ts` over `Cache`, `setAWS` of `connect.ts` | composition over `Cache` |
| `Page` | `http/panels.ts`, `handleDiscovery` of `http/settings.ts` over `Cache`, `setAWS` | composition |
| `InsightsRunner` | `aws/insights.ts` | component |
| `Credentials` | `connect.ts`, `config/credstore.ts`, `http/credentials.ts`, `main.ts` | component |
| `ConfigStore` | `config/store.ts`, `config/config.ts`, `http/settings.ts` | component |
| `TimeWindow`, `Series` | `domain/window.ts`, `domain/series.ts` | operators |
| `MetricCatalog` | `domain/catalog.ts`, `domain/dimensions.ts` | operators |
| `MetricFetch` | `aws/metrics.ts` | component, over the three above |
| `MetricPanels` | `http/panels-metrics.ts` | composition over `MetricFetch` |
| `LogFormat`, `LogQueries` | `domain/logfmt.ts`, `domain/query.ts` | operators; what Insights answers is external |
| `LogRows` | the builders of `http/panels-logs.ts` | composition over `LogQueries` and `Series` |
| `Startup` | `main.ts`, `flags.ts`, `config/env.ts` | component |
| `PageView` | `timerange.svelte.ts`, `PageView.svelte`, `visibility.ts`, `api.ts` | component, over `TimeWindow` |
| `Chart`, `DataTable`, `SettingsPage` | `UPlotChart.svelte` and `chart.ts`; `DataTable.svelte`; `routes/settings`, `ResourcePicker.svelte`, `resources.ts` | components |
| `CacheProofs`, `LogPanelsProofs`, `PageProofs`, `CredentialsProofs`, `ConfigStoreProofs` | | theorems and proofs of the module of that name |
| `InsightsProofs`, `WindowProofs`, `ComponentProofs` | | theorems and proofs: of `InsightsRunner` and `LogRows`; of `TimeWindow`, `MetricPanels` and `PageView`; of `Chart`, `DataTable`, `SettingsPage` and `Startup` |
| `MCCache`, `MCLogPanels`, `MCPage`, `MCInsightsRunner`, `MCCredentials`, `MCConfigStore`, `MCMetrics`, `MCLogRows`, `MCStartup`, `MCPageView`, `MCControls` | | instances for TLC |

In every module an action is the code between two awaits, because node runs one
continuation to its end. A variable called history in its comment is not in the
code: it is there for a property and no guard reads it. Each operator called
`Mutant` in its comment is a plausible mistake, which some property tells from the
code; no specification uses it.

### Cache

`entries` is the `Map`; `expires`, `settled` and `promise` are the fields of an
`Entry`. A call claims a key at most once, so an entry bears the name of the call
that made it. `Enter` is `do` from its start to its first await; one turn of its
loop is `Turn`, which prunes and then either waits (`Waits`) or claims the key and
starts the load (`Claims`). `WaiterTakes` and `WaiterRetries` are the two ways on
from `await existing.promise`, and there is no await between a retry's deletion and
its next claim. The owner's reaction is the first one on its promise, so
`LoadReturns`, `LoadThrows` and `LoadAbandoned` are the resolution and the
bookkeeping at once. `Abort` only sets the flag: `do` does not listen to it, it only
asks about it when the load fails.

`SingleFlight` has no clock, no waiting and no aborts: calls on a key are folded
into one load, an answer about the data is shared until it is forgotten, one that
says that its caller left is shared with nobody, and a reset cuts later calls off
from loads that began before. `Cache` refines it with `current <- entries`,
`result <- promise`, `asked <- key` and `state` by the table `Phase`.

### LogPanels

A request takes its connection and its panel calls `Cache.do` in the same turn
(`Ask`; there is no await between `requireAWS` and the cache for a log panel that is
asked for by itself). `KeyOf` is the key: panel, group, window and queries, all in one
model value `Shape`, and the region, but not the account. The load is a wave of
queries that end one by one (`QueryEnds`); it throws only if no query was answered
(`Settles`). `Swap` is `setAWS`, `SettingsSaved` the invalidation after a save.

### InsightsRunner

`free` and `queue` are the semaphore. `Leave` is `release()`: it frees the place and
grants the first in line, which goes on a microtask later (`Wake`) and takes the
place without looking again. `Abort` fires the signal of a run, which takes it out of the line
if it is there; `TimesOut` is the deadline of a run that holds a place. CloudWatch is
external: `RemoteStarts` and `RemoteEnds` happen when they like, replies may be
lost (`StartFails`), and `StopQuery` is sent and not waited for.

### Credentials

The thread changes hands only while STS is asked who a key is, so each handler is
two actions: `PutStart`, then `PutAccepted`, `PutRejected` or `PutTimesOut`;
`DeleteStart`, then `DeleteConnects` or `DeleteTimesOut`; and `Boot`, then
`BootConnects`. `RecordRegion` is the part of `connect()` that writes the region into
the configuration before STS has judged the key. The store changes its memory
before the file, and a write may fail; `Crash` keeps the two files and loses the
rest.

### ConfigStore

A setting is missing, good, bad (`inspect()` reports it) or misshapen (it breaks the code
before `inspect()` sees it); a file is one of those for each setting, or garbage, or
absent, or unreadable. `Load` fills in defaults, repairs, and puts garbage aside.
`PutReads` is the handler up to the await of its body, which by then has read the
store; `PutSets` merges and saves. A save ends, fails, or is cut by the death of the
process on either side of its rename (`SaveEnds`, `SaveFails`, `SaveCut`).
`RecordRegion` is `connect()` again. `EditByHand` happens while the process is down.

### Page

A request is a page, a panel or a discovery; it takes its connection in `Begin` and
its builders are started one by one, in one turn (`Start`, `turn`), as
`Promise.allSettled` over `map` does. A builder asks the cache for one thing after
another (`PanelAsks`; only the counts panel asks twice, `AskNext`), under `KeyOf`,
which for metrics names neither account nor region. `Answer` is the handler after the
last builder has ended; `Verdict` decides between an answer, a 499 of a browser that
left and the statuses of a panel or a discovery, and `Slots` puts a warning panel in
the place of a builder that threw. The budget of 90 s and the departure of the
browser are `Spends` and `Leaves`, one signal (`Signalled`) to the builders.

### TimeWindow, Series, MetricCatalog, MetricFetch, MetricPanels

Times are seconds. `newWindow` and what is around it is arithmetic and is written
as the code has it; a point that may be `null` is a set of at most one. Names,
ARNs and keys are sequences of words and marks, because `queryID` and
`friendlyTargetGroupName` act on marks. `MetricFetch` is the loop over chunks and pages:
CloudWatch (`Published`, `Left`) hands over the pieces of the series that match, the series
in any order and cut anywhere, a page may fail, and the token may never end. `Taken` and
`Joined` are the index by key and label. `MetricPanels` chooses one of seven kinds of
panels and asks through `MetricFetch`; `Build` ends the request, with the answer of node scaling
in `scaling` where it is asked for, and `panel` is what the builders make of it all. Three
assumptions say what the panels rely on: each metric comes in at least one piece and its stamps ascend
(`PublishedAssumption`; `ScanBy`, `metrics.ts:154`), the settings hold lists (`ConfigsAssumption`), and the metrics
one search finds have labels of their own (`LabelsAssumption`).

### LogFormat, LogQueries, LogRows

A query is its clauses, each with the names it reads and defines, so that a name
defined twice, which Insights refuses, is visible (`Compiles`); the text of a clause is
left out. A line of a log group is a record of its form and of what it says.
`Answers` is what Insights does with a query: the rows of the lines it keeps, the
first `limit` of them. `LogRows` takes one page with its lines, lets each query of a
panel end with rows or fail, and builds the panel from what came; a wave without any
answer is `LogPanels`' subject. `handleLogFormatPreview` of `LogFormat` is the preview
the settings page shows of one line.

### Startup

One action per step of `main`: the config is loaded, the `.env` looked for, AWS asked,
a port tried (`Attempt`), and `Stop` is the first signal. Files and ports may change
between any two steps (`OthersChange`). Connections are idle or active when the
signal comes; `Closed` is the callback of `server.close`, `Expires` the timer of 10 s.

### PageView, Chart, DataTable, SettingsPage

The browser runs one task at a time and effects run before the next, so an action
of `PageView` is a task with the effects it triggers. A request is in flight until
its headers came and its body was read (`HeadersArrive`, `BodyArrives`), or it is
aborted, fails, or times out; `key` is the selection it was sent for. The interval of the
auto-refresh counts steps of 30 s, and remembers one tick missed while the tab was
hidden. `handleMeta` is the server's side of `/api/meta`, from `TimeWindow`, so that
the browser's rules for ranges and periods meet those of the server.

`Chart` keeps apart what the component derives and what the drawing library was
handed (`canvas`); a refresh with the same shapes only hands over numbers
(`ChartRefresh`). `DataTable` derives everything from rows, filter, sort and the row
opened (`openIndex`). `SettingsPage` has the form, the server's copy, the PUT between
them in two steps (`PutStores`, `SaveAnswered`) and the picker's list under the ticks.

## 3. What is checked

Passing runs, with what each of them shows:

| Run | Instance | Distinct states | Properties |
|---|---|---|---|
| `cache` | 3 calls, 2 keys, clock to 2, both lifetimes 1, 1 invalidation | 0.66 M | nobody is given the failure of a call that left; shared answers are of the right key, unexpired and loaded after the last invalidation; the cache implements `SingleFlight`; every call is answered |
| `credentials` | 3 requests, 2 keys of 2 regions, every kind of `.env`, failing writes, 1 crash | 0.38 M | a deleted key is out of use; a saved key wins unless a deletion was asking STS as it was saved; a restart keeps the key; every request is answered |
| `runner` | 3 runs, 1 place | 0.14 M | no lost wakeup; the limit holds until a promised place is taken; a query whose id is known is stopped; a run in line is answered |
| `config` | 2 PUTs, 2 settings, 7 kinds of file, failing and cut saves, 2 crashes, 1 edit | 1.2 M | what is served is what is stored; a restart keeps it; unparseable text is not lost |
| `logpanels` | 3 requests, 3 connections in 2 regions, waves of 2 queries, lifetimes 2 and 1, clock to 1, 1 swap or save | 1.5 M | a request gets no rows loaded before it began, and another account's only from a load begun since the swap; somebody else's aborts come only beside rows; an outage is remembered briefly |
| `page` | 2 requests of which one may be a page of 3 panels, 2 connections in 2 regions, 1 swap or save | 0.24 M | a page has every panel in its place, and its budget costs it no answer; a request is shown nothing asked before a swap it came after, and another account's answer only if it was asked since; every request is answered |
| `metrics` | 7 kinds of panels, 21 published metrics in one or two pieces, chunks of 3, 4 pages, 3 configurations, 7 windows | 9,968 | metric samples and log rows share one axis; a series is one line with the last sample of each bucket; the headline numbers are those of the samples; a fetch ends |
| `logs` | both pages, every set of up to 3 of 11 pod lines or of 7 WAF lines, 6 formats, lists of 1, answers of at most 2 rows, 1 failed query | 0.51 M | numbers are right or warned of; a list that was cut says so; columns add up; every query compiles; the preview says of a line what the panels do with it |
| `startup` | 3 places for a `.env`, a port and one fallback, 2 connections, 2 changes from outside | 0.093 M | starts and shutdowns end; a request under way has the whole grace |
| `pageview` | 3 addresses, every range and period the code offers, 2 namespaces, 3 acts of the operator | 0.46 M | requests are ones the server accepts; the screen ends as that of the selection; a reload opens the same view; a load ends |
| `controls` | 4 payloads of a chart, 4 of a list with rows that read the same, 3 target groups in 3 lookups, 3 edits | 0.15 M | the badge is true; canvas and readout are of the payload; the detail stays with its row; ticks change in view only |

The type invariants and further safety properties (one load per key, loads keep their
distance, places are accounted for, the file only holds keys AWS accepted, regions apart) are
not repeated in the runs: they are proved for
every instance (section 5).

Why these bounds are enough for the cases that matter:

- *cache*: three calls are the fewest in which one loads, one waits and a third
  comes in or retries between the two; with two keys a map with one entry
  expired and another under way occurs. A lifetime of 1 and a clock to 2 give every order
  of "just before", "at" and "after" the expiry, and a second expiry after a
  retry. One invalidation falls at every point of every behaviour.
- *credentials*: the races are between two requests; a third covers what a settled
  pair leaves behind. Two keys are needed for a request to take the place of
  another's key, two regions for the config to name the wrong one. One crash
  falls at every point.
- *runner*: with one place the line fills at once; three runs give a holder, a
  waiter that is granted and a third that comes in between, and also a line of two
  from which either leaves.
- *config*: two PUTs for the lost update; `MCBody` has bodies that mention either
  setting, both, and an invalid one, and `MCEdit` each kind of file; two crashes let a process
  die in a save and its successor die again.
- *logpanels*: two of the three connections call one region, so that a key cannot tell
  them apart, and the third calls another. A failed wave expires at 1, an answered
  one does not expire in this run (`cache` covers that). Two queries give a
  wave with one answer and one abort. The permutations of the requests are a
  symmetry: the requests are model values, no property picks one by name, and
  the run checks invariants and action properties only.

- *page*: one page with a panel that asks twice, one without a target that asks
  nothing and one that asks once covers every kind of slot; the second request shares
  their keys, as a panel, or is a discovery or an unknown id. Expiry is left to `cache`
  (`MaxTime = 0`).
- *metrics*: two targets of each kind, of which one has a mark in its name; a series in
  two pieces with one that is silent; a chunk of three queries splits the queries of one
  target; four pages are fewer than CloudWatch may want. The windows lie on either side of an
  hour's edge, and one comes from an address that was typed wrong.
- *logs*: three lines are the fewest of which two share a group and one does not with
  an answer cut at two rows and a list at one; the lines lie at both edges of the
  window, at the end itself, and are of every form. A failed query falls on each
  query in turn.
- *startup*: a named file and two candidates, one fallback port where the code has 5. Steps of
  5 s put the grace of 10 s at two steps and the question to STS, which has 15 s, at three.
- *pageview*: an address without parameters, a shared one, and one with a refresh no
  button offers; three acts are a selection, a hiding and a navigation in every order.
  The nonce is counted modulo 2: only whether it is the one of the request in flight matters,
  and an act that changes it twice aborts in between.
- *controls*: the three components share no state, so a behaviour is of one of them.
  Payloads have the same lines with other numbers, a gap, a missing tail, and a line
  more; lists have equal rows, more than are shown at first, and fewer; a lookup finds
  all, some, or none of what is ticked.

Deadlock is checked in every run but `config`, `startup`, `metrics` and `logs`. In `config` every PUT is
sent once and crashes and edits are bounded, and a server with nothing left to do
idles; `startup` ends with the process; `metrics` and `logs` end with a panel or a
page that is built. In the other modules `Quiet` is the only way to stutter at the end, so a
state in which a call waits for something that cannot happen any more would be
reported.

Fairness, only in the runs with a liveness property:

- `Page`: a builder that was called comes to its first await, goes on after it, and the
  handler answers once its builders have ended; and the fairness of `Cache`. Browsers
  and limits need not do anything.
- `MetricPanels`: each call of `GetMetricData` ends, with a page or an error; the client's
  timeouts see to that.
- `Startup`: the process's own steps, its timers and the clock. AWS need not answer,
  and connections need not end.
- `PageView`: the clock, the timer of the interval and the limit of a request. The
  server need not answer.
- `Cache`: the reaction of a settled promise runs, and a load ends, since every AWS
  call below it carries a deadline. No request needs to arrive or leave.
- `Credentials`: only the guard of `bounded()` is fair. AWS may never answer.
- `InsightsRunner`: microtasks run, the deadline of a run that holds a place fires,
  and a call whose signal has fired fails. CloudWatch need not do anything, and a
  run in line has no deadline of its own.

## 4. Disagreements between the code and what it says

One is a run, `pageview_skeleton`: TLC finds `SkeletonEnds` of `PageView` violated under
`MCPageViewSkeleton.cfg`. With a server that does not answer, the refresh, 60 s by default,
aborts each request before its limit of 95 s; neither payload nor error is ever set, and
the skeleton stays, which is what `PAGE_TIMEOUT_MS` says it is there to prevent (`api.ts:112-114`).

The others have a property in their module and an instance beside it, or one in which
a line is to be changed as the table says, which a reader can run to see the behaviour;
they are not among the runs.

| Instance | Property | What happens |
|---|---|---|
| `MCCredentialsRace.cfg` | `SavedKeyWins` | A deletion clears the store and asks STS about `.env`; a save accepted meanwhile is stored and swapped in; then the deletion swaps `.env` in over it (`credentials.ts:112`). The service works with `.env` until it is restarted, with a saved key on the disk. `connect.ts:161` says that a saved key wins over `.env`. |
| `MCCredentialsRegion.cfg` | `RegionFollowsKey` | A key that STS refuses has already written its region into the configuration (`connect.ts:128`), although the answer says that nothing was saved (`credentials.ts:88`). |
| `MCInsightsRunnerGap.cfg` | `AtMostN` | Between `release()` and the microtask of the waiter it granted, another `acquire` takes the same place (`insights.ts:84`): `N + 1` queries run and `free` is negative, where `insights.ts:95-97` speaks of an upper bound. |
| `MCInsightsRunnerOrphan.cfg` | `NoOrphanQuery` | `StartQuery` is aborted after CloudWatch accepted it (`insights.ts:161`); nobody has the id, and the query runs on, although `insights.ts:53-55` wants no paid scan for an answer nobody reads. |
| `MCConfigStoreLost.cfg` | `PutKeepsOthers` | A PUT reads the store before the await of its body (`settings.ts:88`), and puts back what another handler has saved since; `settings.ts:86-87` says a partial body blanks nothing it does not mention. |
| `MCConfigStore.cfg` with the invariant `OnlyUnreadableIsFatal` | `OnlyUnreadableIsFatal` | A readable `config.json` with `excludePaths: [1]` ends the start in an exception (`config.ts:224`); `store.ts:84-87` says that nothing in the content is fatal. |
| `MCPage.cfg` with the invariant `SwapIsHonest` | `SwapIsHonest` | Node scaling is asked for after an await, with the connection the request began with and under a key without an account (`panels-metrics.ts:478`): a request a swap overtook fills the cache that the new connection reads. `connect.ts:60-62` says that emptying the cache makes a swap honest. |
| `MCLogPanels.cfg` with the invariant `NewKeyNewAnswers` | `NewKeyNewAnswers` | The same for log panels: a request of the old connection that waits for a load goes round the loop of `do` after the swap has emptied the cache (`cache.ts:62-65`), and loads with the old key. |
| `MCMetricsTwins.cfg` | `TargetsStayApart` | `queryID` makes one id of two names that differ in a mark (`catalog.ts:269-273`), such as `acl-a` and `acl_a`, and the fetch throws (`metrics.ts:107-109`): the panel of both is lost. `panels-metrics.ts:202-203` says that several targets stay apart. |
| `MCLogRowsBlocked.cfg` | `EveryCutTableIsTold` | The total of the blocked requests is the sum of the rows that the limit left (`panels-logs.ts:902-923`), so as many blocked clients as the table has rows may be missing and it says it is whole. `types.ts:60` says of a total that it is counted independently of the rows. |

Where such a case can be excluded, the passing runs check, and mostly the proofs show, what is
left: `SavedKeyWinsUnraced`, `AtMostNUnlessBarged`, `KnownQueryStopped`,
`AccountsApartUnlessOvertaken`, `OneAccountUnlessOvertaken`, `CutListIsSaid`.

Smaller ones, met while reading and kept out of the properties by how these are stated:

- *Log panels*. `buildPodLatencyPanel` sums rows that Insights may have cut without
  `warnIfTruncated` (`panels-logs.ts:236-334`, against `:213-221`), so `NumbersOrWarnings` does not
  ask it of that panel. `actionFanout` may lose the `BLOCK` row of a key, and the limit
  of `waf.byPath` makes `keysFound` too small (`:936-944`, `:1036-1038`). The preview finds
  the words of a level by the settings' `levelPattern` (`logfmt.ts:60`, `:337-340`), which no
  query reads: the queries look for fixed words (`query.ts:165-166`), and of two words
  in one text the preview takes the first where they say warn. The preview decodes an inner
  JSON where no query does (`logfmt.ts:190-195`), and reads by a `textPattern` that no query
  has, under the preset `gin` also a JSON line (`:199-203`, `:231-268`), so `PreviewAgrees`
  compares what both can read (`BothRead`). A field name that is no reference is found by
  neither the preview nor the save: the queries throw at it (`query.ts:253-258`).
- *Page in the browser*. Auto-refresh is 60 s by default (`timerange.svelte.ts:24`), while
  `TimeRangePicker.svelte:14-16` and `PageView.svelte:156` say it is off; navigating sets it
  to 60 again, and choosing another does not rewrite the address, so `ReloadOpensSameView` is
  about the selection and the namespace only. The text of a failure that was still being
  read when its request was aborted is shown over the next answer (`api.ts:80-86`).
- *Chart*. What the legend switched off is kept by position, so another line may be off
  after a refresh. A canvas that is built anew under a resting pointer keeps its old
  readout, because `create` does not mark it stale as `UPlotChart.svelte:154` says:
  `ReadoutIsCurrent` of `Chart`, which is `ScreenIsOfPayload` without the exception for that case.
- *Table and picker*. A filter typed over a list that then shrinks to fewer rows than have a filter box
  stays in force without a box to clear it (`DataTable`, `ResourcePicker`).
- *Settings*. What was typed during a save is overwritten by its answer; ticking a group
  fills the load balancer; two overlapping lookups of a single-value field leave the
  error of one beside the result of the other; a save has no time limit; a form saved
  after the credentials were changed on the same page writes back the old region.
- *Start*. `listen` takes any error for a port in use.

## 5. What is proved

The theorems hold for every value of the constants that meets the named
assumption of the module: any number of calls, requests, runs, keys, places and
crashes, and any bounds.

**Cache** (`CacheProofs`): `TypeOK`, `OneLoadPerKey`, `NoBorrowedAbort` and the
refinement of `SingleFlight`. None is inductive by itself. `IInv` adds `MapInv`
(the entry a key holds was made by a call on that key since the last
invalidation, and is no failure of a caller that left), `LoadInv` (a load that no
invalidation has overtaken still holds its key), `EntryInv` (the fields of an
entry agree with the position of its owner) and `SourceInv`. `LoadInv` is the heart:
a call that claims a key finds it empty, so no other load of this epoch holds it,
so none is under way. The refinement is proved action by action from `IInv`; an
expiry or a pruning becomes the set of forgotten keys in `Join` or `Start`.

The two action properties about time, `SharedAnswersAreCurrent` and `LoadsAreSpaced`,
need `TimeInv` besides: an answer expires
one lifetime after it arrived (`ExpiryInv`), and until then an answer of this
epoch is in the map (`KeptInv`), because pruning and retrying only take out what
has expired.

**LogPanels** (`LogPanelsProofs`): each action is one of `Cache` or leaves its
variables alone, by construction, so the theorems about the cache may be used of the panels
(`LogPanelsUseCache`), and
`LogInv` only needs to add what the cache does not know: `KeyInv` (the key of a
call names the region of its connection), `SharedInv`, `BeganInv` (requests of
one epoch have one connection), `WaveInv` (how an entry settled against how its
queries ended), `LoadedInv` and `GivenInv` (nothing is loaded for a request, or given to it, that was
loaded before it began). From it: `RegionsApart`, `AccountsApartUnlessOvertaken`,
`BorrowedAbortHasRows` and, with `TimeInv` of the cache, `OutageIsShort`.

`AccountsApartUnlessOvertaken` rests on the emptied cache, not on the history alone: `GivenInv` holds because
what is handed out was in the map, and what is in the map was loaded in the present
epoch (`MapInv`), that is no earlier than any request began. So the load is as young as both
requests; if it is no younger either, both began in its epoch and have one connection.
With a swap that left the answers where they are (`SwapKeepsAnswers`, the mutant of the run) a request
of the new connection would be given an older load. What a swap cannot prevent is what
`Overtaken` names, a load that began after it for a request that began before; that
this does happen is in section 4.

**InsightsRunner** (`InsightsProofs`): the types with the line,
`PlacesAccountedFor`, `NoLostWakeup` and `AtMostNUnlessBarged`. The three are
inductive together with `GrantsCovered` (until a promised place is taken, every
grant is covered by a free place). The argument is about cardinalities: each step
moves at most one run into or out of `Holding` and `Granted`, and `LeaveInv`
treats the run that leaves and the run it grants at once. `KnownQueryStopped` is
proved apart, with `KnownInv` (a run that was told its id watches or has ended).

**Credentials** (`CredentialsProofs`): the types, `FileWasAccepted`,
`DeletedKeyNotUsed`, `SavedKeyWinsUnraced` and `RestartKeepsKey`. What had to be
added: `SavedInv` (a saved key is at work at once and no deletion in flight is
about to replace it, unless raced), `OnItsHeels` (a saved connection that
outlives its key has a deletion in flight), `UseInv` (the key at work in a quiet
service is the one a start from the files would choose).

**ConfigStore** (`ConfigStoreProofs`): the types, `ServedIsStored`,
`RestartKeepsConfig` and `TextNotLost`, from `PromiseInv` (a restart of the file as
it is now reaches a promised configuration, across a save that was cut) and
`GarbageInv` (a running process has put an unparseable file aside or could not).

**Page** (`PageProofs`): every behaviour is, at the variables of the cache, one of
`Cache` (`PageStepOfCache`), so requests, which share keys, leave and run out of time in
the middle of a wait, are users of a `SingleFlight` (`PageIsSingleFlight`) with one load per
key, no borrowed abort and the two properties about time. `PageInv` adds what
the requests know: `AnsweredInv` (a call that ended was given the outcome of a load that
ended), `BuildsInv` (the builders of all slots are called when the turn of a request
is over), `CallsInv` and `OrderInv` (the second ask of a builder follows the return of
its first), `BeganInv` (requests of one epoch have one connection) and `ShownInv`
(what an answered page has). `PagesAreWhole` follows from `ShownInv` and `OrderInv`;
`OneAccountUnlessOvertaken` from `BeganInv`, `LoadedInv` and `GivenInv`, as for the log panels: here
`GivenInv` is about every ask of a request, its second one after an await included.

**Window** (`WindowProofs`): `OneAxis` for every window a panel can be asked for, whatever its
range, period and end. It is arithmetic: quotient and remainder are unique (`DivUnique`,
`ModUnique`), a window made by `newWindow` ends on an edge of its buckets
(`WindowsAreWhole`), and a time has one bucket, whose index and whose place on the axis agree
(`AxisMeetsTimes`). `PickerIsMeta`: the table the browser starts with is the one `/api/meta`
computes, so `setMeta` never moves a selection.

**MetricPanels** (`WindowProofs`): `SamplesKeptApart`, `HeadlinesAreOfSamples` and
`ColoursTellSubjectsApart`, for any metrics, cuts, targets, windows and sizes of chunks. They rest on the invariant
of the fetch, `PanelInv`: at every step each request holds, under its own key, one entry for each
metric of which anything has come, and in it the pieces that came so far, joined so that the last stamp of a
bucket decides (`PointsOf`, `ListIs`, `Had`; one result is `IntoKeeps`, a page of them `TakenKeeps`). It needs
that no two requests have the same key, which is what `Askable` checks, and that labels
are apart. `AllGathered` is what it comes to at the end. From there:

- a list is followed by pairing its entries off with what they are due to (`Draws`), which goes through
  concatenation and `FlattenSeq` (`DrawsJoined`, `DrawsFlattened`). `toSeriesList` orders lines by their
  largest value, ties by label, the rest by place; this is a strict order, so each place has one
  line and each entry one place (`BusiestFirst`). So the lines of a panel are those due, each once
  (`TargetsAreDrawn`, `SubjectsAreDrawn`), and the values of each are those that the reference takes from the stamps
  (`DrawnAsHeld`), where `indexOf` and the axis agree by the lemmas of `OneAxis`;
- a sum over a finite set does not depend on the order (`SumsAddUp`), may be moved along a
  bijection (`SumReindexed`), and over a table with holes is the same by rows as by columns
  (`SumSwapped`). So the sum of the lines' sums (`SumsOfLines`) and the sum of a line that adds lines bucket by
  bucket (`SumOfTotal`) are both that of the samples;
- the place of a label among those of all the metrics of a panel is one for each label, so as
  long as there are no more labels than colours, colours tell them apart (`SubjectsAreColoured`).

Attempts at these proofs showed what the model had left unsaid or said too strongly: labels of lines are apart only
where those of the sets are (two target groups may share a friendly name, `dimensions.ts:32-42`);
that a later page wins in a bucket needs stamps in ascending order; two series of one search
with one label would be joined into one, since the index goes by nothing else (`metrics.ts:179-189`);
and colours repeat when the palette is used up (`catalog.ts:85-93`).

**PageView** (`WindowProofs`): the types, `RequestsAreAccepted`, `ScreenIsOfSelection` and
`ReloadOpensSameView`, for every set of addresses and namespaces and any number of acts. `ViewInv`
holds them together: `SelectionInv` (the selection is a choice of the picker, which
`PickerIsMeta` keeps across `/api/meta`), `AddressInv` (the address says the
selection) and `FlightInv` (what is under way is what is selected, and a failure
stays over a request only if that request cut off the one that was failing).

**Chart, DataTable, SettingsPage, Startup** (`ComponentProofs`), each with an invariant of its own:

- `SavedBadgeIsTrue` and `TicksStayInView`. While a PUT is under way no badge is up
  (`SettingsInv`), which is why the server may store what the form does not show yet.
- `GraceIsKept`. Nobody is connected before the port is open (`ConnsInv`), so who is
  active at the signal was served.
- `DetailFollowsItsRow`, for rows of any length, of which any may read alike. That it does not
  jump between equal rows is that the index of a row among its equals, which
  `openIndex` looks up, determines its place.
- `ScreenIsOfPayload`. The canvas is always the one of payload and legend, and a readout is
  that of the sample it was written for (`ChartInv`). That the readout tells the
  largest lines, and how many it leaves out, is `ReadoutTells`.

**LogRows** (`InsightsProofs`), for all settings and all lines:

- `PreviewAgrees`. Both readings of a line, that of `parseLogLine` and that of the clauses,
  come to the same six values (`Reads`), whichever of the forms the line has, whether its
  envelope is there, and whatever a pattern captures that finds nothing in it (`ParsedLine`); what is said of it depends on these alone
  (`PreviewOfLine`).
- `QueriesCompile`. `Taken` says that clauses may follow the names seen so far and which names are
  seen then, and goes through concatenation (`TakenThen`), so that each helper of
  `query.ts` is looked at once, by the names it defines and reads, whatever it is put
  together with.

- `NumbersOrWarnings` and `CutListIsSaid`, whatever fails and whatever Insights cuts.
  `AnswersInv` is inductive: each result is an answer to a query of the panel at hand. What a
  query asks is told from its clauses (`Asks`: by what it filters, by what it groups, and
  whether it counts), which goes through concatenation like `Taken`. Then every line it keeps
  counts in one row (`CountedRows`), a sum over rows is the number of lines that count in
  them (`SumOfRows`), a line is charted unless it is of the very end of the window
  (`EdgesOfWindow`, `ChartCounts`), and an answer nobody warns of is whole (`WholeAnswer`). The
  lines so counted are those that the property tells from the lines themselves (`FactsRead`,
  `BadKept`). A cut list is shorter than the count beside it by at least one (`CutListIsShort`).
- `WafColumnsAddUp`, for any number of headers and any `topN`. Allowed, blocked and other lines of a
  key are three disjoint parts of them (`ThreeParts`), of which a bucket's columns are the sums
  (`PivotAdds`); the action of the row with the latest time is that of a latest line, as the
  time of a row is that of the latest line that counts in it (`LatestOfRow`). The queries tell a line's key
  as `pivotWAFActions` reads it (`AnswerAddsUp`, `BreakdownAddsUp`), and a row of the
  joined table is a row of one breakdown (`Flattened`, by induction up to a number, `CountUp`).

`RowsInv` is what the first two need: the panels still to build are some of the page's. Trying the
first showed where the model had been vaguer than the code: that a line's own level
knows no `oomkilled` and its text no `err` (`query.ts:164-166`), that the preview has a list of words
of its own, and that two arms of a `CASE` overlapped. Trying the third showed that the property
took a json line for readable where the settings have no field of fluent-bit to read it
from (`query.ts:146-150`), and that the limit of a query is that of Insights when it is larger
(`insights.ts:269`); `logs` has a format of the first kind since. The last showed that a header
named twice has one breakdown and that a header may be called like another breakdown, which
the code tells apart by a prefix (`panels-logs.ts:1075-1078`).

Table and readout sort, and so do `sortSeries` and `toSeriesList`. `SortSeq` and `SelectSeq` mean nothing to
the provers, so these modules say the same by counting: an element is at the place given by the number of those
before it. `RankIsPlace` and `RankGrows` show that this is the sorted list (each place has one
element, and the order of the places is that of the elements) from cardinalities
alone. Where an induction over numbers or over the rows of a sum would be needed, the least
counterexample stands in (`MinExists`, `SubsetsAllGood`, from the well-foundedness of strict inclusion of
finite sets); so `CountedOnce` shows what the fold of a sum comes to, and `InOrder` that rows of
any finite set have an order.

All safety and action properties of the runs `cache`, `credentials`, `runner`, `config`,
`logpanels`, `page`, `metrics`, `logs`, `startup`, `pageview` and `controls` are thus proved.
Only model-checked is liveness (`EveryCallAnswered`, `EveryRequestAnswered`, `EveryRunAnswered`,
`FetchEnds`, `LoadsEnd`, `ProcessSettles`), which is out of the prover's reach. `ColoursTellSubjectsApart`
is the other way round: it is proved, and no run lists it.

## 6. Assumptions and limits

- `.env` is not edited while the process runs, `config.json` only while it is down.
  A rename is atomic, and what was renamed survives the death of the process.
- In `Cache` a call of `do` claims its key at most once and each call is made once;
  the cap on calls is the size of `Caller`. The clock does not go backwards.
- In `LogPanels` a call of the cache stands for a request with one log panel; requests
  for several panels are `Page`'s.
- In `Page` what a builder got is reduced to whether it came. A retry inside the SDK is
  part of a load.
- In `InsightsRunner` calls of `acquire` come in any microtask. A run over an empty list of log
  groups throws before it reaches the semaphore and is left out. Queries of one run are not
  retried by the code; retries inside the SDK are part of a call.
- In `ConfigStore` what makes one value valid (`validateConfig`) is one of four
  kinds, and the region written by `connect()` is any valid one.
- In `MetricFetch` and `MetricPanels` values are small integers, names are short
  sequences of words and marks, and labels of CloudWatch are numbers, whose order stands for
  that of the text. Samples come at any second; CloudWatch gives a series in pieces with
  ascending stamps, and no two series of one search the same label. Of the panels of one resource
  of pods or nodes there is one of each, since the prefix is all they differ in.
- In `LogFormat` a pattern is the facts that it captures from a line of each form; how it captures them,
  and a pattern that captures what the line does not say, are left out.
- In `LogQueries` Insights is what its documentation and the code's use of it say: it
  refuses a query that defines a name twice, takes both ends of the window in, and
  stops an aggregate or a list at its limit without saying which rows are missing. Which
  rows it keeps of a cut aggregate is any of them.
- In `Startup` a signal that comes before `installShutdown` ends the process at once,
  which is node's default, with one status for either signal: no property reads it. Times are steps of 5 s.
- In `PageView` times are steps of 30 s and one dashboard page is open. In `Chart`,
  `DataTable` and `SettingsPage` sizes, places, keys and the pointer's path are left out. A PUT that
  failed for the browser is not stored later.
- In `Credentials` `RestartKeepsKey` is about a death with no request in flight; what a death in the middle of
  a request leaves is told only by `FileWasAccepted`. In `MetricPanels` `HeadlinesAreOfSamples` is about
  sums, largest values and restarts, not about a state's last or smallest value.

Not modelled: the text of queries and of log patterns, and the translation of Go's
regular expressions (string building that no state depends on, and that the parity script
compares); the page walks of `aws/discovery.ts` (one loop per listing that turns records of
the SDK into resources; the requests around them are in `Page`); AWS clients (a library);
static files, the wire types and the traffic check (no state); drawing and the formatting
of numbers (`PanelCard`, `BarBreakdown`, `format.ts`); the credentials card, whose server side is
`Credentials`; the launcher and the build scripts. The Go engine is not modelled: it
promises what the node engine does and `scripts/parity.mjs` compares their answers, but its
steps are separated by mutexes and not by awaits, so nothing above is claimed of it.

## 7. Plan

The order was: the parts where requests interleave over shared state (`Cache` with
`SingleFlight`, `Credentials`, `InsightsRunner`, `ConfigStore`), what composes them (`LogPanels`,
`Page`), what makes the numbers (`TimeWindow` to `MetricPanels`, `LogFormat` to `LogRows`), the browser
(`PageView`, `Chart`, `DataTable`, `SettingsPage`) and the process (`Startup`). What is left:

1. That a page leaves the metrics of its requests alone: `Page` over the fetch, as `LogPanels` is over
   the cache, so that what is proved of one panel is proved of the page it is on.
2. A variant of `Cache` for the Go engine, whose steps are separated by a mutex and
   whose waiters heed their context.
3. `PageView` composed with `Page`: a refresh that aborts a page while another
   browser waits for its loads.
