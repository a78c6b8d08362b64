# TLA+ verification of public_proxy_pool

`public_proxy_pool` collects public proxies from many sources, checks them all the time and serves the
ones that work. This directory holds the models of its parts, the TLC runs that check them on small
instances, and the TLAPS proofs for every instance. Paths are relative to the root of the repository.

## 1. Inventory

| Part | State it keeps | Operations | What makes it correct |
| --- | --- | --- | --- |
| Validator queue, `internal/validator/validator.go`, `queue.go` | heap of tasks, `inFlight`, `waiters`, workers (memory, under `mu`) | `Enqueue`, `RequestCheck`, `Start`, `worker`, `finish` | one check per node at a time; every caller gets its answer or its deadline; no send on or second close of a channel; requests are not starved; bounded work above the WAL limit and after shutdown |
| Node check, `runOne`, `internal/store/nodes.go` | `nodes`, `checks` tables | load, probe, `ApplyNodeCheck`, `BanNode`, `UpsertNodes` | no lost update of the counters; a check lands on the node it measured; bans follow the streak; the status is that of the latest check |
| Fetcher, `internal/core/supervisor.go`, `internal/sources/fetch.go` | `sources` table | `fetchTick`, `fetchOne`, `backoffUntil` | no list is lost; no two fetches of a source at a time; failures are backed off; ticks end |
| Cleanup, `cleanupOnce`, `internal/store/cleanup.go` | `checks`, `nodes`, `ip_facts` | three prunes | only what is old goes |
| Pool maintenance, `ensureFreshPool` | none | queries candidates and enqueues them | the pool is refilled when it is short |
| API, `internal/api/handler.go` | `okCount`, semaphore of a request | lists, exports, `syncVerify` | bounded concurrency, a deadline on every verify, what passed is sent |
| UI, `internal/ui/handler.go` | none | ban, unban, toggle, fetch now, add source | an operator's decision stays |
| Rate limiter, `internal/ratelimit` | a token bucket per key | `Allow` | at most burst + rps * t in a window |
| WAL guard, `internal/store/wal.go` | the WAL file | `EnforceWALSizeLimit`, pauses | writers pause above the hard limit |
| Lifecycle, `cmd/proxypool/main.go`, `migrate.go`, `seed.go` | all | start, migrate, seed, shutdown | starts can be repeated after a crash |
| NodeMaven client, `internal/sources/nodemaven.go` | slots and channel of a fetch | pages by a goroutine each, merge | every page that answered counts once; the fetch returns |
| Check tool, `internal/subcheck`, `cmd/subcheck` | jobs and results of a check | workers, interrupt, summary | results in their place; an interrupt ends it |
| Probes, `internal/validator` | a port, a directory and a sing-box process each | direct and tunnelled requests | the node asked is the node measured; nothing is left behind |
| Parsers and exporters, `internal/sources`, `v2ray`, `sub`, `subcheck` | none | links, Clash files, texts, groups | what is handed out is what is checked; what is written can be read |

How they interact: the supervisor calls `Enqueue` (maintenance tasks by node id, samples by
fingerprint), the API calls `RequestCheck`, workers write the two node tables, the fetcher writes them
and `sources`, the cleanup deletes from them, the UI changes bans and source records. Only the SQLite
database is shared between the components, one statement or transaction at a time; the validator, the
limiter, a request's goroutines, the pages of NodeMaven and the workers of the check tool share memory. The
hard behaviours are the hand-over between `finish` and `RequestCheck`, two checks of
one node, the seconds between a load and the write that depends on it, dropped errors between two
transactions, and records that are written back after they went stale. `PROJECT.json` lists them at
their lines, with the properties that would catch each.

## 2. Modules

| Module | Models | Notes |
| --- | --- | --- |
| `SingleFlight` | what `RequestCheck` promises | abstract: the set of owed checks and the state of each call |
| `ValidatorQueue` | `validator.go` (queue, workers, `RequestCheck`), `queue.go` | implements `SingleFlight` |
| `ValidatorQueueProofs` | | the theorems about `ValidatorQueue` (the other `...Proofs` likewise) |
| `NodeCheck`, `NodeCheckProofs` | `runOne`, `nodes.go`, `cleanup.go`, the ban buttons | relies on one task per node id, which `ValidatorQueue` shows (`OneTaskPerFlight`) |
| `SourceFetch`, `SourceFetchProofs` | `fetchTick`, `fetchOne`, `sources.go`, `fetch.go`, the source buttons, the cleanup of a listed node | with crashes |
| `SyncVerify`, `SyncVerifyProofs` | `listNodes`, `randomNode`, the sub handlers, `syncVerify`, the two queries | over `V == INSTANCE SingleFlight` |
| `RateLimiter`, `RateLimiterProofs` | `limiter.go` behind `rateLimitMiddleware` | |
| `WalGuard` | `wal.go`, the pausing loops, the ticker of `main`, the two limits | SQLite's log and checkpoints are external |
| `PoolUpkeep` | `validateLoop`, `ensureFreshPool`, its queries, `computeScore` | scores in units of 50 |
| `Lifecycle` | `main.go`, `migrate.go`, `seed.go`, `UpsertSource`, the handlers that write sources | a death between any two statements |
| `SingBox` | `ProbeNodeAccessSuite`, `startSingBoxHTTPClient`, `pickFreePort` | the process is external |
| `SubCheck` | `CheckNodes` and the interrupt | extends `SingBox` |
| `NodeMaven` | `FetchAllNodeMaven` | |
| `Links` | fingerprints, `ParseProxyURI`, share links, texts, tables, Clash entries as links | pure |
| `ClashExport` | `RenderClash`: entries, names, regions, groups | extends `Links`, pure |
| `Catalog` | the link columns of `nodes`, `UpsertNodes`, the formats of a subscription, `DetectFormat` | extends `ClashExport` |
| `StoreProofs` | | the theorems about `WalGuard` and `Lifecycle` |
| `SubCheckProofs` | | the theorems about `SingBox` and `SubCheck` |
| `CatalogProofs` | | the theorems about `NodeMaven`, `Links`, `ClashExport` and `Catalog` |
| `MC...` | | model values for the runs; `MCParts` puts the smaller parts side by side |

**ValidatorQueue.** Each critical section of `Validator.mu` is one action. `RequestCheck` has three:
listing the channel and pushing or joining (`RequestCheck`), the receive (`Receive`), and, after the
context ended (`ContextDone`), taking the channel off the list (`RemoveWaiter`); a `finish` may come
between the last two. The worker loop is `LoopTop`, `EndPause`, `PopNothing`, `Pop`, `Finish`. The check
itself is the time between `Pop` and `Finish`. The heap is a sequence in push order whose top is the
first element of the least priority number, which is the order of the pair (priority, seq). A channel is
a buffer of one answer (`box`) and a closed flag; `box` holds whose check the answer is of. The WAL size
is a Boolean, above or below the hard limit. `overrun` and `late` are history: tasks taken since the WAL
crossed the limit, and since the shutdown.

**NodeCheck.** Each SQL statement or transaction is one action, so that everything may happen between
two of them. A worker goes through load, probe, apply and ban with the values it read before; errors of
the store are dropped as in the code (`StoreMayFail`). Constraints that decide something are modelled:
the unique fingerprint, AUTOINCREMENT, and the foreign key with its cascade. `log` (the applied checks
of a row in commit order) and `promised` (until when an operator banned it) are history. `UpsertNodes`
of many nodes is one transaction in the code and one node per action here: no property relates two rows
of one list.

**SourceFetch.** A tick reads the due sources, starts each when the semaphore has a slot, fetches,
stores the nodes, writes the record, and ends when all are back. The three source types that send an
ETag share `Meta`; a NodeMaven fetch is an answer without an ETag. A version in `Long` lists more than
`IngestMaxPerSource` nodes: `fetchOne` shuffles and cuts it before it stores it (`Shortened`), and the node
that the model follows is in the part that is left or not; its ETag is recorded either way. A crash may
happen anywhere and keeps the tables. An operator's request reads the record and writes it back later. The
history variables say from which versions the node was stored (`ingested`), which were stored without it
(`cut`), what the last recorded fetch brought of it, and until when a source must rest.

**SyncVerify.** A behaviour is one request, from its first query to its reply, over any rows. Each
goroutine of `syncVerify` is a call of `SingleFlight`, so that what is checked here rests on what
`ValidatorQueue` implements and not on a second model of the queue. A row says how it stands to the
filter: it matches both queries, only that for the candidates, or none. `okCount` is read without its
lock; what the reader must have seen is only what the slots of the semaphore hand over: the k-th release
comes before the send k + `Slots` (`SurelySeen`), and later ones may be seen or not. Four times matter:
the `now` of both queries, that of the candidates, the beginning of a check, and the end of bans.
`fresh_within` is the client's. Each of the three queries may fail: the first ends the request with status
500, that for the candidates skips the verification, and the error of the last is dropped, so that the
reply is empty (`dropped` remembers it).

**RateLimiter.** A request reads the clock, waits for the lock, and decides. One token is `Cost` units and
a tick of the clock brings `Rate` units, so that the rate is a fraction and the arithmetic exact; the
code's floats are not modelled. `win` is the history of a window of time, which may be opened at any
request.

**WalGuard.** A loop looks at the file, enforces the limit when it is above the hard one, and pauses; the
ticker of `main` enforces always. The ladder PASSIVE, RESTART, TRUNCATE holds `walMu`; the last two wait
for readers and may give up with Busy and a nil error, as SQLite does. The statements of SQLite's
documentation that matter are in the head of the module: when a commit starts the log over, what each
checkpoint waits for, and when the file is cut.

**PoolUpkeep.** The loop counts the fresh nodes, takes the first candidates within LIMIT and leaves out
those in flight, which have had a place; the worker takes the oldest task; a failure lengthens the
streak, lowers the score to what the node still holds, and bans from the third on. Times are an order
(`byAge`), and freshness and bans end when they please.

**Lifecycle.** Each statement of the migration and of the seeding is an action, and `Die` may come
between any two. The next start may be of another release with other addresses. The toggle of a source
is a read and a write; what operators chose is history (`chosen`).

**SingBox, SubCheck.** A probe picks a port, gives it back, writes its directory, starts its process,
waits for something to listen, asks, and cleans up; every step may fail, and a process may exit at any
time. `SubCheck` hands the entries of a subscription to probers over an unbuffered channel.

**NodeMaven.** One request for the total, then a goroutine per page, with semaphore, buffered channel,
the goroutine that closes it, and the merge by the normalised key.

**Links, ClashExport, Catalog.** Text is abstracted to the parts the fingerprints are made of. What
matters in reading and writing them is kept: which parts a form carries, what unescaping makes of a
credential (`Unescape`, once per reading), that base64 may contain a slash, and the order of tokens in a
name. Loops over a list are `FoldLeft`, and a loop that filters one is `Only`. The `used` map of
`ensureUniqueName` is counted from what was rendered before (`TimesUsed`): the entries whose name was the
same until a number was added. `Carried` says what survives a Clash file: not socks4, the sni of vmess and
vless, a trojan without tls or with ws, or alterId; a space in a password is written as `+` by
`url.QueryEscape`, which `url.Parse` leaves; and a uuid is written without escaping. `Catalog` takes in
feeds, lets rows pass checks, renders the four formats, and reads them back the way another pool, a source
of this one or the check tool does.

**MCParts.** These parts, and the tick of `SourceFetch`, share no state, so their product would only
multiply states. `focus` picks the
part a behaviour is of and the others rest in an initial state; `Parts` says which parts a run has.

## 3. Runs

| Run | Instance | Shows |
| --- | --- | --- |
| `vq_safety` | 2 nodes, 2 calls, 2 workers of which 1 warm, 1 sample | types, single flight, channels, no lost answer, the two overshoot bounds |
| `vq_liveness` | 2 nodes, 2 calls, 1 worker, 1 sample | the validator implements `SingleFlight`, fairness included; requests are served, workers leave |
| `nc_sampling` | 1 fingerprint, 2 workers, 3 checks, samples, failing statements, 2 ids | no check lands on another row; no lost update of counters, streak, status |
| `nc_single_flight` | 1 fingerprint, 2 workers, 4 checks, no samples | the status follows the latest check, bans the streak |
| `sf_ingest` | 1 source, 2 versions, the second longer than `IngestMaxPerSource`, clock to 4, crashes, operators | an ETag stands for a list that was stored as far as the limit lets it; failures are backed off; a node that was listed and not cut is kept |
| `parts` | fetch, limiter, verify, wal, lifecycle, subcheck, maven, catalog; 772 472 states | the safety and action properties of these parts |
| `progress` | fetch, verify, wal, pool, subcheck, maven; 107 789 states | what must end: a tick, a request, a log above its limit, a short pool, a check, a fetch of pages |
| `nc_latest_check`, `nc_manual_ban`, `sf_etag`, `sf_backoff`, `sf_reappeared` | 1 fingerprint or source | disagreements, below |

**Properties of `parts` and `progress`.**

| Part | Properties |
| --- | --- |
| fetch | `NoOverlap`: only the wait for the tick keeps two fetches of a source apart; `TickEnds`, however sources share the slots |
| limiter | `LimiterTypeOK`; `WindowBounded`: burst + rate * (window + what its requests waited), however requests overtake each other; `RefusedOnlyTooSoon`: refusals never lock a client out |
| verify | `VerifyOvershoot`: the unlocked read costs at most `Slots` checks; `VerifiedIsReplied`: what passed is sent if the second query works, but for a row whose ban ended between the two clocks and a check that was joined when it was older than `fresh_within`; `VerifyEnds` with no help from the validator |
| wal | `LadderExclusive`: one ladder at a time, under `walMu`; `WalRecovers`: a log above the hard limit comes back under it |
| pool | `PoolRecovers`: a pool found short is full again while enough nodes are up |
| lifecycle | `SchemaComplete`, `SettingsSurvive`, `DefaultsSeeded`, across deaths, restarts and releases |
| subcheck | `NothingLeft`, `WrongTunnelOnlyByRace` (the reused port is the only way to another node's tunnel), `ResultsInPlace`, `CheckReturns` |
| maven | `PagesMerged`, `MavenReturns` |
| catalog | `LinkIsTheNode`: what the subscriptions hand out is the proxy that is checked; `ClashReadsBack`; `EveryProxySelectable`; `DuplicateOnlyBySuffix` |

**Bounds.** Two nodes, calls and workers are enough for every pairwise race in the validator (two callers
of one node, a caller and a maintenance task, a removal and a finish); symmetry is used in safety runs
only. Three checks reach the first automatic ban, four the second length; the third length differs from
them by one comparison. The clock counts ticks of five minutes; 15 minutes and an hour are longer ticks
whose order alone matters in `NodeCheck` (2 and 3), and are 3 and 12 in `SourceFetch`. Bounds of these
modules: `MaxSamples`, `MaxClock`, `MaxChecks`, `MaxIds`, `MaxFetchDelay`, `MaxVersion`, and one
operator's request at a time.

Bounds of the parts:

- fetch: two sources, one slot, the clock to 2, crashes; failing statements in `parts`.
- limiter: one client (buckets share nothing), two requests, `LimiterHorizon` 4, `MaxWaited` 2. Rate 3,
  cost 4 and burst 8 make a refill no multiple of a token and let the cap bite.
- verify: three rows, at most one valid and one banned to begin with, `Slots` 1, `Limits` {1}, so that
  three candidates are more than a request may send; `MaxMaintained` 1, `MaxEnds` 2, `MaxEvents` 3 (2 in
  `progress`). `ProbeTicks` is 2 and `FreshWithins` {1, 2} in `parts`: a client may ask for a freshness shorter
  than a check takes, or for one that covers it, as the default of five minutes does (`config.go:120`).
- wal: two loops, the ticker and a reader; limits 2 and 3, `MaxLog` 5, `MaxBusy` 2.
- pool: three nodes to begin with alike, of which the last is up, `MinFresh`, `MinLimit` and `MaxLimit` 1
  and one worker: the dead ones come first and take the only place. `MaxUpsets` 1. A LIMIT of one is the
  hardest case for starvation; with more places a good node is reached sooner.
- lifecycle: two releases that differ in one address, `MaxStarts` 2, databases of no, this and a later
  schema version.
- subcheck: two workers, two ports (one in `progress`), two tunnelled nodes and a direct one, in one
  subscription.
- maven: three pages with repeated items, two slots, at most three pages.
- catalog: nine feeds that bring together escapes (once and twice, of a percent sign, a space and a plus),
  base64 with a slash, a name ending in a number, ws, a scheme no reader takes, and the types of sources;
  `MaxImports` 2, `MaxVerdicts` 3, `IngestMax` 2.

**Fairness.** `ValidatorQueue` assumes that a call ends (every caller passes a context with
`SyncVerifyTimeout`, `internal/api/handler.go:183` and four more), that its goroutine then gets the lock,
and that a worker goes on (each network step of a check has a timeout). It assumes nothing of producers,
the WAL, `Start` or the operator; `OnDemandServed` therefore names the conditions under which a worker
may take tasks. A call that joined a queued maintenance task keeps that task's priority, and no property
promises that it is served. `SourceFetch` assumes that a fetch ends (`SourceTimeout`) and that the tick's
goroutine runs. `NodeCheck` has no liveness property and no fairness.

In `progress`, a handler and its goroutines run and the deadline comes, but no check need end
(`VerifyFairness`): a verify must end without the validator. The loops and the ticker of `WalGuard` run,
queries end, and `walMu` starves nobody, which `sync.Mutex` gives (strong fairness of `Enforce`); commits
and new readers are free, and Busy only by `MaxBusy`: readers that outlast `busy_timeout` for ever would
keep the log up. In `PoolUpkeep` the ticker, the workers, checks and bans go on; staleness and the
network need not. Probes and pages end by their deadlines; no process is obliged to start.

**Deadlock** is checked in every run but `parts` and `progress`: in the others time, crashes, cleanup or
the WAL may always move. In those two a request, a check, a fetch of pages or a bounded part does end.

**Assumptions of the passing runs.** `nc_single_flight` holds without samples and with a store that does
not fail; `nc_latest_check` shows what samples do. `sf_ingest` holds when failed responses carry no ETag
and the store works; `sf_etag` drops the first. `ListedNodeIsKept` is about lists that have the node after
the cut; 304s and cut lists are in `sf_reappeared`. Dropping the second breaks it as well: `fetchOne` drops the
error of `UpsertNodes` (`supervisor.go:342`) and records the ETag of the list that was lost. Setting
`StoreMayFail` to `TRUE` in `SFIngest.cfg` shows it. `WalRecovers` takes a size limit of at most the hard
limit. `LinkIsTheNode` exempts credentials that still have an escape after a reading; for rows of
NodeMaven it promises the link but not the fingerprint. `ClashReadsBack` exempts those rows and what a
Clash file does not carry (`Carried`).

## 4. Disagreements found

1. `nc_latest_check`: samples are not deduplicated (`validator.go:142`), so two checks of a node overlap
   and the older result can be applied last. The UI calls a valid node one whose most recent check passed
   (`overview.html:105`).
2. `nc_manual_ban`: the automatic backoff overwrites a 24-hour ban (`validator.go:415`, `nodes.html:190`).
3. `sf_etag`: the ETag of a failed response is recorded (`supervisor.go:125`); the list is then answered
   with 304 and not stored.
4. `sf_backoff`: "5m -> 15m -> 1h (cap)" (`supervisor.go:494`) never escalates, because a source is due
   only once its backoff is over.
5. `sf_reappeared`: a 304 refreshes no `last_seen_at` (`supervisor.go:143`, `cleanup.go:26`), nor does a
   list that `IngestMaxPerSource` cuts before the node, so a node that fails its checks is pruned although
   it is on the list at every fetch. `README.md:231` says that only nodes are deleted which have not
   appeared again. The run has the 304 alone.

Noticed while modelling, with no run of their own because nothing in the repository says otherwise or
because one line shows it:

- The ETag of a list that was cut to `IngestMaxPerSource` is recorded (`supervisor.go:149`): until the list
  changes, 304s hide the nodes that the shuffle left out. `ETagMeansIngested` names this exception.
- The error of the second query is dropped (`handler.go:186` and four more): a client whose nodes were
  verified gets an empty answer, which `api.html:156` explains by a lack of fresh nodes.
  `VerifiedIsReplied` names this exception (`dropped`).
- A nodemaven source that is switched off has no record of its fetches and is due at every tick
  (`supervisor.go:174`).
- With `SQLITE_WAL_SIZE_LIMIT=0` and a hard limit under 100 MiB, loops pause for a log that the guard
  leaves alone (`config.go:138`; the store puts its default later).
- A proxy whose credentials were escaped twice ends the process (`v2ray/parse.go:50`), or becomes a row
  without an address (`parse_proxy_text.go:118`).
- NodeMaven's fingerprint has four parts (`supervisor.go:216`), the parsers' six: one proxy, two rows.
- A delivered name that ends in "-2" may equal one that `ensureUniqueName` made (`clash.go:417`).
- A failed check blanks country and purity (`nodes.go:198`), which the candidates' query filters on.
- A node that passes now and then is never banned (`validator.go:407`) and keeps its place before unknown
  ones; a verify may join a check that began before it (`validator.go:155`).
- `toggleSource` negates a flag it read before (`ui/handler.go:469`), `updateSourceEMA` writes an average
  back in another statement (`validator.go:440`), and a source that is added again under its name keeps
  the ETag of its old address (`sources.go:25`).

## 5. Proofs

`ValidatorQueueProofs` holds for any sets of nodes, calls and workers and any number of samples, from
`QueueAssumption` alone: 0 is no node id, and the warm workers are workers.

- `InvHolds`: the inductive invariant `Inv` is `TypeOK`, `OneTaskPerFlight`, `ChannelDiscipline`,
  `NoLostAnswer` and `WorkersOff`. None of the first four is inductive alone: that `Finish` answers a
  listed call needs its buffer empty (`ChannelDiscipline`), that a received answer is the right one needs
  the call listed under its own node, and `Start` or the end of the warm-up would make a running worker
  drop its task if it were not "off" (`WorkersOff`). One lemma per part, one step per action. The lemmas
  `AppendNodes` and `WithoutNodes` say what a push and a pop do to the nodes in the queue.
- `TypeCorrect`, `SingleFlightHolds`, `ChannelsSafe`, `AnswersKept`: the parts.
- `ShutdownBounded`, `WalBounded`: from `LateOnce` and `OverrunOnce`, which say where in its loop a
  worker is once it overshot, so that the guard is met again before the next pop.
- `RefinesSingleFlight`: `SF!Init` and `[][SF!Next]`. `Finish` is the interesting step: it answers exactly
  the calls that are pending in `SingleFlight`, by `NoLostAnswer` and `ChannelDiscipline`.

`RateLimiterProofs` holds for any clients and requests, any rate, token and burst of at least a token,
from `LimiterAssumption`.

- `LimiterInvariant`: `LimiterInv` is `LimiterTypeOK` and `Ledger`. `WindowBounded` says nothing of
  tokens and is not inductive. `Ledger` adds three accounts of each bucket: what passed, and the tokens
  left, were paid for by the burst and the refill (`Balanced`); the refill lasted no longer than the
  bucket's clock ran and its requests waited (`Timed`), which is where a clock that moves back is paid
  for; and the tokens are at least what was earned since the last request that passed (`Earned`).
- `LimiterTypeCorrect`; `WindowsAreBounded` from `Balanced` and `Timed`; `RefusalsAreDue` from `Earned`.

`NodeCheckProofs` holds for any fingerprints, workers and numbers of checks and ids.

- `TableInvariant`: `TableInv` is types, `IdsAreUnique` (an id is given out once, which is AUTOINCREMENT),
  `SnapsAreOfTheirJobs` (the row a worker loaded, if it is still there, is that of its fingerprint) and
  `ChecksBelong`. The last alone is not inductive: a check is inserted with an id that was loaded seconds
  before, and it is on its own row only because no later row can have that id. `ChecksBelongToRows`.
- `CountersMatch`: `Counting` says that a row's counters, streak and status are those of its whole log. It
  needs `TableInv`, and nothing of who checks: it holds with samples, with failing statements, and when two
  checks of a node overlap.
- `LatestCheckDecides`, assuming no samples (`nc_latest_check` shows why): `InFlight` (a node has at most
  one check in flight, of the row that was loaded) and `InOrder` (a check in flight began no earlier than
  the last one applied to its row).
- `AutoBanIsByStreak`, assuming also that statements succeed: `StreaksAgree` says that the streak a worker
  loaded is its row's until its own check is applied.

`SourceFetchProofs` holds for any sources, slots, limits, intervals and versions, whichever are `Long`.

- `FetchInvariant`: types, and that nothing is fetched between two ticks. `FetchesDoNotOverlap` follows for
  every setting, crashes and failing statements included.
- `FailuresRest` (assuming that statements succeed): `Resting` says that the table holds each rest that is
  due, and that no source being fetched had one when its tick began. The button that fetches now ends a
  rest, in the table and in the history alike.
- `ETagsAreOfStoredLists` (assuming also that a failed response has no ETag; `sf_etag` shows why): every
  ETag that is in the table, or on its way there in a worker, an answer or an operator's request, is that
  of a list from which the node was stored, or of a longer one that was stored without it.
- `ListedNodesAreKept` (assuming that statements succeed): a node that its source's last recorded fetch
  brought, and the cut left in, is at least as fresh as that fetch (`NodesFresh`). It holds for any lists,
  long or not; `sf_reappeared` shows why a 304 and a cut list are left out.

`StoreProofs` holds for any loops, readers and limits, and for any releases and addresses.

- `CheckpointsExclude`: `WalInv` ties the place of each guard to `walMu`.
- `SchemaIsComplete`: `Migrated` says that the version is stamped after the tables, and that serving comes
  after the version, whatever died in between.
- `SettingsInvariant`, `SettingsOutliveRestarts`: the conflict clause of `UpsertSource` and the stale flag
  of a toggle leave each row as it was chosen last.
- `DefaultsAreSeeded`, under `OneAddressPerName`: within a release no name has two addresses, or seeding
  one source would undo another. The lists built into `internal/core/seed.go` satisfy it; `service.py`,
  which may add to them, is not in the repository.

`SubCheckProofs` holds for any probers (finitely many), ports, targets and subscription.
`CheckInvariant`: `CheckInv` has, for the probes, what each place of a probe owns (`Tidy`), whose each bound
port is (`PortsOwned`), that a probe which finds
another's process on its port is known to have raced (`RacesKnown`) and what it then measures
(`Measures`); and for the check, that jobs are sent in order (`Sending`), that a worker probes the node of its
job, which no other has (`Working`), and that each entry sent has a worker or a result of its own
(`Placed`). It gives `ProbesLeaveNothing`, `TunnelsAreOwn` and `ResultsAreInPlace`.

`SyncVerifyProofs` holds for any rows, slots and limits, over `SingleFlight`.

- `OvershootIsBounded`: `SlotInv` adds to `VerifyOvershoot` that a goroutine holds a slot until it ends
  (`Slotted`). The lemma `MissedFew` is the argument: the releases that a send may have missed are counted
  by the slots that were free, so that with the goroutines still open they are at most `Slots`.
- `VerifiedAreReplied`, for any `fresh_within` and whichever queries fail: `Timely` says that what passed
  began no more than `ProbeTicks` before the first query. So it is fresh at the second, which uses the same
  time, if it began after the first query or if `fresh_within` covers a check (`PassedInTime`).

`CatalogProofs` holds for any pages and for any well-formed feeds and verdicts.

- `PagesAreMerged`: `MavenInv` has types, that only the pages asked for have a goroutine and the channel is
  closed after them (`PagesAsked`), and that what is merged or in the channel is what the pages sent list
  (`NothingDropped`).
- `LinksAreTheNodes`, `NamesRepeatOnlyBySuffix`, `ProxiesAreSelectable`, `ClashFilesReadBack`, from one
  invariant, `CatalogInv`. `TableMade`: every row is one that a reader of this repository can make
  (`Made`): its fingerprint is that of its link, its credential was read, and its text reads back as the
  link. `DocMade`: the lines of a document are well formed, the names of a Clash file are made by
  `Numbered` with no number twice (`NamesFine`), and its groups are those of its entries. `DocGiven`: the
  rows a Clash file was made from stay, and the file gives them.
- The lemma behind `ClashFilesReadBack` is `OneFingerprintOneProxy`: rows of different fingerprints are not
  read as one, so that the deduplication of the check tool drops none.
- `ASSUME`s: a feed's lines are of its type, and what unescaping makes can be unescaped again
  (`CatalogAssumption`, `LinksAssumption`, `NodeMavenAssumption`).

Folds over lists (`Only`, `Unique`, the rendering, the merge) need induction over data, for which the
theorems of the library are out of the provers' reach. Here `FoldExists` shows, by the least number at
which it would fail, that a fold of any length exists; `OnlyGoesOn`, `UniqueGoesOn`, `AddGoesOn` and
`MergeGoesOn` give the result as the last of a function's values, one per element; and what is said of the
result is again shown by a least counterexample.

Assumptions on constants are types, sizes and the distinctness of special values, but for
`LinksAssumption`. TLC evaluates every one of them in some run. The theorems that assume more say so in their
statement.

Model-checked only: every liveness property (fairness and ENABLED are out of the prover's reach) and with it
the fairness half of the refinement and all of `PoolUpkeep`, whose one property is `PoolRecovers`. The
disagreements of section 4 are counterexamples. Every other property of the passing runs is stated by a
theorem.

## 6. Not modelled

System metrics (`/proc`, for display), the pages of the UI and the API that only read, `testNodeGoogle`
(changes no state), authentication (one comparison), the environment's parsing but for the two limits,
`service.py` and its reader, the lists of built-in sources (`Releases` stands for them), printing, the
fixed parts of the Clash file, and `Cleanup` of the limiter, which has no caller. What services say of a
proxy (anonymity, purity, location) is read from the network: a check takes any outcome. The cache of IP
facts only saves lookups. Averages and totals of a source are floats that order the due sources
(`sources.go:83`), which is any order in `SourceFetch`.

## 7. Plan

1. `SourceEMA`: starvation of sources by the order of `GetSourcesDue` and LIMIT, with the NodeMaven source
   that stays due while it is switched off.
2. `PriorityHeap`: the array heap of `container/heap` with `seq` implements the sequence of
   `ValidatorQueue`.
3. Fetcher and validator together: the growth of samples under WAL pauses.
4. Proofs: an inductive invariant of `PoolUpkeep` (a node in flight has a place, streaks and bans agree),
   the safety half of `PoolRecovers`; that `MCParts` implements each of its parts.
