# Reddit cluster map: TLA+ models and proofs

This directory specifies the parts of reddit-cluster-map whose correctness
depends on what happens between two statements: the crawl queue in PostgreSQL,
the processes that share it, the pipelines built on it, the clients of the API,
and the algorithms whose results the rest of the program relies on. The modules
are checked by TLC on small instances. Every safety property the passing runs check
is also proved by TLAPS, for every value of the constants; liveness is checked only.

Source paths below are relative to the root of the repository; `internal/`
stands for `backend/internal/`.

## 1. The system

Three Go programs share one PostgreSQL database and no memory. A React client
talks to the first over HTTP.

| Program | What it does |
| --- | --- |
| `cmd/server` | the HTTP API, the admin endpoints, rate limits, response caches |
| `cmd/crawler` | claims rows of `crawl_jobs`, fetches Reddit, stores posts, comments and users, enqueues what it discovers; runs the cron scheduler |
| `cmd/precalculate` | resets stuck rows, computes activity and relationships, builds the graph tables, communities and layout, records a version with its diffs |
| `cmd/integrity` | run by hand: counts and deletes orphans and dangling rows |
| `frontend` | loads the graph, lays it out in a worker, draws it, searches it |

There is no message bus and almost no transaction: processes communicate by
writing rows that others read later. Each SQL statement is atomic; a handler or
a pipeline is a sequence of autocommitted statements, and anything may happen
between two of them. The exceptions are the claim of a job (one transaction
with a row lock), the batch inserts of nodes and links, and the deletion of
old versions (one statement that cascades).

### Components

| Component | State | Operations | Talks to | Must be true of it |
| --- | --- | --- | --- | --- |
| crawl queue (`crawler/jobqueue.go`, `jobs.go`, `worker.go`, `queries/crawl_jobs.sql`, `handlers/crawl.go`, `admin_jobs.go`) | `crawl_jobs`; what each crawler works on | enqueue, bump, claim, start, mark, discover, reset, requeue, age, admin retry, status, priority, boost | crawlers, API, scheduler, precalculation through the table | one crawler per row, no outcome without a crawl, every queued row gets one, nothing starves |
| precalculation (`graph/service.go`, `cmd/precalculate`) | graph tables, activity, relationships, `precalc_state` | full and incremental run, manual run | reads what crawlers write | the graph holds nothing that is not in the source, and a run leaves everything it was to take |
| versions and diffs (`graph/versioning.go`, `handlers/version.go`) | `graph_versions`, `graph_diffs`, `precalc_state.current_version_id` | create, tag, diff, retention, diff since | precalculation, consumers | a consumer that applies diffs holds the graph of a version |
| scheduled crawls (`scheduler/*.go`, `handlers/scheduled_jobs.go`) | `scheduled_jobs`; the batch of each process | list, enqueue, reschedule, create, update, toggle, delete | crawl queue | due rows run, at the right distance |
| Reddit client (`crawler/token_manager.go`, `client.go`, `ratelimit.go`, `httpx`) | token, credentials, timer, lock | get, refresh, fire, rotate, retry | Reddit | token and credentials belong together, calls end |
| circuit breaker (`circuitbreaker`) | state, counts, time of last failure | call | nothing yet: only its tests use it | closes on enough successes, opens on enough failures, does not stay open |
| community detection (`graph/communities.go`) | a graph, a partition, levels | move, renumber, meta-graph, next level | precalculation | levels nest, components stay apart, it ends |
| paging (`handlers/graph.go`, `queries/graph.sql`) | none in the server; the cursor in the client | page | clients, writers of the graph tables | what stands still is given exactly once |
| crawl content (`crawler/jobs.go`, `comments.go`, `discovery.go`) | posts, comments, users, subreddits; the authors seen | list, store posts, two passes over a thread, look up authors, enqueue mentions | Reddit, the tables, the crawl queue | a reply is stored with what it replies to, an undisturbed thread is complete |
| community stores (`graph/communities.go`) | five community tables | clear, insert row by row, bundles | handlers that read them | rows fit together, an undisturbed store is what was detected |
| graph API and caches (`handlers/graph.go`, `communities.go`, `export.go`, `cache/lru.go`) | cached answers with TTL | get, fill, evict, clear, caps, fallback | all clients | an answer is to what was asked, and no older than an entry and a request |
| middleware (`middleware/*.go`) | limiter per address, global limiter | look up, make, allow, clean up | all requests | a client never gets more than its burst and rate |
| user accounts (`handlers/auth.go`, `authstore`) | `oauth_accounts` | sign in, refresh | Reddit | the newest refresh token is kept |
| server layout (`graph/service.go`) | positions | batch update | handlers | |
| integrity (`integrity/service.go`) | the tables above | counts, deletion loops | the tables above | what it deletes while others write does no harm |
| seeding, settings, backups, listings | the tables above | single statements | the tables above | |
| frontend loader, search, level of detail, simulation and worker | component state, timers, abortable requests, worker messages | load, abort, type, tick, resize | the API, the worker | the newest answer wins, indexes match the data |
| metrics, tracing, logs, configuration, scripts | none that others read | | | not modelled |

`PROJECT.json` lists every component with its files and its status.

### What is hard here

* The same row is written by crawlers, handlers, the scheduler and a reset that
  cannot tell a dead crawler from a slow one.
* Every pipeline is a sequence of statements, any of which may fail or be the
  last: errors of several statements are dropped on purpose.
* Two precalculation processes, or a manual run beside the loop, are not kept
  apart by anything.
* Values are read, then used after other statements: priorities, cron
  expressions, snapshots, cutoffs, tokens, cursors.
* Locks are given up and taken again (breaker, token manager, limiter).
* The client aborts requests whose answers may already be on their way.

`PROJECT.json` lists each such place with its line under `hazards`, with the
properties that cover it or the reason why none does.

## 2. Plan

| # | Module | Composes with | Abstract specification | State |
| --- | --- | --- | --- | --- |
| 1 | `JobQueue` | refines `CrawlLifecycle` | `CrawlLifecycle`: one request of one subreddit | checked, proved |
| 2 | `Precalc` | source tables as its environment | what a run was to take is in the graph | checked, proved |
| 3 | `GraphVersions` | refines `GraphHistory`; graph tables as its environment | `GraphHistory`: published graphs and the consumer's copy | checked, proved |
| 4 | `CircuitBreaker` | | | checked, proved |
| 5 | `Scheduler` | its effect on the queue is `ScheduledEnqueue` of `JobQueue` | | checked, proved |
| 6 | `RedditClient` | | | checked, proved |
| 7 | `Communities` | called by a run of `Precalc` | nested partitions | checked, proved |
| 8 | `GraphPages` | writers of the graph tables as its environment | | checked, proved |
| 9 | `GraphStream` | overlapping loads of `StreamingGraphLoader` | what a load was given, in its order | checked, proved |
| 10 | `SearchBar`, `LevelOfDetail` | timers and requests; animation frames | the newest query is shown | checked, proved |
| 11 | `LayoutSim` | page, simulation, worker and renderers by messages | positions belong to the data shown | checked, proved |
| 12 | `CrawlContent` | what a crawl of `JobQueue` does between start and outcome | threads hang together | checked, proved |
| 13 | `CommunityStore` | two processes that store what `Communities` finds | the detection the tables show | checked, proved |
| 14 | `GraphAPI` | rewrites of the tables as its environment | an answer and its age | checked, proved |
| 15 | `RateLimiter` | | an ideal bucket that is never removed | checked, proved |

Components that share nothing are checked together where one question covers
them: an MC module instantiates them, the initial state picks the one that runs
and the others stand still, so the states add up instead of multiplying.

The theorems cover every invariant and every action property of the passing runs.
What is left to TLC is liveness (section 5).

## 3. Modules

Every module begins with what it abstracts; `PROJECT.json` maps each definition
to the lines it models. What the modules have in common:

* **A statement is a step.** Local variables of a handler that survive a
  statement are variables of the module (`job`, `call`, `run`, `proc`,
  `client`); those that do not are bound by `\E` or `LET`.
* **Time is what the code compares.** Ages, intervals and deadlines are sets of
  rows past a threshold, or numbers that count down and stop at 0, so that no
  bound on time is needed.
* **A failing statement** changes nothing and is a disjunct next to the one
  that succeeds. What the code does with the error (drops it, logs it, returns)
  is the rest of the action. The constant `Faults` allows them, or `MaxFaults`
  bounds how many there are, with the deaths of processes.
* **History variables** (`overridden`, `disturbed`, `spoilt`, `published`,
  `streak`, `since`, `stable`, `marred`, `exact`, `owed`, ...) are never read by a
  guard. They record what a property needs to know of the past.
* **Mutants.** A definition whose comment begins with "Mutant" is not used. It
  is what a likely mistake would make of the definition it stands before; the
  property it breaks is named in `PROJECT.json`.

The theorems about a module stand in one of eight proof modules:

| Proofs | About |
| --- | --- |
| `JobQueue_proofs` | `JobQueue` and its refinement of `CrawlLifecycle` |
| `Writers_proofs` | `Precalc`, `CommunityStore`, `CrawlContent`, and the three side by side |
| `Readers_proofs` | `GraphVersions` and its refinement of `GraphHistory`, `GraphAPI`, `RateLimiter`, and the three side by side |
| `Outbound_proofs` | `RedditClient`, `CircuitBreaker`, and the two side by side |
| `Scheduler_proofs` | `Scheduler` |
| `Communities_proofs` | `Communities` |
| `Frontend_proofs` | `GraphStream`, `SearchBar`, `LevelOfDetail`, `LayoutSim`, `GraphPages`, and the five side by side |
| `SumTheorems` | sums over finite sets, which several of the others count with |

### JobQueue

The table `crawl_jobs` and everybody who writes to it. A subreddit is its row;
`status`, `priority` and the order of creation are kept, timestamps become the
sets `starved` (over an hour old) and `stale` ('crawling' and not written to for
`RESET_CRAWLING_AFTER_MIN`).

| Action | Code |
| --- | --- |
| `ClaimSelect`, `ClaimCommit`, `ClaimAbort` | `ClaimNextJob`: `FOR UPDATE SKIP LOCKED`, the update, the commit |
| `MarkStarted`, `CrawlStored`, `CrawlFails`, `CrawlSucceeds`, `Discover` | `handleJob` |
| `Start`, `Crash`, `PrecalcStart` | `Crawler.Start`, the death or cancellation of a process, `ResetIncompleteJobs` of `cmd/precalculate` |
| `Maintenance`, `RequeueStale` | the tickers of `worker.go` |
| `PostCrawlCheck`, `BoostRead`, `ScheduledEnqueue`, `CallWrite` | two-statement handlers |
| `AdminSetStatus`, `AdminRetry`, `AdminSetPriority`, `AdminToggle` | `handlers/admin_jobs.go`, service settings |
| `GrowStale`, `GrowStarved` | time |

`CrawlLifecycle` says what the queue promises about one subreddit. The
refinement maps the owner of a row to the crawler that works on it. It has no
step from a failure back to the queue: the retry the documents describe has no
caller in the code (`MarkFailedWithRetry` is what it would be), which the run
`jobqueue_retry` shows.

### Precalc

`PrecalculateGraphDataWithMode` statement by statement for any number of
processes, over source tables a crawler keeps writing. A post is the time of
its last write. `Deferred` is the deferred `UpdatePrecalcState`, which every run
that passed the decision executes last, failed ones included, and which stores
the time of that moment and NULL totals: not the start of the run, as the
success path does a moment before it and a comment there says
(`precalc_cutoff`).

`ClearGraphTables` is `TRUNCATE TABLE graph_nodes, graph_links`. PostgreSQL
refuses it, because `graph_community_members` has a foreign key on
`graph_nodes` (`migrations/schema.sql:139`) and is not in the list. The constant
`ClearRefused` says which of the two is modelled: the algorithm with a clear that
works (`writers_safety`), or the refusal and what follows from it
(`precalc_refused`, `precalc_cutoff`). With the schema of the repository a full
run never gets past its clear; what the program does is incremental runs.
`FullRunCovers` is therefore about a database without that foreign key, and says
so; `GraphIsGrounded` and `IncrementalRunCovers` are about both, and their
theorems hold for both values of the constant.

`disturbed` notes for every run whether it met another run, a failure or a
cleanup. A crawler that writes meanwhile does not disturb it: a run promises
what was there when it started (and, if incremental, is newer than its cutoff),
whatever is written before it ends.

`CleanupOrphanGraphNodes` is `cmd/integrity` run by hand: it deletes a batch of
the nodes without links, and between the nodes and the links of a rebuild every
node is one. A run it disturbs promises nothing.

### GraphVersions

The versioning part of a run (two snapshots, version, tag, one INSERT per diff
entry, retention) and `GetDiffSince` as the three reads it makes. A snapshot is
read with the statement of the graph API, whose rows do not scan once there is
a link (section 6): `Capturable` says when it succeeds, and the versions of all
other runs have no diffs. `Purge` is what `cmd/integrity` deletes meanwhile. Foreign keys
are guards: `Referable`, and the refusal to delete the tagged version. The
version is 'completed' from its first moment (`versioning.go:304`), so the
consumer of the model may read diffs that are still being stored, and retention may
delete diffs between two of its reads; a run that overlaps another, or fails, may
leave a version with the wrong diffs (`spoilt`). `FollowersAgree` speaks of consumers
to whom none of this happened (`sure`).

`GraphHistory` is what they are promised: a sequence of graphs, and consumers that
join with the newest, catch up to the newest, or lose what they have. The
refinement (`ImplementsHistory`) maps `published` to the sequence and a consumer
that could be sure to the version it was told and the graph it has; one that is
not sure has lost it. `FollowersAgree` follows from it. The number may be behind
the graph, because the query of the diffs has no upper bound, and the next
response then repeats diffs already applied.

### CrawlContent

`handleJob` between taking a job and marking its outcome: the pages of the
listing, the posts, both passes over the comments of each post with their
users, the authors whose subreddits are looked up once per process, the
mentions. A statement that fails leaves the loop or goes on exactly as the code
does; `Restart` is a process that dies and forgets whom it has seen.

| Action | Code |
| --- | --- |
| `HandleJob`, `FetchPage`, `ListingDone`, `CrawlEnds` | `handleJob`, `CrawlSubreddit` |
| `CrawlAndStorePosts`, `PostsDone` | the row of a post and its author |
| `CrawlComments`, `SkipPost`, `FirstPass`, `SecondPass`, `NextPost` | `CrawlComments`: a thread whose comments are inserted parents first |
| `FetchForAuthors`, `ShouldFetchForUser`, `QueueUserSubreddit`, `EnqueueUserSubreddit`, `NextAuthor` | `discovery.go` |
| `ExtractMentions`, `EnqueueLinkedSubreddits` | the subreddits named in titles and texts |
| `Restart`, `DeleteComment` | the death of a process; an author at Reddit |

### CircuitBreaker

`canAttempt`, `recordFailure`, `recordSuccess`, one step per critical section of
the mutex. `Release` and `ToHalfOpen` are the two halves of the lock upgrade,
between which other callers run.

### Scheduler

The scheduler goroutine of each crawler process, the handlers that edit the
table, and the cron arithmetic relative to a clock modulo a cycle that all named
periods divide.

### RedditClient

`getAccessToken` with its read lock, write lock and second look, the refresh
that holds the write lock through all its attempts, the timer that fires without
looking again, the rotation with its rollback, and requests that keep the token
they were built with. The unit of time is the 60 seconds of the code. A token
whose life is at most 120 s is never served from memory (the shortened expiry
is shortened again by the check); Reddit's live an hour or a day.

### Communities

The hierarchical and the flat clustering, move by move, in any order of visits.
The gain is computed in whole numbers; it counts the moving node among the
degrees of the community it leaves, as `modularityGain` does, so a pass can
oscillate until its cap.

### CommunityStore

`storeHierarchy`, `storeCommunities` and `computeAndStoreEdgeBundles`, in the
order in which the end of a run calls them, one statement per row, by two
processes. An insert that fails is logged and passed over, and a foreign key
may be why: the nodes and communities a row refers to can be gone. Bundles are
computed from the tables, not from what the process found.

### GraphAPI

Every handler that reads the graph, by its statements: `RowsOf` says what each of
them selects, as the set of outcomes where the order is not determined. A
request looks in the cache (`Ask`), starts a statement (`Issue`), is given its rows
(`Arrive`) or an error (`QueryFails`), and answers (one action per handler); its
deadline may come first (`Abandon`). A fill is asynchronous and lands at any later
time, unless the cache drops it (`Set`, `Evict`); an administrator clears the cache
(`InvalidateCache`). `Rewrite` stands for every writer of the tables. The age of
an answer is counted from the start of its first statement.

A filter of the types is `allowAll` (none was given) or a set of names. The cache
keys it by `TypeKey`, the names joined, which is `all` for no filter and for a
filter that names the type all: these two requests share an entry, although no
node is of that type. `AskedPairs` has both.

`AnswersAreRecent` and `AnswersFit` say what a client may rely on: an answer
is no older than an entry and a request may be together, and it keeps to the
caps, types, region or community that were asked for, although requests share
entries of the cache. The types of one filter are given up, the one that names
all, which may be answered from the entry of no filter; the other way round,
that no filter may be answered with nothing, is the run `api_types`. Positions
are left out, and with them the suffix `:pos` of a key, which makes a second
pair of that kind: the type named `user:pos`, and users with positions.

### RateLimiter

`Limit` takes a token of the bucket all share; `Lookup`, `Touch` and `Create` are the
critical sections of `getLimiter`; `Allow` is the bucket of the address, which
`CleanUp` may have removed from the map meanwhile. `owed` is an ideal bucket per
address that is never removed: `WithinTheRate` says that no more is admitted
beyond it than there are requests that can hold a removed one.

### GraphPages

`getGraphDataPaginated` with the query it runs, page by page, while any row
changes, appears or goes. A cursor holds the val of a node, the query compares
weights (0 for a val that is not all digits, such as the negative score of a
comment): a cursor with a negative val is a dead end, which `EndIsComplete`
excludes.

### GraphStream

`load` of the 3D view beside the effect and the buttons that start it, and both
forms of the streaming loader. A load is a record: its filters, its signal, what
it received. `Respond` chooses the form (NDJSON, JSON in batches, JSON at once)
and the order in which nodes and links come; `ReadChunk` takes any number of
lines off it, because a chunk may be cut anywhere. A batch is added to the data of
the page whoever loaded it: nothing but its signal tells a load that it is late.

| Action | Code |
| --- | --- |
| `SetFilter`, `Reload` | the effect with its abort, the two buttons without one |
| `Respond`, `Fail`, `Reject` | the answer of `fetch`, an error with a message or an abort |
| `Batch`, `StopJSON`, `EndJSON`, `WholeJSON` | `loadJSON` |
| `ReadChunk`, `ReadEnd` | `loadNDJSON` |

### SearchBar

The text, the debounce timer, the request in flight and the list. `Type` and
`ClearSearch` restart the timer, `Search` and `SearchNothing` are its two ends,
`Listed`, `Failed` and `Rejected` what becomes of a request, `Drawn`, `Escape`,
`SelectNode` and `ClickOutside` what the user sees and does. A request that was
aborted is rejected by the browser, whatever its answer; nothing else tells an
old answer from a new one.

### LevelOfDetail

`AdaptiveLODManager.update` once per animation frame, with any of three rates
and any gap to the frame before. Times are counted down to 0, the average is
taken over a window of the last frames. `beat` changes with every frame, so that
a frame which changes nothing else is still a step that fairness speaks of.

### LayoutSim

From the filtered graph to the places on the screen. The effects of
`Graph3DInstanced` post messages to the worker; the worker sends places back by
position, and the page applies them to the nodes it has by then. A place is
whom it was computed for and in which graph's layout, which is exactly what
applying by position can confuse.

| Action | Code |
| --- | --- |
| `SetGraph`, `Relayout`, `Recolour`, `Rebuild` | the effects on the graph, on physics and flags, on communities, and of the scene |
| `WorkerReceive`, `WorkerTick` | the message handler and the ticks of `layoutWorker.ts` |
| `PageReceive`, `WorkerError`, `MainTick` | `handleWorkerMessage`, the fallback, the simulation of the main thread |

## 4. Runs

| Run | Instance | Shows |
| --- | --- | --- |
| `jobqueue_safety` | 2 rows, 2 crawlers, 1 handler, admins, faults, slow crawls | `ExclusiveInv`, `OutcomeNeedsCrawl` |
| `jobqueue_live` | 2 rows, 2 crawlers, faults and crashes, no admins, crawls below the threshold | the table implements `CrawlLifecycle`; `QueuedGetsOutcome` |
| `jobqueue_oldest` | 2 rows, 1 crawler, admins who set the highest priority | `OldestIsServed`: aging prevents starvation |
| `jobqueue_retry` | 2 rows, 1 crawler that never stops, no admins, no faults | violation: a failed row is never retried |
| `writers_safety` | side by side: 1 user, 2 subreddits, 2 processes, manual runs, a clear that works, 2 faults, 2 writes; 2 processes that store 3 detections of 2 nodes, 1 fault; 2 crawls of a thread of 3 comments | `GraphIsGrounded`, `FullRunCovers`, `IncrementalRunCovers`; `StoredWeightsAgree`, `UndisturbedStoreIsExact`; `ThreadsAreWhole` |
| `precalc_refused` | 1 process, no faults | violation: a refused clear leaves a cutoff without a graph |
| `precalc_cutoff` | the same, 3 writes | violation: what is written during a run, after it was read, is older than the next cutoff and not in the graph |
| `readers_safety` | side by side: 2 requests of 2 kinds, 1 rewrite; 1 node, 1 link, 2 processes, 1 consumer, retention 2, 3 versions, 1 fault; 2 requests of 2 addresses | `AnswersHold`; `RetainedLogComplete`, and the log implements `GraphHistory`; `WithinTheRate` |
| `api_types` | a request without a filter and one for the type all | violation: the first is answered with nothing |
| `background_safety` | side by side: 2 rows, 2 schedulers, a fixed interval and a named expression; the client with 2 workers, 2 credentials, a short and a long life, 2 attempts; the breaker with 3 callers and thresholds 2 | `RunsAtTheirDistance`, `DueJobsRun`; `TokenIsGood`, `OneFetchPerExpiry`; `ClosesOnSuccesses`; `WaitsEnd` of the last two |
| `display_safety` | side by side: the detection on 5 nodes, 4 graphs, caps 3 and 4; 2 loads of 3 filters; 3 texts and 3 requests; frames of 3 rates and 3 gaps; 4 graphs, 3 changes of the page; 3 ids, vals -1..1, page sizes 1 and 2, with and without a filter | `WithinComponents`, `LevelsNested`, `MetaWeightsExact`, `DetectionEnds`; `LinksAreWhole` and `BrowserSettles` of several; `RestingPageIsCurrent`; `ListIsWanted`; `StableOnce`, `EndIsComplete`, `WalkEnds` |
| `pages_first` | 3 ids, pages of 2 | violation: a walk from the beginning skips all positive vals |

`background_safety` and `display_safety` put modules side by side that share
nothing but the run: `BackgroundMC` adds the scheduler to `OutboundMC` (client and
breaker), `DisplayMC` the detection of communities to `FrontendMC` (browser and
pages). Each passing run also checks the type invariants of its modules;
`LinksAreWhole`, `BrowserSettles`, `AnswersHold` and `WaitsEnd` are
conjunctions of properties of the modules. The five violations are findings: they
contradict a sentence of the documents or a comment that `PROJECT.json` quotes.

### Bounds and why they are enough

* *Two actors of a kind.* Every hazard listed involves two crawlers, two
  processes or a process and a handler; `Communities` and `GraphPages` have one
  algorithm and one walk, because walks share only the table. The breaker has
  three callers: one that opens it, one that upgrades, one that is late.
* *Two rows* give an order, a tie and a competitor; three ids give a page
  boundary with a row on both sides of it.
* `PriorityBound` stops the uncapped bump above the cap, so that priorities
  beyond `MaxPriority` occur. `MaxPriority` is 2 or 1 instead of 100: the code
  compares and adds, and both outcomes of each comparison occur.
* `MaxTime` is the number of writes to the source tables; two are enough for
  one before and one after the cutoff or the start of a run, three where the run
  is alone.
* `MaxVersion = 3` with `Retention = 2` is the first cleanup that removes
  something. `MaxFired = 1` lets one timer function wait for the lock while the
  next token is fetched. `MaxAttempts = 2` has a first, a repeated and a last
  attempt. `Lives = {2, 4}` are on both sides of the 120 seconds.
* The graphs of the detection are a path, two pairs tied by a link with a node
  apart, a pair and a path apart, and a triangle related in both directions.
  `MaxIterations = 3` is below what some graphs need to settle, so both ends of
  a pass occur: quiet and capped. `MaxLevels = 4` is the constant of the code.
* Two loads are a load and the one that replaces or overlaps it, three requests
  one that is aborted, its successor and one after the list was closed. Answers
  have a link back to an earlier node, so a link belongs to the batch of its later
  end, and batches of one, so a graph of three nodes needs three.
* Frame rates lie below, between and above the thresholds, gaps below, at and above
  the delays. Two graphs of the layout share a node at different positions, one
  comes with places, one is shorter. Three changes of the page are a graph, its
  successor and what disturbs it; two messages on their way to the page are
  enough for one to be out of date when the other arrives.
* One rewrite of one table is enough for an answer from before it, a fill that
  lands after it and an entry that outlives it; entries and requests live for
  one unit, so an answer may be 2 old and 3 would be wrong. The requests of a
  behaviour are chosen first, in pairs that share an entry or must not. Only
  the table some request reads is rewritten (the constraint `OnlyTablesRead`).
* One fault in the runs that create versions spoils one of three; runs that
  find links are kept to the first version (`FewWithLinks`): they store no diffs.
* Detections are two communities joined in both directions, one of both nodes,
  and what is left when a node is gone. A thread of three is a comment, its
  reply and the reply to that; any of them may be deleted at Reddit.
* A limiter with two requests and two addresses: one is removed while a request
  holds it, and made again for the other.
* Symmetry is used only in runs without temporal properties other than action
  properties, over sets whose members `Init` and `Next` do not tell apart.
* Deadlock is not checked where the system may stop: a queue with all crawlers
  down and nobody asking, a bounded number of writes or versions, a
  page that its user leaves alone.

### Fairness

* Crawlers: the container restarts them (`restart: unless-stopped`), tickers
  fire again and again and Go's `select` picks among ready channels at random.
  Claims and maintenance are strongly fair, because crashes and long crawls
  come between. Steps of a crawl and the statement that records its outcome do
  not fail for ever. Requests, admins, crashes and faults are not fair.
* Breaker: callers keep calling and their functions return; time passes.
* Scheduler: its goroutine runs, the clock ticks, and a process is not stopped
  for ever exactly when it has nothing left to do that a restart would spare it
  (`Stopped`).
* Reddit client: attempts end (HTTP timeout) and Go's mutex is fair to those who
  wait, so the lock is strongly fair.
* Retries (`jobqueue_retry`): all of this, with statements that never fail.
* Communities: once it has its data the algorithm runs on its own.
* Level of detail: animation frames go on and time passes. The tiers are only
  promised for rates that stay below or above a threshold for ever; the scene is
  made anew, and the tier overridden, finitely often.
* Layout: both event loops take their messages, d3's timers fire. Changes of the
  page and the failure of the worker are not fair.
* Loads and searches: none; what is said of them is safety, at rest included.
* Pages: a client that has a cursor asks for the next page and is answered.
* Writers and readers of the tables, limits: none; what is said of them is
  safety. A run states the fairness of every component it checks, each for the
  behaviours that are its own (`OwnFairness`, `SchedulersFairness`,
  `DetectionFairness`).

## 5. Proofs

Every invariant and every action property of the passing runs is stated by a
theorem, and so are the two refinements. The theorems hold for every number of rows,
processes, nodes, requests and messages, under the `ASSUME` of the modules alone.
What those assume is that sets which are counted or summed over are finite
(users, subreddits, nodes, the rows of an answer), that numbers are natural, that
the page can have all its types switched off (`"none" \in TypeFilters`), that an
answer has the two fields it has, and that the nodes of a laid-out graph come in a
sequence. Where components stand side by side, theorems
do too (`WritersSpec`, `ReadersSpec`, `OutboundSpec`, `FrontendSpec`): a step is a step
of one of them and leaves the variables of the others alone. `WritersKeepAll`, `ReadersKeepAll`,
`OutboundKeepAll` and `FrontendKeepAll` carry what was proved of the components
on their own over to those specifications. TLC runs the first two as they are, and
the others with one component more (`BackgroundSpec`, `DisplaySpec`), whose
theorems are about its own specification (`SchedulerSpec`, `DetectionSpec`).

An invariant that TLC checks is seldom inductive. What follows names, for each
module, what had to be added and why.

**JobQueue.** `TypeCorrect` is inductive as it stands, because `TypeOK` says
that a crawler holds a row exactly outside its two idle states.
`ClaimsAreExclusive` needs `ExclusiveInv`: `ExclusiveClaim` alone does not
survive a claim, since it takes the row to be 'queued' while nobody works on it;
`ClaimedReadsCrawling` says so, and `OpenClaims` keeps that true between the
SELECT and the commit. `OutcomesAreCrawled` follows from
it step by step: a crawler that marks a row holds it, so the row reads
'crawling' or was overwritten.

`QueueImplementsLifecycle` is the refinement: `ImplementsLifecycle` under the two
hypotheses its statement names, that no admin writes (`~Admins`) and no crawl
outlasts the reset threshold (`~SlowCrawls`); statements may fail and processes
may crash. Under them nothing is ever overwritten (`Undisturbed`: a row old
enough for a reset has no crawler), so `ExclusiveInv` makes the crawler at work
on a row unique, which is what `Owner` chooses. A commit of a claim is a `Take`,
a mark with an outcome a `Settle`, a crash or a mark that fails an `Abandon`, a
reset a `Reclaim`, an insert a `Submit` if there was no row, and every other
step changes neither the status of a row nor its owner.

**Sums** (`SumTheorems`). Counts, weights and scores are sums over finite sets.
The induction theorems of the library cannot be used (they take an operator as a
parameter), so each fact about a sum is proved by its least counterexample: among
the subsets of a finite set for which it fails there is one that has no other
among them with one element less (`LeastSubset`, from the well-foundedness of <
on the numbers).

**Precalc.** Two invariants, for both values of `ClearRefused`.

* `GraphAlwaysGrounded` (`KInv`): what a run has fetched and not yet written must be
  grounded as well, since a run may write long after its `SELECT` and after
  another run has. The source only grows, so the sums that bound the counts of
  users only grow.
* `FullRunsCover` and `IncrementalRunsCover` (`CoverInv`): a run that nothing has
  disturbed has fetched, written and linked, stage by stage (`Covers`), the rows
  that are newer than its cutoff and no newer than its start, the counts of that
  time and the links of the nodes there are, whatever crawlers write meanwhile.
  A full run is the case without a cutoff, where every subreddit with a post up
  to its start has a node, so that every pair has its link. The first theorem
  speaks of runs only where the tables can be cleared; the second of every
  database.

**CommunityStore.** `StoredWeightsAlwaysAgree` (`WeightInv`): the database never gives
an id twice, so runs under way have no id in common (`Apart`), and a row that
names an id of a run was written by it and weighs what that run makes it weigh
(`OwnRows`). `UndisturbedStoresAreExact` (`ExactInv`): a run no failure and no other
run has disturbed has the tables to itself; they hold what it was to store less
what it has still to do (`Progress`). Sizes and the partition need that ids are
given to communities one to one.

**CrawlContent.** `ThreadsStayWhole`
has two halves: no reply is stored without its parent, and a thread none of
whose statements failed is stored but for what hangs below a comment Reddit no
longer shows. Neither speaks of what a crawl has yet to insert, so the invariant
does: what it remembers as inserted is in the table (`Recorded`), what it has
passed comes before what is left (`InOrder`: the parsed answer lists a comment
before its replies), and what it has passed is inserted, has no
parent to hang on, or failed (`Reached`). A crawl inserts below what it has
inserted itself (`Insertable`), and nothing deletes a row of `comments`. `Ensured`
says that a subreddit has its row before a job for it is made.

**GraphVersions.** `RetainedLogIsComplete`: that the newest versions stay is counted:
fewer than `Retention` versions lie after a version, so `Kept` has it. That
diffs are complete is an argument about runs that nothing disturbs: such a run
is alone from its first snapshot on (`GoodRunsFollow`), that snapshot is the graph
of the version before (`GraphIsPublished`: between runs nothing moves the graph
without spoiling the next version), and what it has stored with what it has
yet to store is the whole difference (`UnspoiltRuns`), so nothing is missing
when it comes to its cleanup (`DiffsComplete`). Ids are never used twice and
nothing is stored ahead of its version (`OwnIds`, `NoneAhead`).
`FollowersAgreeAlways` adds `ClientsFollow`: a consumer that could be sure has the
graph of some version from its own on. Its own need not do: diffs are read
after the newest id was, and may be newer.
`VersionsImplementHistory` is the refinement. That a response is complete turns the
graph of *any* version from the asked one on into the newest
(`FullResponse`): the diffs that were already applied are applied again, and the last
one that touches an entity decides (`DiffsAreApplied`). So a fetch is a `CatchUp`, or a
`Lose` if a version was missing, spoilt or still being stored; a refusal of a pruned
version is a `Lose`, `Subscribe` a `Join`, `CreateVersion` a `Publish`, and no other
step moves the sequence or what is held.

**GraphAPI.** `AnswersAlwaysHold`. What a requester holds is of the kind it asked for
and keeps to its caps and filters at every statement (`Suited`), a fill under way
carries the key of the request it answered, an entry of the cache fits its key,
and ages are bounded by what is left: of the query timeout before an answer, of
the TTL together with the timeout after it (`GoodEntry`). Which requests
share an entry is decided by `Key` as the code makes it, so what fits one of two
requests of a key has to fit the other (`FitsKey`): that is proved of all but the
filter of the type all, whose types `Fits` gives up.

**RateLimiter.** `LimiterWithinTheRate` is an argument about debts (`Backed`): beyond
what its limiter would admit, an address has had one token at most for every
request that may still hold a removed one; and a limiter idle for long
enough to be removed means that those have been made up for. For that,
addresses never share a limiter (`OwnLimiters`), and one that is about to be used has
just been touched (`Touched`).

**RedditClient.** `ClientTokenIsGood` and `ClientOneFetchPerExpiry`. A token belongs to
the saved credentials, and only the rotation, while it holds the lock, has
others in use (`TokenOfSaved`); whoever holds the lock
looked again and found no fresh token (`HolderRefreshes`), which is why two workers
that saw the same expiry fetch once; a timer waits for every token
(`RefreshScheduled`) and replaces it before its end (`InTime`).

**CircuitBreaker.** The invariant is the types, `BelowThresholds` and
that the count of successes is backed by the history of successes in a row
(`Backed`). `ClosesOnSuccesses` then holds of the one step that closes the breaker.

**Scheduler.** `SchedulerKeepsDistance`: `RunsAtTheirDistance` is about a step, its
invariant (`SpacedInv`) about rows and batches. The wait of a row and the time since its last
run make up a period unless it is running (`RowsSpaced`); what a process has listed
may run now (`TodoSpaced`) and is listed once (`OncePerBatch`). Two processes may list the
same row and run it twice: the history gives such a job up (`SharedSpaced`), as
it does one that was rescheduled from an expression replaced meanwhile (`outdated`).

**Communities.** For every graph and whatever the gains are. The invariant says
that for every set of nodes no link leaves, the members of a meta-node are all
in it or all outside, and so are its neighbours; moves go to neighbouring
communities only, so the set stays a union of communities. Renumbering is
injective, which carries the set to the next level. Nesting needs in addition
that every number of a level is used (`Onto`), since the next level is a map on
them. `CommunityWeightsExact`: the weight between two meta-nodes is the sum of the
weights between the meta-nodes of the level before, and sums of sums over sets
apart are sums over their union (`SumOfSums`), so at every level it is the sum of
the links of the graph.

**GraphPages.** The rows are totally ordered by weight and id. The invariant
says that what was given lies at or before the cursor and what stood still and
was not given lies behind it. A page that has rows has a last one, because a
finite set of rows takes its ranks one after the other.

**GraphStream.** `RestingPageAlwaysCurrent` (`StreamInv`): as long as aborts keep the loads
apart, at most one goes on and it is for the filters there are; the others are
aborted and have nothing left that reaches the page (`KeptApart`). When none goes on,
the page has the whole answer or an error (`SettledPage`). Each of the two flags has
somebody who will clear it (`LoadingEnds`, `ProgressEnds`). That a link never comes before its
ends needs, for JSON in batches, that what was put into batches has exactly the links
among its nodes (`SoundLoad`).

**SearchBar.** A request that is neither
answered nor aborted is the one the next abort reaches (`LiveIsCurrent`), so an
old answer cannot come after a newer one; and when no timer runs, what is
listed and what may yet be listed fits the field (`ListFits`), because the
timer always carries what the field holds (`TimerIsLast`).

**LevelOfDetail, LayoutSim.** The types of the first are inductive; what is of
interest there is liveness. `LinksMeetNodes` of the second needs `LayoutInv`: the
simulation has a place for exactly the nodes of the filtered graph, a running
worker has a graph, and every action moves nodes and links together, except
the one that recolours, which the history notes.

**What stays with TLC.** Liveness: `QueuedGetsOutcome`, `OldestIsServed`, `DueJobsRun`,
`WaitsEnd`, `DetectionEnds`, `BrowserSettles` and `WalkEnds`. Each is an argument from weak
or strong fairness, hence from `ENABLED`, which the installed provers do not
reason about; two of them (`DetectionEnds`, `WalkEnds`) would need a measure besides.
Nor is it proved that the bounds of section 4 lose nothing. The five
violations are counterexamples, which need no proof.

Liveness of the form "whenever this is so it ends" is written as "again and again
it is not so" (`[]<>`), which is the same and cheaper to check.

## 6. Disagreements between code and documents

Five are shown by runs.

* `jobqueue_retry`: `docs/JOB_SYSTEM.md:38` says that failed jobs are retried with
  backoff, and the crawler's ticker asks for the rows that are ready. `handleJob`
  marks every failure with `MarkCrawlJobFailed` and never with
  `MarkJobFailedWithRetry` (`jobqueue.go:160`), which has no caller: nothing
  writes `next_retry_at`, and no row is ever ready.
* `precalc_refused`: the first run is to rebuild everything and to initialise the
  state; PostgreSQL refuses its clear, and the state is initialised all the same.
* `precalc_cutoff`: `graph/service.go:944` says that the start of a run becomes the
  cutoff. The deferred update (`:382`) overwrites it with the end, so what changes
  during a run, after it was read, is older than the cutoff and no incremental
  run copies it.
* `pages_first`: a walk without a cursor is to start at the beginning; zero values
  take the place of NULL and it skips all positive vals.
* `api_types`: the filter of the type all and no filter have one key in the cache
  (`handlers/graph.go:48`, `:529`), and each is given the answer to the other.

Others were met while the modules were written; no run is spent on them.

* The statement that reads the precalculated graph selects NULL as the name and
  val of links, and the generated row has strings there
  (`db/graph.sql.go:2281`): it fails as soon as one link is selected. So
  `GetGraphData`, which "prefers the precalculated graph tables"
  (`handlers/graph.go:147`), always goes on to its fallback; snapshots of a graph
  with links fail, and their versions have no diffs; the export answers 500 and
  so does the subgraph of a community with links. `Scans` of `GraphAPI` and
  `Capturable` of `GraphVersions` model it.
* The totals that the 20% rule divides by are NULL after every run
  (`service.go:386`), so the rule never asks for a full rebuild.
* `jobqueue.go:70` has no cap on priority, `JOB_SYSTEM.md:15` gives 0 to 100.
* A boost reads the priority and writes the sum later (`admin_jobs.go:432`):
  it may lower a priority that was raised in between.
* `docs/runbooks.md:620` resets stuck jobs after 15 minutes; the code resets
  them when a process starts and not otherwise (`worker.go:66`).
* A crawl longer than the threshold is reset under its crawler
  (`jobqueue.go:43`), the reason for `overridden`.
* A version is 'completed' before its diffs are stored (`versioning.go:304`).
* The response cache of the diff endpoint lives for 300 ns
  (`handlers/version.go` passes 300 as a Duration).
* `docs/JOB_SYSTEM.md:80` lists `@every 7d`, which the constraint of migration
  000022 rejects.
* `modularityGain` counts the moving node in the community it leaves, and
  `calculateModularity` sums adjacent pairs only (`communities.go:252, 296`).
* A page that its type filter empties says `has_more` without a cursor, and the
  walk ends early (`handlers/graph.go:1252`); `EndIsComplete` says what a walk
  that ends without `has_more` is worth.
* The graph is never streamed: the ETag middleware that wraps the routes
  buffers the answer and its writer is no `http.Flusher` (`api/routes.go:109`). It
  also sets `Cache-Control` on answers that are errors (`middleware/etag.go:53`).
* `GRAPH_QUERY_TIMEOUT_MS` is 30000 in `docs/api.md:36` and 5 s in the code.
* `MAX_COMMENT_DEPTH` has three defaults: 3, 5 and 4 (`jobs.go:22, 125`, `comments.go:25`).
* `integrity` compares `parent_id`, stored with its `t3_` prefix, with the id of a
  post, and so counts every top-level comment as an invalid one. The orphan
  posts, orphan comments and dangling links it looks for cannot exist, because of
  the foreign keys.
* The second pass over a thread retries comments whose parents were not there
  (`jobs.go:267`), but the first already takes parents before their replies, and
  a parent that was not inserted then is not inserted later: it inserts nothing.
* A subreddit in two spellings has two rows and two jobs, and its posts go back
  and forth between them (`posts.subreddit_id`).
* `CrawlerQueue`, `FetchUserSubreddits` and package `redditapi` have no caller.
* An aborted load "silently" returns (`StreamingGraphLoader.ts:68`), but one
  aborted after its last await still calls `onComplete`, and replaces what its
  successor has shown so far; a load that ends because no type is selected leaves
  the progress of the one before.
* `SearchBar.tsx:67` aborts the request before; an emptied query returns before
  that line (`:54`), so the old answer opens the list of an empty field. The
  `finally` of an aborted request clears the spinner of its successor, and "No
  results found" shows while that is still on its way.
* `levelOfDetail.ts`: `setTier` to the tier there is does not end a transition,
  timers outlive `setTier`, frames of the old tier stay in the average after a
  transition, and the step from LOW to MEDIUM does not cross-fade (comment at
  `:441`).
* The scene of `Graph3DInstanced` is made anew when `initialCamera` changes
  (`:503`). `App` passes the camera it is told about every second
  (`App.tsx:395`), and the effects that fill the renderers do not run again
  (`Rebuild`): the places of `EndsAtOwnPlaces` are promised of a scene that stays.
* New community colours reset the nodes to the places they came with, the links
  stay where the layout had them (`Recolour`).
* "bypass worker/simulation entirely - just emit once" (`ForceSimulation.ts:346`):
  positions still on their way, or of a worker that a change of physics starts
  again, are applied to the nodes of the precomputed graph. `EndsAtOwnPlaces`
  speaks of such a graph only if the worker never had another one to lay out.
* Ping-pong buffers (`layoutWorker.ts:228`) are transferred, hence empty at the next
  tick and allocated again.

## 7. Not modelled

What Reddit sends, what PostgreSQL guarantees (atomic statements, row locks,
foreign keys) and what the Go runtime guarantees (fair mutexes, timers) is taken
from how the code uses them and marked external in the map. Of the components:

* *Server-side layout*: floating-point forces, whose values are out of TLC's
  reach. Its one effect, a batch write of positions, touches no column that
  another module reads.
* *User accounts*: sign-in stores tokens that nothing uses yet.
* *Seeding*: one check that the queue is empty and an enqueue per configured
  subreddit; the enqueue is an action of `JobQueue`, in every state.
* *Settings, backups, exports, listings*: single-row writes, input and output, and
  queries that change nothing.
* *Integrity*: its checks only count; of its deletions, the one that finds
  something is modelled.
* *Spatial index, frame budget, client community detection*: data structures and
  arithmetic of one thread between two frames, with no partner.
* *Rendering, application state and pages*: presentation. The URL is a copy of the
  state that is read once.
* *Metrics, tracing, logs, errors, configuration, secrets, scripts, load tests*:
  nothing another part depends on; the configured values that matter are
  constants of the modules.

Inside the modelled components the notes of `PROJECT.json` say what is left out.
