# tg-channel-radar: a TLA+ model

tg-channel-radar collects the posts and counters of public Telegram channels from their web
preview (`t.me/s/<name>`), keeps a history of their metrics in PostgreSQL, shows them in a web UI,
and annotates them with an LLM. It is one asyncio process: every request, background task and
cron call is a coroutine with a database session of its own. This directory specifies the parts
of it in which the order of events matters, model-checks them with TLC and proves their main
invariants with TLAPS. Line numbers are those of the sources under `src/`.

`PROJECT.json` lists the runs, the mutants (for each property, a bug in a mapped definition that
the run must find), the source lines of every definition, the hazards and the theorems.

## 1. Inventory

| Component | Sources | State | Operations | What is hard |
|---|---|---|---|---|
| **ChannelStore** | `services/channels.py`, `models.py`, `db.py` | tables `channels`, `posts`, `post_metric_snapshots`, `channel_snapshots`; per session the loaded `Channel` | `add_channel`, `mark_pending`, `get_or_create_channel`, `delete_channel` | READ COMMITTED sessions overlap; an object is edited long after it was loaded; delete and re-creation |
| **Ingest** | `services/ingest.py`, `services/db_queries.py` | the local variables of each call, its open transaction | `ingest_channel` and its helpers | three awaits between a read and the write that depends on it; failures of the fetch at any point; overlapping ingests |
| **ChannelLifecycle** | `web/routes_api.py`, `web/background.py`, `services/refresh.py`, `web/routes_internal.py`, `templates/partials/channel_row.html` | `channels.status`, `_backfill_progress`, the row in the browser, in-memory background tasks | add, retry, delete, poll, first ingest with its deep pass, cron batch | tasks are lost in a restart; flag and commit are apart; polls read at any time; batches work from a list read earlier |
| **AiGateway** | `services/ai/client.py`, `web/deps.py` | breaker (`_consecutive_failures`, `_open_until`), budget (`_calls_today`, `_budget_date`) | `generate_json` | checked at entry, changed after the awaits, shared by all callers; midnight; retries |
| **TmeFetch** | `parser/tme.py`, `retry.py` | the local variables of one fetch | `fetch_channel`, `fetch_channel_page` | the channel changes between pages; three ways to stop; a failure on a later page |
| **RefreshBatch** | `services/refresh.py`, `services/channels.py` | order by `last_fetch_at`, time budget | `refresh_due_channels`, `list_refreshable` | starvation by channels that raise; overlapping calls work on lists read at different times |
| **AiTasks** | `services/ai/tasks.py`, `prompts.py`, `types.py` | `post_ai_annotations`, `channel_digests`; per job its open transaction | `classify_new_posts`, `explain_anomalies`, `get_or_create_digest`, `peek_digest` | one transaction spans several LLM calls and keeps its rows locked; duplicates in an LLM answer fail a whole batch; two tasks share a row; requests for one digest overlap |
| PageParser | `parser/normalize.py`, `parser/types.py` | none | HTML to `ParsedChannel` | CSS selectors |
| **Analytics** | `services/analytics.py`, `stats.py`, `analytics_types.py` | none (reads) | anomalies, badges, daily points, health, growth | missing values, undated posts, period boundaries; two queries that must agree |
| **ConnectionPool** | `db.py`, `web/background.py`, `web/routes_api.py` | five connections | checkout, return, timeout | a request keeps its connection while its job waits for others |
| WebPresentation | `main.py`, `web/routes_pages.py`, presenters, filters, errors | none | pages, formatting | - |
| Config, Migrations | `config.py`, `migrations/` | settings, schema | read once | - |

### How they interact

```
browser --HTTP--> routes_api --add_channel / mark_pending / delete--> channels table
   ^ polls every 2s     |  (after its response)
   |                    v
   +-- row <-- run_first_ingest --> ingest_channel --> fetch_channel --> t.me/s/
                 |  _backfill_progress   ^                    (TmeFetch)
                 +--> _run_deep_ingest --+--> posts, snapshots (ChannelStore)
                 +--> AiGateway.generate_json --> LLM
cron --POST--> refresh_due_channels --> ingest_channel (one channel after another), AiGateway
```

Shared state: the tables (through sessions), `_backfill_progress` (a module-level dict),
the `AiGateway` object (cached for the life of the process), the connection pool.

### What makes each component correct

* **ChannelStore / Ingest.** Snapshots are deduplicated and append-only; nothing is stored for a
  channel that is gone; a successful ingest has published what it fetched and reports exactly
  what it changed; no call waits for ever. After a success the row says "active" - which is true
  of one ingest at a time only (section 5).
* **ChannelLifecycle.** A pending channel has somebody who will resolve it; a progress entry has
  somebody who will remove it; rows stop polling, but not before the deep pass is over.
* **AiGateway.** Breaker and failure count agree; overshoot of the budget and requests past an open
  circuit are bounded; each call ends.
* **AiTasks.** The two tasks do not lose or orphan each other's annotations, a job reports what it has
  kept, and ends. A digest that is stored is not paid for again but by requests that had missed it, is of the posts
  of its period as they were at one moment, and belongs to a channel that exists.
* **TmeFetch.** What is returned has no hole and fills its window; each fetch ends.
* **RefreshBatch.** No healthy channel starves.
* **ConnectionPool.** Nothing leaks, and whatever waits for a connection ends.
* **Analytics.** The statistics agree with their definitions, and the parts of a page with each other - the badges
  with the explanations unless posts of one date are on both sides of the window's end (section 5).

## 2. Modules

| Module | Models | Correspondence |
|---|---|---|
| `ChannelRow` | the `channels` row and its edits | `Created`, `Pending`, `Failed`, `Succeeded` are the four places that set columns. `Written` is SQLAlchemy's UPDATE: only the columns that differ from what this session *loaded* are sent. That rule is what makes overlapping ingests interesting |
| `ChannelStore` | tables, sessions, transactions, the calls of `channels.py` | `lock[u]` is the row lock (or the unique-index entry) an open transaction holds; `loaded`, `object` are the ORM object before and after its edits; one action per statement that other sessions can interleave with |
| `Ingest` | `ingest_channel` | one action per await. The edited `Channel` is flushed by autoflush before the first SELECT of the write phase (`Flush`); from there to `Commit` the session holds the row. `draft` is what the open transaction has written. `FetchReturns` takes any page of `Pages`; `Raise` is any other exception, or the end of the process, at any await |
| `IngestInvariant` | - | the inductive invariant `IInv`, in named parts |
| `IngestProofs` | - | its proof, the action properties, and the refinement |
| `MetricHistory` | abstract specification | what ADR 0002 promises of a snapshot table: append on change, erase as a whole |
| `ChannelLifecycle` | requests, jobs, batches, browser row | an ingest is two steps, load and commit: `Ingest` justifies it, as nothing between the two is visible to others but the uncommitted INSERT (`inserted`) and the progress reports (`DeepProgress`). In that load the SELECT and the INSERT of `get_or_create_channel` are one step: a second INSERT waits for the first and then finds the row, where the code, if its SELECT was earlier, raises `IntegrityError` (`channels.py:37-45`); `Ingest` has these as steps of their own (`IngestLoad`, `IngestUnknown`, `IngestInsert`, `InsertRaises`). A worker is a request together with the task that follows it |
| `ChannelLifecycleProofs` | - | proofs about it |
| `AiGateway` | `generate_json` | a caller is `sending`, or `sleeping` between attempts; `Call` is everything up to the first await; `answered` and `stragglers` are history variables for the properties |
| `AiGatewayProofs` | - | proofs about it |
| `TmeFetch` | `fetch_channel` with `fetch_channel_page` | `PageBefore` and `Older` are the server; `Publish` and `Remove` are the channel meanwhile; ids stand for dates |
| `TmeFetchProofs` | - | proofs about it |
| `AiTasks` | `classify_new_posts`, `explain_anomalies` with the background jobs that call them | a session is one job: it reads the posts it will ask about (`Begin...`), then alternates LLM calls (`Answer`, `Unavailable`) and upserts (`WriteRow`, one row of the statement at a time, waiting for rows other transactions have written), and commits once at the end. `filled` is the committed table: the columns set in each post's row |
| `AiTasksProofs` | - | proofs about it |
| `RefreshBatch` | `refresh_due_channels`, `list_refreshable` | `queue` is the column `last_fetch_at` as an order: to each refreshable channel, and to each ingest under way at the time it has read, it gives those that come before. A commit puts the channel in the place of its ingest, so that one that began earlier and commits later sets it back, or takes it out (another status). `JobBegins`, `JobEnds` and `Withdrawn` are the other jobs. The time budget is `PerCall`: a call may stop after that many channels |
| `RefreshBatchProofs` | - | proofs about it |
| `ConnectionPool` | sessions as users of the pool | `stage` names the session a request or its job is in, `waiting` whether it has its connection yet; `request` and `job` are the connections held. `Want`, `Take` and the end of a session are checkout and return; a commit also returns the connection, which `Save` models for `add_channel` and `mark_pending` |
| `ConnectionPoolProofs` | - | proofs about it |
| `Digest` | `get_or_create_digest`, and what `peek_digest` finds | one action per await; a post with a text is the day it was posted on; `digests` maps a channel id and a day to the posts the digest was made from. `Collect` is any page: it adds posts, and an upsert that takes a text or a date away takes the post out of the SELECT. An LLM answer is stored by `Write`, refused (`Malformed`), or lost by `Raise`, which is any exception or the end of the process at any await (a restart is a `Raise` of every request). `repeats` and `seen` are history variables for the properties |
| `Statistics` | `stats.py`, the row computations of `analytics.py` | pure operators on the set of rows a SELECT returns, and on the order (`tie`) in which that query returns posts of one date or without one: `ORDER BY posted_at DESC` leaves it open, so each query has its own; a mean is a pair of sum and count, and comparisons are multiplied out, so there is no rounding. The k-th of sorted data (`Nth`) is defined by how many are smaller, the sums are those of the community modules |
| `ChannelPage` | `channel_page` | extends the two |
| `ChannelPageProofs` | - | proofs about the three |
| `MC*` | - | constants of the runs |

`Ingest` composes `ChannelStore` with the ingest (EXTENDS: the same sessions run both), and refines
`MetricHistory` (`History == INSTANCE MetricHistory WITH ... hist <- Histories`: one subject for
each channel id and one for each post of it).

Abstractions. A page, a content hash, a metric tuple and a counter tuple are model values: the
code compares them for equality only. `title`, `description`, `avatar_url` of a channel and the
post columns other than the hash are left out (no guard reads them). `last_error` is the kind of
failure it describes. Primary keys come from `FreshIds`: ids no row has and no session remembers,
so that the id space can be small; the sequence of PostgreSQL is stronger. Delays are steps.

In `AiTasks` a post is an id, an annotation is the set of its filled columns, and an LLM answer is the
sequence of its valid items; `AiGateway` shows that each call ends in an answer or an
`AiUnavailableError`. A delete of the channel is one step that waits for the transactions which have
written annotations (they hold these rows, and through the foreign key the posts); a deadlock
between such a delete and a job ends one of them, which `Raise` covers.

Mutants (comments "Mutant: ...") stand before the definition they alter and are used nowhere else.

## 3. Runs

| Run | Question | Instance |
|---|---|---|
| `ingest` | Do histories, counts and rows survive overlapping ingests, adds, marks, deletes and raises? | 2 sessions, 1 username, 3 ids, 1 post, 5 kinds of page, 3 ingests in a behaviour, symmetry in sessions and ids |
| `ingest_live` | Does each call end? | 2 sessions, 2 pages, 2 ingests; `FairSpec` |
| `ingest_overlap_status` (violation) | Does a success leave `last_fetch_status` active? | as `ingest_live`, with 3 ingests |
| `lifecycle` | Is a pending channel owned until something raises, and do progress entries and open INSERTs have an owner through raises and restarts? | 2 workers, 1 cron, 2 add or retry requests, unbounded polls, deletes and batches, `Faults = TRUE`, symmetry |
| `lifecycle_live` | Do pending channels and polling rows settle? | 2 workers, 3 requests, `FairSpec` |
| `lifecycle_gap` (violation) | see section 5 | 2 workers, 1 cron |
| `gateway` | Are breaker and budget right for overlapping calls over a midnight, and does each call end? | 2 callers, threshold, cooldown and budget 2, 2 retries, 6 calls, 6 ticks in 2 days; `FairSpec` |
| `fetch` | Is what a fetch returns complete, whatever happens between its pages? | ids to 7, pages of 2, at most 3 pages, 2 retries, caps 3, 4 and 7, a cutoff or none, two posts without a date; `FairSpec` |
| `ai_tasks` | Do two jobs on the same posts keep each other's annotations, report what they kept, and end? | 2 sessions, 3 posts, 2 batches of 2, 2 anomalies; `FairSpec` |
| `refresh` | How many calls in a row can leave out a healthy channel? | 2 overlapping calls, 2 healthy channels, 1 that raises, 2 per call, 1 other ingest at a time, any number of retries and deletes; symmetry in calls |
| `pool` | Are connections returned, who can bring the pool to a stop, and does each request end then? | 2 connections, 2 requests that add, 1 that reads; `FairSpec` |
| `page` | Are digests cached, of the posts of one moment, and of an existing channel; do the parts of a page agree? | 2 requests, 3 ids, 3 days, periods of 2 days; all series of up to 6 views from {missing, 0, 1, 2, 9}, and 3072 tables of six posts with 3 starts of the period and 2 orders of the posts of one date, for each query; symmetry in requests and ids |

Bounds, and why they are enough:

* `MaxClock` is the number of ingests in a behaviour (each reads the clock once; `Room` keeps a call
  from starting that could not read it). Three are needed for an ingest that commits between the
  load and the commit of another, with a third before them to have a history of two values; two
  sessions are enough because every property relates one call to the state, and any other call is
  "the other session". One post suffices, since posts of a page are written by one statement; the
  theorems hold for any number of all of these.
* `RowIds` has one more id than can be in use at once (row, and one remembered by each session).
* `MaxRequests` bounds adds and retries, which start jobs; two overlap, and a third in
  `lifecycle_live` comes after both. Polls, deletes and batches are not bounded.
* `MaxNow`, `MaxCalls`: enough to open the circuit, let it cool down, open it again, and to fill
  the budget of a day and half of the next. When both are used up and no call is in flight the model
  stutters (`BoundsReached`), so that deadlock can be checked.
* `MaxId`: three full pages and a post more, so that the page cap, the end of the channel, the cutoff and
  the post cap can each come first. The cap of 4 lies at a page's end, 3 inside a page, 7 out of reach of the
  page cap. Of the posts without a date one is older than the cutoff and one newer.
* `MaxPost`, `BatchSize`, `MaxBatches`, `MaxAnomalies` of `ai_tasks`: two jobs need two rows each, in both
  orders, to wait for each other - within one statement, or across the two LLM calls of an explanation - and
  an answer of two items can name a post twice. The third post arrives late or makes a second batch, so
  that a statement or an LLM call can fail after an earlier batch was written.
* `refresh`: two calls overlap in every way a larger number can in pairs, and each can overlap the other job. The
  bound of `NobodyStarves` is 7 here (`Turns` is 1), and is reached; `NobodyIsStarved` proves it for any number.
* `pool`: two connections stand for five: `GridlockIsByJobs` is about all of them at once, and is proved for
  any number. The stop is reached (both adding requests wait in their first ingest), so that
  `EveryRequestEnds` depends on the timeout.
* `page`: the program starts on the second of three days, so that a whole period lies before it, a request can begin
  before midnight and end after it, and the next day's period has lost a day. Posts come, go and come back any number of
  times. `MinSamples`, `Window` and `Limit` are 3, 5 and 1 instead of 5, 20 and 5, so that tables have more posts than
  the window and more anomalies than the limit. Views of 0, 1, 2, 9 and 20 reach both branches of the score (`mad`
  zero or not), equal views, spikes and drops. A third of the tables have a post without a date and one of a day
  after `now`; another third have two posts without a date and two of one date. In these the
  pairs lie within the window and not at its end: `PageIsConsistent` says nothing of the badges of a table whose
  window ends inside a pair (section 5). The two orders of a pair are all there are. The properties of the statistics are
  constant, and are checked in the states in which the channel has a page.

`faulty` in `ChannelLifecycle` records that an unexplained exception or a restart has happened; it is
a history variable: no action reads it.

`CHECK_DEADLOCK FALSE` is used in `lifecycle_live` only: without cron, and with the requests
answered, the system is at rest.

Fairness.

* `Ingest!FairSpec`: weak fairness of the steps that wait for nothing but the database or the network
  (statements complete, httpx times out after 15 seconds); strong fairness of those that wait
  for a row lock, because PostgreSQL queues its waiters. No fairness of new calls, deletes or raises.
* `ChannelLifecycle!FairSpec`: coroutines are resumed, batches end; strong fairness of polls (every two
  seconds, `channel_row.html`), as a worker of the model may be busy when a poll is due. Requests,
  deletes and cron calls come or do not.
* `AiGateway!FairSpec`: every await is bounded by `asyncio.timeout` or is a sleep.
* `AiTasks!FairSpec`: an LLM call ends (`AiGateway`), and PostgreSQL detects deadlocks after a second: weak
  fairness. Strong fairness of `WriteRow`, because waiters for a row lock are queued. Nothing is assumed
  of `Raise`, of new jobs, posts and deletes.
* `ConnectionPool!FairSpec`: a session that waits gets a connection or the pool's timeout (30 seconds by
  default), and work with a connection ends, because fetches and LLM calls have timeouts of their own. Weak fairness: a
  connection may be taken by others again and again while one waits, and then the timeout is what ends the wait.
* `TmeFetch!FairSpec`: a request ends by timeout at the latest. `Publish` is not fair and may go on.

## 4. Proofs

All are machine-checked by TLAPS, for any constants that satisfy the named ASSUMEs of the modules: no
theorem depends on the small sets and bounds of section 3. Each proof module states an inductive
invariant in named parts, has a lemma for the start and one for each action (or, in `IngestProofs`, one for each
part), and ends in the theorems `Spec => []Inv` and `Spec => [][A]_vars`.

* **Ingest** (`IngestProofs`). `IInv` = `TypeOK`, `IngestInv`, `NoRepeatedSnapshot`, `NoOrphans`.
  `NoRepeatedSnapshot` is not inductive: a commit appends a point that was compared with the history
  some statements earlier. The strengthening `IngestInv` says why it still differs:
  `LockInv` (a session in the write phase holds the row), `HeldInv` and `IdInv` (the row it holds is
  the one it loaded, and no other channel, committed or not, has its id), `PcInv` (what is known at each
  step) and `DraftInv` (the points drafted still fit the committed histories). A commit of
  another session therefore touches other ids (`CommitSpares`, `WritersDiffer`), and a delete waits
  for the lock. One lemma per part proves that each action keeps it (`TypeStep`, `PcStep`, `LockStep`,
  `IdStep`, `DraftStep`, `RepeatStep`, `OrphanStep`); `IngestInvariance` combines them, and
  `IngestTyped`, `WritersHaveTheirChannel`, `SnapshotsNeverRepeat`, `NothingIsOrphaned` follow.
  *Action properties*: `CommitsPublishTheFetch` and `CountsAreExact` are about a commit, but what it writes
  was read some statements before. `ReadsInv` says, statement by statement, that each read is still what the tables
  hold: `WriterAlone` (from `IInv`) that no step but the commit itself changes the histories of a channel somebody
  writes, `ReadsAreMade` and `ReadsStep` that the rest follows.
* **Refinement.** `IngestImplementsHistory`: `Spec => ImplementsHistory`. A commit is a `Measure` of
  the histories, a delete an `Erase`, all else stutters.
* **ChannelLifecycle** (`ChannelLifecycleProofs`), with faults, restarts and any number of jobs, batches and deletes.
  `PendingOwnedUntilFault` is not inductive: a fast pass that loaded the row before `mark_pending` leaves it
  pending, as its UPDATE has no status to send. `PendingHasWriter` therefore asks more of the owner (`Owns`): it has not
  begun its fast pass, or it *loaded the row as it is now*, so that its commit sets the status. A job that raises
  without a fault has lost its row, and a row made since has an id it does not have. With `DeepAfterFull` (only a
  fast pass that hit its cap has a deep one) `ProgressHasOwner` and `InsertIsOpen` are inductive.
  `WithoutFaultsPendingIsOwned` adds that the escape `faulty` is needed for faults only.
* **TmeFetch** (`TmeFetchProofs`). The loop invariant is `CollectedFromCursor`: nothing collected is older than the
  cursor, and what stays on the channel and is not older than it has been collected. `PageIsABlock` (a page has
  everything from its oldest message to the cursor) makes it inductive, whatever is published and deleted; `NoHoles`
  and `WindowComplete` follow at the end from `NewestHasTheNewer` and `FewerThanAskedAreAll`, which say what
  `kept[-max_posts:]` returns. `OldestAndNewestExist` gets a page's extremes from well-foundedness of
  inclusion, instead of an induction over data.
* **AiGateway** (`AiGatewayProofs`). `GatewayInvariance`, with the count of failures, the circuit and the
  stragglers of each caller tied to its attempt: `BreakerAgreesAlways`, `OvershootIsBounded` (by
  cardinality of the callers in flight, `FiniteSetTheorems`), `OnlyRetriesStraggle`, `GatewayTyped`. `AnswersAreBounded`
  rests on `AnswersAccounted`: until the first call of a day resets the counter, only calls that were in
  flight at midnight can answer on it, each once; from then on the answers are the calls counted and
  those few more; and a day whose answers are counted does not come back (`DaysDoNotRecur`: the UTC date is a function of the
  time that does not decrease).
* **AiTasks** (`AiTasksProofs`). `NoOrphanAnnotations` needs `LocalsAgree` and `AskedOnce` (no post is asked about
  twice, so a row that will be written is not written yet, except by this statement); `ReportsAreKept` needs that
  the count is the number of rows of *finished* statements (`CountIsWritten`: the rows of a statement under way are
  `touched`), and that a note is written or was cached while its post lives (`NotesAreKept`: ids are not given
  twice). `ColumnsAreNeverLost` follows from what a commit does.
* **Digest** (`ChannelPageProofs`). `DigestCostIsBounded` counts requests (`AccountedOn`): when the first digest of a day
  is written, its request is not among those that had missed the cache, so they are fewer than all; from then on a request
  that finds it returns, and each answer of the others - stored, malformed or lost - takes one of them away
  (`AnswerIsAccounted`), as does a raise (`LeavingKeeps`). `DigestsCoverTheirPeriod` rests on `NowIsSeen` (the history of a day
  has what there is to digest now, whatever pages have done to the posts) and `TextsSeen` (so what a request has
  read, at whatever moment, is in it).
  `DigestsBelongToTheChannel` holds because an id of a deleted channel is given to none (`NothingWithoutChannel`).
* **Statistics** (`ChannelPageProofs`), for any finite number of posts and any views and dates. What folds and sorting
  return is proved by induction over sets of data. The induction theorems of the library take a predicate, which
  the prover cannot instantiate; `SubsetInduction` and `SetInduction` take a *set* of good subsets instead, and rest on
  inclusion being well-founded. With them: a sum is that of its first element and the others, although the fold
  is a recursive function that CHOOSE picks (`IteratesExist`, `IteratesAgree`, `SumEquation`), any element can be
  first (`SumWithout`), and names do not matter (`SumRenamed`). The k-th of n numbers exists and is the only one
  (`NthIsThere`, `NthIsUnique`).
  `AnomaliesAreSound`: a score that reaches the threshold takes a deviation beyond the middle one
  (`FarOutIsBeyondTheMiddle`; here the sizes of the threshold and the scales count, for both branches of the
  score), so fewer than half are far out, and whatever deviates more is too. A missing value moves the indexes
  behind it, which is a renaming of the deviations (`FarOutRenamed`, `AnomaliesMove`, `MissingAreIgnored`).
  `PageIsAlwaysConsistent`: each query's window has each of its rows once (`EachRowOnce`: each place of a total order is
  taken by one, `PlacesAreTaken`). Unless it ends between posts of one date the two windows have the same rows
  (`UncutIsByDate`), in orders that differ by a renaming of the places, which moves the anomalies with them
  (`AnomaliesMove`), so both flag the same posts (`TiesDoNotMatter`). The limit takes the first of the worded ones, and if
  it leaves any out it is reached (`BadgesAreExplained`). Summing day by day is summing over the posts, because each post of
  the period is on one day of the chart, or later than its last one (`SumByDay`, `ChartAddsUp`).
* **ConnectionPool** (`ConnectionPoolProofs`). `PoolInv` is inductive: a connection is held exactly in the
  stages that use it (`PoolInvariance`). From it follows `GridlockTakesJobs` without a further step: somebody who
  waits and holds a connection waits for his job, and the connection he holds is his request's.
* **RefreshBatch** (`RefreshBatchProofs`). `Basics` gives the types (`RefreshTypes`) by what the edits of the queue keep
  (`WithoutOrders`, `WithLastOrders`, `WithInsteadOrders`). `NobodyIsStarved` counts. A call whose pass began after
  the watched channel's last fetch can only *lower* the number of healthy channels before it (`Left`), by
  `PerTurn` with each pass that leaves it out (`Balance`: `GoesOnKeeps`, `EndKeeps`, `ListKeeps`), because what it ingests comes
  after. Only an ingest that had begun before that fetch (`Early`) can put a channel ahead, once, when it commits; the calls
  under way are then charged one (`costs`, `ChargedCosts`). So each end that leaves the channel out is paid for by
  a turn of its call or a cost of it (`MissIsDue`), the inductive invariant `Accounted`; and costs are few, as of two calls at
  most one is charged for the other (`AsymmetricPairs`, `CostsAreFew`). The bound is proved where fewer channels raise
  than a call gets through, the condition in `NobodyStarves`.

The assumptions are what the code fixes: limits and sizes are positive (`SizesArePositive`, `PeriodIsPositive`, where the first period lies within the days of the model), "no value"
is not a value (`NoneIsNoId`, `NoneIsNoProc`), sets of callers, requests and channels are finite (`SessionsAreFinite`,
`SetsAreFinite`; of `Digest` also not empty), a request is not a cron call (`WorkersAreNoCrons`), days follow each other (`TicksHaveDates`,
`DaysDoNotRecur`). The rows of a SELECT have an id of their own (`TablesHaveRows`: `post_id` is the primary key) and come in some order
(`TiesAreOrders`), views and times
are integers or missing (`SeriesAreViews`, `PeriodsAreTimes`), and "missing" is neither a number nor a mean (`NullIsNoNumber`). `LimitCoversBudget` loses nothing: `PerCall` is the least number of channels a call gets through, and
with a longer list it could be no more than `batch_limit`. TLC evaluates the assumptions in every run of their module.

Only model-checked is liveness (`EveryCallEnds`, `PendingResolves`, `PollingSettles`, `EveryCallAnswers`, `FetchEnds`, `EveryRunEnds`,
`EveryRequestEnds`): fairness and ENABLED are beyond the prover. All other properties of the runs are theorems.

## 5. What the code does and the documents do not say

Two have a run that finds them (`findings`):

* `ingest_overlap_status`: the flush sends only the columns that differ from what the call had loaded
  (`ingest.py:274`). A success that loaded an active row, while a failure was committed before its own commit, writes
  `last_fetch_at` alone: it returns active and leaves the row failed. The trace has three ingests, of which the first
  success makes the row active. (A success that loaded a *pending* row writes status and `last_fetch_status`, but leaves
  `consecutive_failures` and `last_error` of the failure.)
* `lifecycle_gap`: the fast pass's commit is visible before the progress entry is set; a poll in between
  gets a row that never polls again (`background.py:74`).

Met while modelling, without a run of their own:

* A restart, or an exception in the first ingest, leaves a channel pending with no task that owns it; batches skip
  pending channels and the row has no Retry (`background.py:58`; README.md:158-159).
  `PendingOwnedUntilFault` says that nothing else does.
* A batch works through a list read up to a minute earlier: it refreshes a channel that is pending or failed for
  good by then, and inserts one again that was deleted (`refresh.py:56`; README.md:158-160).
* A failure on a later page ends a fetch as a success below its cap, and the deep pass, for which "hitting its
  post cap is the only signal" (`background.py:62-63`), is not started (`tme.py:106`).
* As many channels whose refresh raises (not: fails) as a call gets through keep their `last_fetch_at`, stay
  first in the queue, and starve all others (`refresh.py:67`); `NobodyStarves` is about fewer.
* Five first ingests that overlap hold all connections with their requests' sessions and wait for a sixth
  until the pool's timeout ends the jobs, which leaves their channels pending (`db.py:15`, `background.py:58`).
* A digest made in the morning, or before the deep pass is over, is kept for the day and lacks what is
  collected later; and the slower of two requests overwrites the newer digest with its older reading (`tasks.py:230`).
* Nothing is stored of an answer that is malformed (`tasks.py:218`), or whose upsert or commit fails or is cut off by a restart
  (`tasks.py:234`): until a digest of the day is stored, each request pays for an answer. `RepeatsBounded` is about the time after.
* A digest may have posts whose text a later page has taken away, and lack posts it has given (`ingest.py:127`): it is of one
  moment (`CoversWhatWasThere`), and that moment may be over.
* Badges and explanations each take the window of the last 20 posts by `ORDER BY posted_at DESC`, without a tie-break
  (`analytics.py:112`, `analytics.py:161`). With posts of one date, or without one, on both sides of the window's end they may
  look at different posts: if one of two is a spike, it may have a badge and no explanation, or an explanation and
  no badge, where the docstring (`analytics.py:98-101`) says that "the AI layer flags the same posts the dashboard badges
  do". `PageIsConsistent` says that they agree on every other table (`Uncut`).
* `ORDER BY posted_at DESC` puts posts without a date first in PostgreSQL, so they take places of the "most recent"
  posts that anomalies are looked for in (`analytics.py:112`, `analytics.py:161`, `models.py:94`).
* `now` is read before the posts (`analytics.py:134`, `analytics.py:142`). If midnight passes in between and an ingest
  commits a post of the new day, or Telegram's clock is ahead at midnight, the post counts for the period but has no day
  on the chart (`stats.py:102`), whose days then add up to less than the figures.
  `DailyAddsUp` says that it is by exactly these posts and their views.
* README.md:79 gives 30 days as the default period "from `analytics.DEFAULT_PERIOD_DAYS`", which is 7 (`analytics.py:21`).
* `captured_at` is read before the fetch (`ingest.py:257`), but snapshots are compared by id: of
  overlapping ingests, neighbours on a chart ordered by `captured_at` (ADR 0002:28-29) may be equal.
* A call in backoff when another opens the circuit still sends its retries (`client.py:92`), where
  README.md:119-121 says that calls "fail fast without hitting the network at all".
  `StragglersBounded` says how many.
* A post that gets an anomaly note before its category (an LLM answer left it out, or the batch failed) has
  an annotation row, and `classify_new_posts` never asks about it again (`tasks.py:70`, `tasks.py:276`):
  README.md:97-98 says so of rows, but a reader would expect it of categories. `AnnotationsAccumulate`
  says that what both did write is kept.
* README.md:30 calls the budget the "Max LLM calls per UTC day"; calls that overlap pass it.
  `OvershootBounded` and `AnswersBounded` say by how much. A restart resets budget and breaker.

## 6. Not modelled, and why

* HTML parsing, prompts, formatting, templates other than the polling row: string processing, covered
  by tests on saved pages.
* Of Analytics: rates, growth and trends (a division and a filter each), the index page, whose four statements may
  see different commits (listed as a hazard), and the page of a single post.
* The order and the time budget of a batch are nondeterministic in `ChannelLifecycle` (`CronLoad`,
  `CronEnds`), so its safety properties hold for every order; `RefreshBatch` has the order and no statuses.
* The pages, digests and batches that use the pool are one kind of reader in `ConnectionPool`: each holds one
  connection at a time.
* Config and migrations: constants, and a schema that is in place before the program starts.

## 7. Plan

Done: the core (`ChannelRow`, `ChannelStore`, `Ingest`, `MetricHistory`), `ChannelLifecycle`, `AiGateway`,
`TmeFetch`, `AiTasks`, `RefreshBatch`, `ConnectionPool`, `Digest`, `Statistics`, `ChannelPage`; the safety and action
properties of all of them proved. Next, in this order:

1. Proofs: the claim that an ingest is two steps for other processes, which connects `ChannelLifecycle` and
   `RefreshBatch` with `Ingest`, as a refinement.
2. The index page: the four statements of `list_channels_overview` against the commits of `Ingest`.
3. `PageParser`: which fields of a page may be missing, and what then is stored.
