# A verification model of the SEO audit backend

TLA+ modules for the parts of this repository whose correctness depends on
interleavings, commits, redelivery and crashes, the TLC runs that check them on
small instances, and proofs (TLAPS) of what holds for every size. Paths are
relative to `src/`. Each definition that models code names its lines under "map"
in `PROJECT.json`.

Contents: 1 the system, 2 the modules, 3 the runs, 4 the proofs, 5 what the
checks found, 6 what is not modelled, 7 the plan.

## 1. The system

A FastAPI application and Celery workers over PostgreSQL and Redis. A request
creates a row, sends a task and answers at once; workers do the work and the
client polls the row or a Redis key.

| Part | State it keeps | Operations | Interacts with |
|---|---|---|---|
| Crawl scheduler (`app/modules/crawler/services/crawl_scheduler.py`) | queue, visited set, `active_workers`, counters, a condition variable | submit seed / sitemap / discovered URL, worker loop, `cancel` | calls `_crawl_page` for each URL; called back by `_enqueue_links` |
| Site of a crawl (`crawler/services/`: robots policy, `site_discovery_service.py`, `url_classifier.py`, `url_ignore_service.py`) | none beyond a crawl: the robots policy, the global ignore patterns | read robots.txt and sitemaps, judge a URL, canonical form, links of a page | gives the scheduler its URLs |
| Crawl orchestrator (`crawl_orchestrator.py`, `crawl_persistence_service.py`) | the `CrawlJob` object of its session, one session per page, write buffers | `run`, `_crawl_page`, `_update_progress`, `_mark_*` | drives the scheduler; writes `crawl_jobs` |
| Crawl task and API (`crawler/tasks.py`, `audit/analyze.py`, `core/database.py`) | the `crawl_jobs` row, the task message | create and send, load or recreate, retry, mark failed, request analysis | the broker, the orchestrator |
| Celery application (`shared/tasks/`) | messages not yet acknowledged, a background event loop per process | late acknowledgement, redelivery, retry, time limits, beat | every task |
| Audit pipeline (`modules/audit`) | parse / evaluate / score rows, an output file, two Redis keys | four stages, each with its own commit; errors swallowed | reads what the crawl stored; readers fill the same cache |
| Report builder and scorer (`audit_response_builder.py`, `modules/scorer`) | none beyond a call | merge page variants; scores, categories, issues, summary | reads the rule results, is stored by the pipeline |
| SERP rank check (`seprate_checks/serp_rank_check`) | one row: status, raw response, result, preview status | prepare, run, finalise, preview, sweep | task, preview worker and sweeper write one row |
| Streaming audit (`modules/streaming_audit`) | Redis sets, list and counters; run row, page results | reserve / release slot, enqueue, process page | page tasks of many processes |
| Redirect check (`seprate_checks/redirect_check`) | run row, page results, slots; event list, pub/sub channel | check URLs, persist, publish; stream | tables and slots of the streaming audit; SSE clients |
| Redirect URL audit (`seprate_checks/redirect_urls`) | one row; nodes and edges of a URL graph | discover pages, walk redirects, store the graph; rebuild the results from it | one task; SSE clients poll the row |
| Link analysis (`seprate_checks/link_analysis`) | queue, seen set, reserved pages, link graph; one row | workers, `queue.join`, check of links, findings | one event loop; the crawler's fetcher |
| Rule engine (`modules/rule_engine`) | none | one verdict per rule from a dictionary of the page | two functions fill the dictionary, from stored rows or from a parse |
| Authentication (`modules/auth`) | users, OTPs, refresh tokens, blacklist | register, verify, refresh, reset, logout, cleanup | concurrent requests |
| Parser, read model, reports, chat, payment, other checks | rows of their own | request or one-shot task | mostly sequential |

What is hard, and what correctness means there:

* **Crawl scheduler.** Workers sleep on one condition variable; wake-ups come
  from separate tasks; the budget is checked before an await and counted after
  it. Correct: no URL lost or crawled twice, counters that match, a bounded
  excess over `max_pages`, nobody leaves while work can still appear, `run()`
  returns, no worker sleeps beside a queued URL.
* **Site of a crawl.** Robots groups, sitemap indexes that lead to each other, limits in
  three places, two ways to strip parameters, ten kinds of URLs that are left out. Correct:
  what is crawled is what a reader of robots.txt, of the sitemaps and of the pages would
  say, no page twice, nothing left out that is near enough.
* **Crawl job.** The message can overtake the commit; messages repeat; the
  orchestrator and its pages write one row from different sessions; the ORM
  writes only changed columns of possibly stale objects; failures hit between
  commits. Correct: the row the user asked for is kept, progress never runs
  ahead, a completed job stays completed and gets its analysis, deliveries end.
* **SERP rank check.** A task, its retries, a sweeper and a preview worker share
  one row. Correct: a ranked check is never failed afterwards, every check
  reaches an end state, the provider's answer is paid for once.
* **Streaming audit.** Check-then-act on Redis keys across processes; three
  stores without a common transaction; slots leaked by crashes; counters
  incremented again by a repeated task. Correct: a bound on claimed pages that
  holds, slots given once, pages executed once, counts that match the results,
  an audit that comes to rest with nothing held.
* **Redirect check.** Coroutines share one session that a database error makes
  unusable; slots are leaked; an execution may outlive its task's soft time limit
  and write the row beside its own retry. Correct: completed means stored, counts
  are those of the results, a check ends.
* **Redirect stream.** One counter over two sources. Correct: who is told
  "completed" can fetch the result; a stream is closed; nothing is missed.
* **Audit pipeline.** Stage errors are swallowed, an exception inside a loop
  leaves the session unusable, executions run side by side, several writers share
  one cache. Correct: what reports no error is complete, the cached status never
  promises more than is there, executions end.
* **Report.** Merging in a random order, shares and means rounded at three levels,
  clamped scores. Correct: one verdict per page whatever the order, issues and
  checks agree, repairs do not hurt.
* **Link analysis.** Workers reserve, fetch and draw in any order, depths are revised
  while items wait with theirs, a second client classifies answers its own way. Correct:
  the page limit holds exactly, a crawl that does not say so leaves nothing out, findings
  are true of the site and do not depend on the order of fetches, the analysis ends.
* **Redirect URL audit.** Pages of a batch are fetched at once, hops are stored once for all
  walks and put together again for every answer, a handler overwrites what was committed.
  Correct: discovery finds what is near enough, the rebuilt answer is that of the walks,
  the verdict is true, the end is visible as a whole and stays.
* **Rule engine.** 64 rules with limits of their own read one element several at a time,
  through dictionaries that lack keys the rules ask for. Correct: a verdict is true of the
  page, the rules' recommendations can all be followed, following one does not cost points.
* **Authentication.** Check-then-act in separate statements. Correct: a token or
  an OTP is used once.

`PROJECT.json` lists each hazard at its line with the properties that cover it,
or says which planned module will.

## 2. The modules

```
CrawlFrontier            what a crawl promises about each URL
   ^ INSTANCE (refinement)
CrawlScheduler           the worker pool, for whatever URLs it is given
   ^ EXTENDS
   |-- SiteCrawl      <-- CrawlSchedulerProofs, MCSiteCrawl (TLC)
         EXTENDS SiteRules, SitemapDiscovery: which URLs a site gives to the pool
OrmSession               what a flush of the ORM writes
   ^ EXTENDS
   |-- CrawlJob       <-- CrawlJobProofs,  MCCrawlJob (TLC)
   |-- SerpRankCheck  <-- SerpRankCheckProofs
   |-- RedirectCheck  <-- RedirectCheckProofs
StreamPromise            what the client of an event stream may rely on
   ^ EXTENDS
   |-- RedirectStream <-- RedirectCheckProofs (INSTANCE); the events of RedirectCheck
StreamingAudit   <------ StreamingAuditProofs, MCStreamingAudit (TLC)
AuditPipeline            which stores and caches what
RuleEngine               the verdict of each rule
Scorer                   the score of a page from its verdicts
   ^ EXTENDS / INSTANCE
   |-- AuditReport   <-- AuditReportProofs
   |     ^ EXTENDS
   |     AuditReadModel <-- MCAuditReport (TLC); the other readers of the rule results
   |-- PageAdvice    <-- MCPageAdvice (TLC); EXTENDS RuleEngine
AuditPipeline and PageAdvice <-- AuditPipelineProofs (EXTENDS both)
LinkReport               what the analyzer makes of a link graph
   ^ EXTENDS
   |-- LinkAnalysis  <-- LinkAnalysisProofs, MCLinkAnalysis (TLC)
RedirectChains           the walk along redirects, the graph and what is rebuilt from it
   ^ EXTENDS
RedirectAnswers          what the API answers of a redirect audit, and what that promises
   ^ EXTENDS
RedirectDiscovery        how the pages of a site are found, and what that promises
   ^ EXTENDS
   |-- RedirectAudit <-- StreamingAuditProofs (INSTANCE), MCRedirectAudit (TLC)
```

`StreamPromise`, `RedirectAnswers` and `RedirectDiscovery` hold what a component promises with the variables
this is said of; the component extends them with how it comes about. A proof module that is
about another component in the first place (both write the same tables) extends the promise
and takes the component as an instance.

### CrawlScheduler

The worker pool, at the granularity of asyncio: a step is the code between two
awaits. The body of `async with self._condition` awaits nothing but
`Condition.wait`, so what a worker does when it gets the lock is one step
(`ExitExhausted`, `ExitCancelled`, `Wait`, `Drop`, `Take`), and the lock itself
needs no variable.

| Model | Code |
|---|---|
| `queue`, `visited`, `active`, `cancelled` | `self.queue`, `self.dedup`, `self.active_workers`, `self.cancelled` |
| `discovered`, `crawled`, `failed` | the three page counters |
| `depth` | `DiscoveredURL.depth` of the item queued for a URL |
| `notifies` | tasks made by `asyncio.create_task(self._notify_condition())` that have not run |
| `pc`, `item` | where each `_worker_loop` is, and its item |
| `fate` | history: what became of each URL (used by properties and the refinement, read by no guard) |
| `phase` | how far `CrawlOrchestrator.run` has got: seed, sitemap, pool |
| `SubmitSeed`, `SubmitSitemap`, `Discover` | `submit_seed`, `submit_sitemap_urls`, `_enqueue_links`: loops of `submit_discovered_url` without an await, hence one step each |
| `Succeed`, `Fail`, `Settle` | the end of `worker_func`, and the `finally` block |

The seed skips classification and robots.txt but not the ignore patterns; it is
marked visited, and no notification is made for it. `Drop` takes an item off
the queue without telling anybody. `Cancel` wakes nobody. `Discover` takes any
set of URLs, in any order: which ones, `SiteCrawl` says. A worker may fail before or after it queued its links.

`CrawlFrontier` says what this promises, without workers or queue: each URL has
one fate that only moves forward, URLs are found at the start or on a page being
fetched, one is given up only when the budget is spent, and the crawl is closed
only when nothing is left. The refinement maps `closed` to "a worker has left,
the queue is empty and no worker is active", which is also false, correctly, when
workers leave because of `cancel()`.

### SiteCrawl, SiteRules and SitemapDiscovery

`SiteCrawl` is the pool on a site. A site does not change during a crawl; the variable
`site` chooses one at the start, and every action of the pool leaves it alone (`Alone`).

| Model | Code |
|---|---|
| `Starting` | what `run` submits after the seed: the URLs the caller preselected (Lighthouse) or those of `SiteDiscoveryService.discover`, without what robots.txt forbids |
| `Permitted` | `_is_robots_blocked`, from `RobotsPolicy._parse` (`ReadLine`) and `is_allowed` (`JudgeGroup`) |
| `Enqueued`, `Found` | `_enqueue_links` and `_crawl_page`: the internal links of a document that begins as HTML does, without tracking parameters, on a restricted crawl only those preselected |
| `classify_url`, `check_url`, `normalize_url_canonical`, `registered_domain` | the functions of these names, in `SiteRules` |
| `Candidates`, `NewChildren`, `Handle` | `_discover_sitemaps` and `_expand_sitemap_index`, in `SitemapDiscovery` |

URLs are records of scheme, host labels, path segments, extension, query names; a text is a
sequence of tokens. `Guide` and `ReadRight` are the reference: they read robots.txt, the
sitemaps and the links of a page as a person would, with quantifiers over lines and files
and without queues and limits. They are functions of the site, so that TLC computes
them once. On two questions the repository's tests disagree with its code (section 5, last
paragraph): whether a subdomain is the same site, and whether robots groups that name the
crawler override those of `*`. The reader sides with the tests; the pages this concerns are the
disputed ones, and nothing is claimed of which of them a crawl takes.

### CrawlJob

One row of `crawl_jobs` and every session that writes it: the request's, one per
delivery of `crawler.crawl_website`, and one per page.

| Model | Code |
|---|---|
| `row` | the committed row (status, whether `total_pages` is set, `pages_crawled`, `crawl_config_recovered`) |
| `lock` | the session that has an uncommitted UPDATE of the row |
| `mem` | the `CrawlJob` object of an orchestrator's session, loaded once and never refreshed by a later SELECT |
| `api` | `POST /audit/analyze`: flush, `send_task`, then the commit of `get_db` |
| `pc`, `retries` | each delivery in `crawl_website` / `CrawlOrchestrator.run` |
| `page`, `value`, `count` | each page of a delivery, the number it is about to store, `pages_crawled_count` |
| `saved`, `lost` | history: the pages whose commit succeeded, or failed and was swallowed |

The database is modelled as far as the code relies on it, and marked external in
the map: an UPDATE waits for a row lock and keeps it until commit or rollback; an
INSERT waits for an uncommitted one of the same key; the ORM writes the columns
whose value differs from the one it last read (`Merged`, in `OrmSession`).

`Fail` is an exception the task does not retry (its handler's UPDATE is rolled
back), `Retry` one that it does, `Die` the death of the child process (its
parent acknowledges the message), `Crash` the death of the whole worker (the
broker delivers again), `Repeat` a second delivery of a message that is still
unacknowledged when the visibility timeout of the Redis transport (its default;
the code sets none) ends. `readme.md` proposes `--pool=solo`, under which
no time limit stops a crawl before that. The soft time limit interrupts
the thread that waits for the coroutine and leaves the coroutine running
(`shared/tasks/db.py`, `run_async`), so it changes nothing in this model.

### SerpRankCheck

One row of `rank_checks` and its four writers: the request, the task
`run_serp_check` with its retries, `build_preview`, and the sweeper that beat
starts every five minutes.

| Model | Code |
|---|---|
| `row` | the committed row: status, `include_preview`, `raw_response` (none, parseable, not), whether there is a result, `preview_status`, and which of three errors it shows |
| `aged` | whether `updated_at` is older than `SERP_STUCK_JOB_TIMEOUT_SECONDS`: any running row may age (`Age`), and only an UPDATE that writes a column makes it young |
| `api` | `POST /rank-checks`: the commit, then `send_task` |
| `task` | the delivery: where `run_check_async` is, its object of the row, the retry count, and `watched`, whether the thread of the task still waits for the coroutine |
| `sweep`, `preview` | `sweep_stuck_async` with the object it loaded; each delivery of `build_preview` with its object |
| `FirstStep` | the gate of `run_check_async`: ask, resume from the stored answer, heal, or skip |
| `Finalized`, `Parse`, `SweepResume` | `_finalize_from_raw`, shared by the task and the sweeper |
| `MarkFailed` | `mark_failed_if_pending`, a conditional UPDATE, unlike every other write |
| `Retry`, `GiveUp` | `autoretry_for` with `max_retries`; the except block of the task |

Each session here loads the row once and commits after each change, so no row
lock outlives a step and locks need no variable; a commit that changes nothing
(claiming a check that is already running) writes nothing, `updated_at`
included. A failure is one of `DatabaseFails` (not retried), `TimeLimit` (the soft
limit: the thread marks the check, the coroutine goes on, nobody waits for it),
`Die` (the hard limit or the loss of a child process: the message is
acknowledged), `Crash` (the host: the message comes back), `SweepBreaks` and
`PreviewBreaks`, and a send that fails. The time limits keep a task far below
the broker's visibility timeout, so there is no second delivery beside a running
one, unlike in `CrawlJob`.

### StreamingAudit

One audit: the request, and the page tasks that workers execute for it. PostgreSQL
(run, results), Redis and the broker are three stores that no transaction joins, so
every command is a step of its own, and a Lua script is one step.

| Model | Code |
|---|---|
| `run`, `results` | `streaming_audit_runs` (status, `processing_count`, completed + failed), `streaming_page_results` |
| `seen`, `remaining`, `active` | the three Redis keys of the run; the list `queued` is pushed to and never read |
| `queue` | messages of `process_page` at the broker |
| `task` | what each worker executes: where it is, the links still to look at (`todo`), the accepted ones (`kids`) |
| `CreateRun`, `InitializeRun`, `SendSeed` | `POST /streaming-audit` |
| `Reserve`, `Refused` | the script of `reserve_slot`, and the branch for "no slot" |
| `Look`, `Mark`, `Pay` | the three commands of `enqueue_many` for one link |
| `Save`, `Count`, `Release` | `upsert_page_result`, the UPDATE of the counters, the `finally` block |
| `Raise`, `Crash` | an error of a store at any command, which may have taken effect; the death of a worker |

The branch for "no slot" means to send the message again, but reads two locals that are
assigned further down: it raises, and the task is retried like after any error.

### RedirectCheck and RedirectStream

`RedirectCheck` has the executions of one domain check, side by side where the soft time
limit lets a coroutine live on beside its retry. A worker that dies leaves its message to be
delivered again (`Crash`); a process that dies alone, or is killed at the hard limit, does not
(`Lose`): its parent acknowledges the message, since the task sets `acks_late` and not
`reject_on_worker_lost`, and the run stays "processing" for ever.

| Model | Code |
|---|---|
| `row`, `stored`, `active` | the run row (it is one of the streaming audit's), page results, slots |
| `exec` | each execution of `_execute`: its place, its object of the row, `failed`, whether its session is aborted |
| `check` | each `_check_single` coroutine: waiting for the semaphore, in flight, ended or dropped |
| `Start`, `StartRaises` | the semaphore and `reserve_slot`, which stands outside the `try` |
| `Resolve`, `Report`, `CheckRaises`, `ReportRaises` | the check and its handlers; `report` is the await of `update_state` |
| `Persist`, `PersistRaises` | the loop over the results on the one session; an error is caught and nobody rolls back |
| `End` | `update_run`: the changed columns of the object (`Merged`) |

`RedirectStream` has the events of these executions, which follow each other or, after a soft
time limit, run side by side on the same row, list and channel (`WithNext`, `SoftTimeLimit`,
`CutShort`): `publish_event` sends to the channel and then appends to the list, in two
commands; the client (`sse_event_stream`) catches up from the list, subscribes, and takes one
message and polls the list in turn. The row is reduced to whether it has ended (`ended`): an
execution's object says "processing" when it ends, so that its status is always written.
`publish_event` never raises, so the events have no influence on `RedirectCheck`, and the
two are checked apart.

### AuditPipeline

The executions of `audit.run_analysis_pipeline`, statement by statement where another
execution can come between, and the endpoints that read the result.

| Model | Code |
|---|---|
| `facts`, `rows`, `saved` | `parsed_page_facts`, `rule_evaluation_results`, `seo_analysis_runs` |
| `file`, `result`, `status` | the output file and the two Redis keys |
| `UpsertSelect`, `Flush` | `upsert`: SELECT, then INSERT or UPDATE, which waits for a transaction that holds the page |
| `Aborted`, `DeadlockVictim` | a unique violation or a deadlock: every later page fails and the commit raises |
| `EvaluateBegin`, `EvaluateCommit` | `evaluate_crawl`: all pages in one commit; a page whose rules raise gets one error row |
| `ScoreBegin`, `WriteFile`, `SelectRun`, `SaveRun`, `SaveConflict` | `score_project`: the file, then upsert of the run |
| `StageFails` | the `except` around each stage: recorded, rolled back, passed over |
| `SetResult`, `SetStatus`, `Expire`, `Read`, `Remember` | the cache and the readers that fill it |

A report is the set of rule results it was built from. `status` is one Boolean, since
what is written there always says "completed", for stages that failed as well.

### AuditReport

`AuditResponseBuilder.build` with the scorer: a pure computation whose only order is that
of the rows, which is random. The merge is therefore a loop (`Merge`, one crawl page per
step, in any order), and the scores, checks, issues and the summary are operators over its
result. Scores are integers in tenths, since the code rounds to one decimal. The scores
themselves are in `Scorer`, which `PageAdvice` uses too.

### AuditReadModel

The rule results have two more readers, which take the rows of the crawled pages as they
are: `AuditReadModelService` (overview, pages of the issue list, pages and evidence of one
issue) and `report_assembler` (the PDF). They are operators over the table `row` of
`AuditReport`. The document joins categories (`INTERNAL_TO_RESPONSE`: the rules on structured data
count as technical), the others do not; a query with ORDER BY, LIMIT and OFFSET is a window of a sequence in that
order. Rows that record that a rule raised, which `AuditReport` never sees, are the argument
`raised`.

### RuleEngine and PageAdvice

`RuleEngine` has one operator for each of the 64 rules that `ScorerService` registers, a
function from the page's data to a verdict (passed, impact, or an error). Texts are reduced
to their length and to what the rules ask of them, ratios are compared as integers.

| Model | Code |
|---|---|
| `page` | the page as its author wrote it |
| `AuditReader`, `StreamReader` | `RuleEvaluatorService._build_rule_data` and `ScorerService._prepare_rule_data` with its adapter: what of the page arrives in `data` |
| `Verdicts`, `PageScore` | `RuleEngine.evaluate` over all rules; `ScoreCalculator` |
| `Advice` | the recommendation of each rule, as the change that its text asks for |
| `Follow` | the author follows one recommendation, and the page is audited again |

A page starts as data that describe some page (`Sane`), not as any record of the right type: its
URL has a normal form, its links were looked at, no more texts of links are generic than it has
links, and if the page uses JSON-LD then one of its blocks does. Data that contradict themselves there
are no page's. The other fields are free, a target keyword included, which neither function passes on.

### LinkReport and LinkAnalysis

| Model | Code |
|---|---|
| `site` | what there is to crawl: links, answers, redirects (`final`), sitemap, robots.txt, `max_pages` (`cap`) |
| `queue`, `seen`, `reserved` | the `asyncio.Queue`, the seen set, `pages_reserved` |
| `flight` | the items that workers are fetching; workers differ in nothing else |
| `graph` | `LinkGraph`, with `check_results` and `crawl_truncated` |
| `cut` | history: links that were not followed for their depth alone |
| `TurnAway`, `SkipBlocked`, `Fetch`, `Settle` | `_process_url` up to the fetch, and all that follows it |
| `Join`, `CheckLinks`, `Analyse` | `queue.join()`; `LinkChecker.check_urls`; `analyze`, `compute_overall_status`, `compute_page_analysis` |

A URL that redirects is drawn under the URL at which the request ended (`Key`), as the
fetcher reports it. `LinkReport` has one operator per finder of the analyzer, `FindingIsTrue` in
`LinkAnalysis` what each type of finding says of the site.

### RedirectChains, RedirectAnswers, RedirectDiscovery and RedirectAudit

| Model | Code |
|---|---|
| `site` | what there is to audit: the answer to each URL (a page, an error status, a redirect, a redirect to nowhere, silence), links, sitemap, robots.txt |
| `audit` | the committed row with its nodes and edges (`graph`) |
| `crawl` | `discover_site_urls` between two batches: queue, queued set, pages, depths, links |
| `checks` | what the last execution has collected from `check_redirect_chain` (`Checks`): of each URL the walk that the site's answers make (`Walk`), or one that a failed request broke off (`Walks`) |
| `Accept`, `Send`, `SendFails` | `POST /check`: the broker takes the message, the caller learns it; or `send_task` raises, before the message was taken or after |
| `Pending`, `WorkedOff` | the queue without what robots.txt forbids, which the loop passes over; a page fetched and its links queued, if it is not too deep (in `RedirectDiscovery`, with `DiscoveryIsWhole`). A batch takes the first pages of `Pending` and queues behind them, so working it off page by page is the same |
| `Admit`, `Begin`, `DiscoverBatch`, `Discovered`, `CheckBatch`, `Store`, `Return` | `_run_pipeline` from commit to commit; `Store` is `replace_graph`, which does not commit, with the update that does |
| `Raise`, `Lose`, `Redeliver` | the handlers of `_run_pipeline` and `run`; errors outside them and acknowledged deaths; a second delivery |
| `Listen`, `Response` | the event stream, which ends with the first terminal status it sees; `build_result` (in `RedirectAnswers`, with the properties of what is answered) |

`Graph` keeps an edge per hop, whichever walks took it, and `Rebuilt` follows the edges from
each page again. A walk that the hop limit cut may then show more hops than were asked for,
since another page's walk went on from there; and so may one that ended because a single request
timed out or was answered with server errors only, while the request of another walk for the same
URL was answered. `Walks` has both, for any check of a batch.

`Admit` reads the status, `Begin` writes it: between them a request whose send raised may commit
that the audit could not be queued. The ORM then writes only the columns that differ from what it
read, and what remains of the failure depends on that (`Begin`, `Store`).

## 3. The runs

| Run | Instance | Shows |
|---|---|---|
| `crawl_scheduler` | 2 workers, 21 sites of 13 URLs (differing in robots.txt, sitemaps, links, preselected URLs), `max_pages` 3, `max_depth` 2, sitemap depth 2, 4 files, 4 URLs, cancel allowed; 72 thousand states | `CrawlFollowsSite`, `SiteIsRead`, `ImplementsFrontier`, `Terminates` |
| `crawl_job` | 2 pages, 2 deliveries, 1 retry, 2 failures, repeats; 277 thousand states | `AcceptedConfigKept`, `ProgressNeverAhead`, `AnalysisLostOnlyByFault`, `ReopenedOnlyByConcurrentStart`, `DeliveryEnds` |
| `crawl_job_stall` | 2 pages, 1 delivery, no failure | violation of `CrawlTerminates` |
| `serp_rank_check` | 3 retries, 2 deliveries of the preview, 3 failures; 14 thousand states | `NoCallOnceAnswered`, `ResultFailedOnlyBySweeper`, `OverturnedOnlyByLateSession`, `OnlyLostMessageStrands` |
| `streaming_audit` | 2 workers, 2 slots, a site of 6 pages with a budget of 4, 1 retry, 1 incident; 225 thousand states | `PageBudgetOvershoot`, `ClaimedPageEnds`, `RestsWithNothingHeld` |
| `redirect_check` | 2 URLs, 2 executions, 2 slots, 2 faults; 402 thousand states | `CompletedMeansStored`, `CheckEndsOrExhausted` |
| `redirect_stream` | 1 URL, 2 executions, 2 empty polls, 2 faults; 632 thousand states | `ClosedStreamHasResult`, `StreamCloses` |
| `audit_pipeline` | 3 pages (one ignored), 2 executions, 2 faults; 127 thousand states | `CleanRunCovers`, `SavedShrinksOnlyByOverlap`, `ExecutionEnds` |
| `audit_report` | 2 rules of two categories that one reader joins and a rule of a third, 3 crawl pages of 2 canonical ones, bonuses 0 and 2, penalties 5 and 20; 94 thousand states | `ReadersAgree`, `IssueFailsItsCheck`, `RepairNeverHurts` |
| `page_advice` | every page with one fault, or two of those that several rules read, before either audit; 12 thousand states | `VerdictsAreTrue`, `AdviceConverges`, `AdviceNeverCosts` |
| `link_analysis` | 2,232 sites of 8 URLs, 3 workers, depth limit 4, caps of 4 and 6 pages; 59 thousand states | `PageCapExact`, `WholeUnlessSaid`, `DepthsAreChains`, `ReportIsTheSites`, `FindingsAreTrue`, `AnalysisEnds` |
| `redirect_audit` | 1,032 sites of 6 URLs (one foreign), budget 4, depth 2, 2 hops, batches of 2, 1 fault (a request of a check among them); 344 thousand states | `DiscoveryIsWhole`, `RebuiltAsWalked`, `VerdictIsTrue`, `EndIsWhole`, `VerdictStands` |

Why the bounds are enough. Two workers race for the last page of the budget, and one
of them sleeps while the other finds work; a site has up to five pages to crawl with a
budget of three and a chain that passes `max_depth`, so that URLs are dropped at the cap and
left for their depth. Of the thirteen URLs each that is no page stands for one way to be left
out. The sites have every shape of robots.txt that the parser tells apart (agents in one
group, rules before any agent, two groups that concern the crawler, ties, `$` and `*`),
indexes that lead to each other, to depth three, and to more files than are read. With two deliveries every pair of
sessions on the job row meets: a delivery and its own pages, two deliveries side by side,
a delivery after one that died. Two pages suffice for the progress counter to be stored
out of order. Two failures allow one that brings about a redelivery and one that hits the
redelivered task. For the rank check, three retries are the code's own number; three
failures allow a time limit, a broken sweep and a crash in one behaviour. At most two
previews are sent for a check (one by the task, one by the sweeper), so no send
in this instance waits for a third delivery. For the streaming audit two tasks read two
sections side by side with one page of the budget left, so both may claim a page, and they
share a link, so both may mark it; the slot that a dead worker leaks makes the survivors
refuse each other. For the redirect check and the pipeline, two executions and two faults
are what it takes for one to outlive its task and for one of them to fail beside the
other; two pages can be stored in opposite orders, which is a deadlock. A third
page is ignored, so that a stage passes it over. For the stream, the announcement, one URL and the completion are enough for an event to be counted
twice and another to be missed, and a soft time limit leaves a second fault for the execution
it frees or for the one beside it. For the report, a page with a variant and one without meet in every order, and
every score from both ends of the clamp occurs; of two rules that one reader counts in one category
and the others in two, every combination of verdicts occurs, and one of a third category fails on
one page. Pages with one fault meet every rule that can
fail; two faults are combined where they concern the title, the headings, the text or the
links, since other rules share nothing. For link analysis, chains of four links pass both depth
limits, pages are reached over two ways of different lengths, and the cap of four pages leaves
sites of up to six truncated. For the redirect audit, three pages that answer in every way
make every loop, every chain up to the limit and one above it, and every pair of walks that
share hops; with a request that fails in one of them, the other may have stored what the first did
not see. The budget cuts sites of five pages and leaves those of three whole.

Fairness. In `SiteCrawl`, `LoopFairness` is weak fairness of each coroutine that can
run, which the event loop gives; it does not make a fetch return. `Terminates` adds
`FetchFairness` (`request_timeout` and `browser_timeout` bound every fetch) as a
hypothesis in the formula. asyncio's `Lock` is first come first served, so a worker
that waits for it gets it. In `CrawlJob`, weak fairness of the request, of each
delivery and of each page; failures and repeats are never fair. A step that waits
for a row lock is disabled, so fairness cannot free it. In `SerpRankCheck`, weak
fairness of the request's send, the task, the previews, the passing of time and the
sweeper, which beat starts again and again; not of the provider: a call that never
returns is recovered by the sweeper, and `OnlyLostMessageStrands` says so. In
`StreamingAudit`, weak fairness of the request, and of taking a message and of the next
step for each worker; in `RedirectCheck` and `AuditPipeline`, of the request and of each
execution's next step; in `RedirectStream`, of each execution that was not cut short and of the client, whose
calls to Redis are bounded by timeouts. In `LinkAnalysis`, of the workers together (a fetch
has a timeout) and of the steps after the crawl; in `PageAdvice`, of an author who does not
give up while a recommendation can still change the page. Errors, deaths, time limits, expiry and readers
are fair in none of them.

Deadlock is checked in the runs of the scheduler and of the redirect audit, where `Finished`
and `Idle` are the only stutters. It is off in the others, whose systems come to an end (and, in `CrawlJob`, may come to the stall
of section 5).

Some properties deserve a word.

* `CrawlFollowsSite` has both directions: what is queued passed every filter and comes from a
  page at hand one step nearer, and, unless the crawl is cancelled, nothing that a crawled
  page leads to within the depth limit is left out.
* `SiteIsRead` compares the filters with a reader's view of robots.txt, sitemaps and links:
  outside the disputed pages a crawl takes exactly the pages that view has, no other page except
  disputed ones, and none twice. It fails when an allow rule no longer wins a tie.
* `ReopenedOnlyByConcurrentStart`: `_mark_running` sets the status without looking
  at it, so a completed job can go back to crawling; the property shows that this
  takes a delivery that loaded the row before the other one had even started.
  It fails if the gate of `crawl_website` lets a delivery start on a completed job,
  and would fail if the ORM wrote every column of the object it holds.
* `AnalysisLostOnlyByFault`: a redelivered task that finds a completed job does
  nothing, so the analysis of a job whose first task died late is never requested.
  The property shows that nothing but a failure has this effect.
* `DeliveryEnds` excepts one situation, a session that sits on the row lock while
  its pages wait for it. `crawl_job_stall` shows that the situation occurs.
* `ResultFailedOnlyBySweeper` and `OverturnedOnlyByLateSession` are what remains of
  "end states are final" when four sessions write without looking: each names the
  sessions that can still overturn a verdict, and that they had loaded the row
  before it was given. The first fails if `mark_failed_if_pending` loses its
  condition, the second if the gate lets a new delivery work on a finished check.
* `OnlyLostMessageStrands`: a check in flight makes every identical request return
  it, so that one that stays in flight blocks its user. Only two things leave it
  so: the send after the commit failed, or the message was lost before the check
  was claimed; the sweeper does not look at queued checks.
* `PageBudgetOvershoot` is what the check-then-act of `enqueue_many` leaves of
  `max_pages`: one page per other slot, and one per incident (a task that dies
  between marking and paying, or pays twice with a lost answer).
* `CheckEndsOrExhausted` names the three ways in which a run stays open: the last execution
  raised too, an execution was lost with its process, or one outlived its time limit (and may open
  an ended run again). Otherwise it holds because a URL is checked whether or not a slot was
  granted: with the obvious repair, waiting for one, the slots that a dead execution leaked
  would hold up the next for ever (this is the property's mutant).
* `ClosedStreamHasResult`: who is told "completed" may still find the run open, but only if
  a later execution, or an earlier one whose task no longer waits for it, has opened it. The
  one that said so has committed its end, and a dead one never stands behind it. It fails if the
  event is published before the commit.
* `CleanRunCovers`: the loop over pages catches each page's error without a rollback, so
  that after one conflict with another execution every page fails, with its own message in
  the log. The property shows that the commit then raises, so that the stage reports it,
  and that pages which were skipped because another execution had stored them are there.
* `SavedShrinksOnlyByOverlap`: a saved run is replaced by one built from fewer rule
  results only if an execution runs beside its own retry.
* `VerdictsAreTrue` compares each verdict with the one the rule would give if all the data it
  asks for arrived. `Unheard` and `Blind` name the rules whose keys never do: the first fail
  whatever the page says, the second may pass what they should not; `TitleTag` and
  `KeywordInContent` are among them if the page has a target keyword, which the proof showed
  and the pages of the run, before it, did not.
* `AdviceConverges`: rules with different limits look at the same element, and a repair for
  one may spoil another (a shorter title no longer contains the keyword, an H1 must repeat
  it); in the end every rule that hears its data passes, in whatever order the author works.
* `DepthsAreChains`: a page's depth is the length of some way to it, not of the shortest: a
  chain of links from the home page that follows no URL twice, perhaps with a redirect at its
  end or with a last link that closes a circle (`Within`); a link left out for its depth has
  a chain as long as the limit.
* `ReportIsTheSites` compares the report with one read from the site without any crawl
  (`WholeGraph`), for crawls that leave nothing out.
* `FindingsAreTrue` is about every crawl, and says of each type of finding what it means
  (`FindingIsTrue`). Its sources are exactly the fetched pages with such a link (`Alleged`: an empty
  or generic text, a nofollow, an insecure target). Broken and redirecting links, errors of the
  sitemap, dead ends, outlinks and depths are true of the site whatever was left out. Orphans and
  weakly linked pages count links: they are true of the fetched pages always, truncated or not, and
  of the site if nothing was left out. A sitemap URL that was not fetched is called an orphan
  whether or not pages link to it; of these the property says only that the sitemap has it,
  and, if nothing was left out, why it was not fetched.
* `DiscoveryIsWhole`: depths are shortest distances though pages are fetched in batches, and a
  crawl that the budget did not cut has every page that is near enough and allowed. URLs that
  robots.txt forbids use up the budget all the same.
* `RebuiltAsWalked`: the hops shown begin with those of the page's own check, and are these
  unless the check ended at the hop limit or because a request failed (`Interrupted`); then hops of
  other walks may follow. End, count and last URL are the check's, and sources are the pages with
  the link. It fails when the hop to nowhere, which is no edge, is not put back.
* `VerdictIsTrue` counts redirects on the site, not on the results, and names the checks it cannot
  count so: those in which a request failed, of which a server error counts as an answer.
  `VerdictStands` excepts the handler that calls an audit failed after its final commit, and the
  request whose send raised: it calls failed what may be executing or done, and the execution goes on.
* `ReadersAgree`: three readers with their own grouping, order and folding of severities name
  the same failed rules; what one of them counts in a category is what another counts in the
  categories joined there; and a client that reads window after window sees each affected page
  once; it fails when a query forgets its LIMIT.
* `RepairNeverHurts` is over weights that are normalised anew on every page, bonuses that
  offset penalties, clamps and three roundings.

## 4. The proofs

`CrawlSchedulerProofs` proves, for any finite set of URLs and of workers, any
positive `MaxPages` and any `MaxDepth`, under `ConfigAssumption` only (what
`CrawlConfig.validate` enforces):

| Theorem | Property |
|---|---|
| `TypeCorrect` | `Spec => []TypeOK` |
| `OvershootIsBounded` | `Spec => []OvershootBound` |
| `UrlsStayInOnePlace` | `Spec => []EachUrlInOnePlace` |
| `CountersAgree` | `Spec => []CountersReconcile` |
| `ExitsOnlyWhenExhausted` | `Spec => []ExitOnlyWhenExhausted` |
| `DropsOnlyAtCap` | `Spec => []DroppedOnlyAtCap` (not in a run: next to `ImplementsFrontier` it says nothing new) |
| `PoolImplementsFrontier` | `Spec => ImplementsFrontier` |
| `SiteImplementsPool` | `SiteSpec => Spec`: what is proved of the pool holds on every site |
| `CrawlIsTheSites` | `SiteSpec => []CrawlFollowsSite`, under `SiteAssumption` as well |

The argument. `TypeOK` is inductive as it stands. The bound on overshoot is not:
a page in flight must be known to be counted by `active`, and a worker that
settles must leave room for the one that takes; the proof adds
`active = Cardinality(Busy)` and the fact that pages are counted only from
in-flight workers. The places of URLs are inductive together (`PoolInvariance`):
that `Take` makes no duplicate needs the queue to be injective, and that
`Enqueue` keeps it injective needs every queued URL to be visited
(`EnqueueKeepsPlaces`, on the lemmas `ConcatRange`, `QueueGrows`, `QueueShrinks`
about sequences). `ExitInvariance` adds the places to the exit condition:
an exited worker with an empty queue and nobody busy means that nobody is left
who could refill the queue. The refinement maps each action to an action of the
frontier (`EnqueueIsDiscover`, `CloseStep`) or to a stutter (`Stutter`); it needs
all of the above as invariants.

On a site, whatever robots.txt, the sitemaps, the links and the choice of the caller make of
`Starting` and `Found`, `CrawlFollowsSite` is not inductive: that a page counts as crawled and
its links are queued are two steps of one worker, with others between them. `HandsFollow`
adds what a worker has done before it counts the page. The places of URLs are needed since
a depth must not change once a URL is visited. `SiteIsRead` is only model-checked: the
readers of robots.txt and of sitemap indexes are folds over lines and files.

`CrawlJobProofs` proves, for any finite sets of pages and deliveries and any number
of retries and failures, with or without repeated messages, under `JobAssumption`:

| Theorem | Property |
|---|---|
| `JobTypeCorrect` | `Spec => []TypeOK` |
| `AcceptedConfigIsKept` | `Spec => []AcceptedConfigKept` |
| `ProgressIsNeverAhead` | `Spec => []ProgressNeverAhead` |
| `OnlyConcurrentStartReopens` | `Spec => ReopenedOnlyByConcurrentStart` |
| `OnlyFaultsLoseAnalysis` | `Spec => []AnalysisLostOnlyByFault` |

The argument. What the ORM writes is settled once (`MergedFacts`, `CommitFacts`) and
turned into one lemma per action that writes the row (`WritesOf...`); `RowWriters`
says that there are no others. `TypeOK` alone is not inductive: that a page number
stays within the site needs `count[d]` to be the number of pages that delivery has
counted (`CountsMatch`, `CountRoom`). `ProgressNeverAhead` needs besides that a page
past its commit was saved or lost (`SettledKept`) and that a number waiting to be
stored is at most one ahead of the count (`ValuesBehind`): together with the page
itself, the counted pages are then enough to cover it. `AcceptedConfigKept` needs
only that no ORM write touches `recovered` (`AcceptedRow`). The action property
needs `StartInv`: before the request's commit there is no row and no delivery
that has one (so that the commit itself cannot reopen a job), and a delivery loads
only queued or crawling jobs. `Analysed` keeps the analysis owed by a delivery
that has marked the job completed.

`SerpRankCheckProofs` proves, for any number of retries, failures and deliveries
of the preview, under `SerpAssumption`:

| Theorem | Property |
|---|---|
| `CheckTypeCorrect` | `Spec => []TypeOK` |
| `ResultsHaveAnswers` | `Spec => []ResultHasAnswer` |
| `AnsweredIsNotAsked` | `Spec => NoCallOnceAnswered` |
| `OnlySweeperFailsResult` | `Spec => ResultFailedOnlyBySweeper` |
| `OnlyLateSessionsOverturn` | `Spec => OverturnedOnlyByLateSession` |

The argument. One lemma per write says what the session's object becomes
(`ClaimedFacts` and its neighbours) and `CommitFacts` what that leaves in the row.
A property of the row alone is not inductive, since a session writes what it knew
when it loaded the row; `CheckInv` adds what every loaded object still has in
common with the row (`ObjectsBehind`: the answer and the result it knows are still
there), what a session that is about to write must have loaded (`Ready`), that
there is no answer while a task is about to ask (`Unanswered`), that nothing
happens before the request (`Fresh`), and that a check with a result is past being
in flight (`ResultSettled`). `StatusWriters` then lists the steps that change the
status and with what knowledge; both action properties follow from it.
`StreamingAuditProofs` proves, for any site, number of workers and slots, budget, depth,
retries and incidents, under `StreamingAssumption`:

| Theorem | Property |
|---|---|
| `Types` | `Spec => []TypeInv` (`TypeOK`; a task above `max_depth` alone has links to send; there is nothing before the seed) |
| `SlotGivenOnce` | `Spec => []SlotNeverGivenTwice` |
| `BudgetOvershoot` | `Spec => []PageBudgetOvershoot` |
| `OnePlace` | `Spec => []EachPageInOnePlace` |
| `CountsMatch` | `Spec => []CountsMatchResults` |

The argument. `SlotNeverGivenTwice` is inductive: a lemma on cardinalities per move of one
worker into or out of a set of places. The budget needs `BudgetInv`: a claimed page
has been paid for, is about to be, or was lost with an incident; and each task that is about
to mark or pay has seen a budget that was not used up, from a slot of its own. `EachPageInOnePlace` needs `PlacesInv`: whatever waits, is
executed or is still to be sent has been claimed; the links that tasks have claimed and not
yet sent are distinct, no two tasks have one in common, and none of them has a message or a
result. `CountInv` adds to the bound what will be counted again, which has its incident
already.

`RedirectCheckProofs` proves, for any finite set of URLs, any number of slots, executions
and faults, under `RedirectAssumption`:

| Theorem | Property |
|---|---|
| `Types` | `Spec => []TypeOK` |
| `CompletedIsStored` | `Spec => []CompletedMeansStored` |

The argument. That the completed count is a natural number needs `FailedIsCounted`: the
failures an execution has counted are those of the results it has, of which there are as
many as coroutines that ended. `StoreInv` adds `WorkOf`, what an execution knows about the store from its
place: past the loop, every result it has was stored, or it remembers that one was not. An execution that
is lost with its process changes nothing that it knew.
A row may be set to completed by one execution and overwritten column by column by another;
the status comes with the object that `Merged` compares, and results are never deleted.

The same module proves of `RedirectStream` (as the instance `Stream`), for any set of URLs and any number of
executions, empty polls and faults:

| Theorem | Property |
|---|---|
| `StreamInvariant` | `Stream!Spec => []StreamInv` |
| `ClosedStreams` | `Stream!Spec => []ClosedStreamHasResult` |

`StreamInv` relates three places where an event can be, the channel, the list and the client's
hands, to the executions (`Heard`): one that says "completed" is of an execution that has committed
the end. What it says of the row is weaker when executions overlap (`EndHolds`): where one has ended
the run, it is ended or some other execution has it open, a later one or one whose task no longer
waits for it. That an earlier execution which is still waited for does not come back needs
`Turns`: an execution is queued only when the one before was cut short, never to move again, or
is no longer waited for. The hypotheses (`StreamConstants`) are the assumption of
`RedirectStream`, which an instance does not bring along.

`StreamingAuditProofs` also proves of `RedirectAudit` (as the instance `Audit`), for any sites, budget,
depth, hop limit and faults, and batches of at least one, under its assumption `AuditAssumption` and that of
`RedirectDiscovery` and `RedirectChains`:

| Theorem | Property |
|---|---|
| `AuditInvariant` (a lemma) | `Audit!Spec => [](DiscoveryInv /\ AuditInv /\ AnswersInv)` |
| `EndsAreWhole` | `Audit!Spec => []EndIsWhole` |
| `VerdictsStand` | `Audit!Spec => VerdictStands` |
| `VerdictsHold` | `Audit!Spec => []VerdictIsTrue` |
| `AnswersAreWalks` | `Audit!Spec => []RebuiltAsWalked` |
| `PagesAreWhole` | `Audit!Spec => []DiscoveryIsWhole` |

The three parts of the invariant are proved together, since each step of the checks needs what the
discovery found. `AuditInv` says, for every place of an execution, which of its counts are
committed (`InHand`: one check for each of the first pages, which are distinct because the discovery queues
no URL twice), that an execution is under way only on an audit that was open when it looked, or that
a request has called failed since (`Overruled`), and that a row which says that it ended well has the
counts of its graph. What an event told is then what the row still says, since the handler that fails a
finished audit leaves its graph alone. `AnswersInv` adds what the checks and the graph
have to do with the site: the links found are those of the pages found, and of an audit that came to
its own end (`Told`) the graph holds exactly the redirects that its checks were answered with. TLC
checked `AuditInv` and `AnswersInv` on the 343,550 states of the run as well.

What a check finds depends on which of its requests fail (`ChecksAreTrue`, `BatchOfChecks`):
its hops are a part of the walk from the start (`CutIs`, `HopsOfCut`), all of it if no request failed,
and its end is that of the walk or the failure (`OutcomeOf`). The rest is about one walk, for any site,
under `ChainAssumption` (a URL is none of the words
for an answer). `Place`, `RedirectsTo` and `Passed` define each place from the one before, and
`WayExists` shows that there is a function as they describe it. `OnTheWay` identifies the URLs to which
redirects lead with those of the walk, and `RoundAndRound` shows that a walk that has come back sees no URL
that it has not seen, so that its memory of visited URLs costs no answer (`WalkLeads`, from which
`VerdictIsTrue` follows for the checks that were not interrupted). For the answer, `WayRests` counts edges: were there a way that neither ends nor recurs,
there would be more edges than there are. `SameWay` then takes the walk and
the way along the stored edges step by step: every hop of a check is an edge, so the way shown begins
with the check, however it ended. `SameEnd` shows that they end together if no request failed and the limit did not cut:
an answer and a redirect to nowhere are no edge, whichever walk stored it, and a loop closes at the same URL.
Where a check was cut, by the limit or by a failed request (`AskedIsStop` says at which URLs), another
check may have stored an edge from there, and the way goes on.

`PagesAreWhole` is about a breadth-first search that a budget may cut. Its invariant `DiscoveryInv`
has the queue in the order of distances, which differ by one at most (`Sorted`), every page and
every item at its shortest distance (`Right`), and every URL ever queued among the pages, in the queue
or forbidden (`Reached`). That a link found at some distance is not nearer needs that nothing has been passed
over: while there is room, the links of every page worked off are queued (`LinksQueued`), so all that lies nearer than
the head of the queue is known (`FrontierKnown`); once the budget is spent nothing is queued
any more, and nothing has to be shown. `Picks` says what the filters of links, sitemaps and the
queue keep, by induction over the sequence, `BatchReaches` follows a batch page by page, and
`EndOfDiscovery` counts: as many pages as the budget allows leave no room.

`AuditReportProofs` proves, for any pages, variants, rules, categories, weights, bonuses and
penalties, under `ReportAssumption`:

| Theorem | Property |
|---|---|
| `WorstVerdict` | `Spec => []WorstVerdictWins` |
| `IssueFails` | `Spec => []IssueFailsItsCheck`, if there are fewer than 2000 canonical pages |
| `RepairsAreSafe` | `Spec => []RepairNeverHurts` |

The argument. `ReportInvariant` relates the merged verdicts to the rows merged so far and
the order to the pages that have verdicts; `RoundedShare` shows that a share below one
does not round to 100.0 while the denominator is below 2000 (at 2000 pages it does: one
failing page rounds up); `FirstPageFacts` that the page whose verdict the summary
shows exists and is one of those with a verdict.

`RepairNeverHurts` needs sums over sets, which the community modules define by taking a set
apart in an order nobody knows. `SumsExist` shows that the recursion has a solution
on every finite set, by induction over the number of elements (`NatSteps`: as a fact about
sets of numbers, without an operator as parameter); `SumsGrow` and `SumsPositive` follow by induction over
subsets (`SubsetSteps`). One lemma per sum of the scorer (`ImpactSum` and its neighbours) says that it is
such a sum. From there the argument goes up the report: clamping keeps the order of two category
scores, a weighted mean over the same categories does (a repair changes no rule's category and
leaves no verdict missing), rounding does (`RoundedGrows`), and so does the mean over pages. The
assumption that a missing verdict is no verdict (`Missing`) is needed here, since a repair must not make
one disappear.

`AuditPipelineProofs` proves, for any finite set of pages, any number of executions and faults,
under `PipelineAssumption`:

| Theorem | Property |
|---|---|
| `PipelineInvariant` | `Spec => []PipelineInv` |
| `PipelineTypes` | `Spec => []TypeOK` |
| `CleanRunIsComplete` | `Spec => []CleanRunCovers` |
| `SavedShrinks` | `Spec => SavedShrinksOnlyByOverlap` |
| `ImpactSigns` | a rule that passes adds no penalty and one that fails no bonus, for any data |
| `VerdictsAreDeserved` | `PASpec => []VerdictsAreTrue`, for any pages to start from, under `AdviceAssumption` |
| `AdviceIsSafe` | `PASpec => AdviceNeverCosts`, under `AdviceAssumption` |

The argument. `Keeps` says of one execution, stage by stage, what it still has to show for its
pages: past the parse stage, a page whose facts are not there was left out, or an error was
recorded; and so on to the saved run (`Parses`, `HasParsed`, ..., `HasScored`). It survives the
steps of the others because nothing that was stored is deleted (`OthersKeep`). `Turns` is that
deliveries come one after the other unless one is no longer waited for; `SavedIsKept` needs it:
as long as every execution is waited for, what is saved is in the report that replaces it. TLC
checked `PipelineInv` on all 126,636 states of the run before it was proved.
`ImpactSigns` is what `ReportAssumption` takes for granted of `Bonus` and
`Penalty`. One lemma per file of rules (`OnPageSigned` and its neighbours) goes through the
rules; the only arithmetic is that of penalties that grow with a count.

`VerdictsAreDeserved` compares two verdicts of each rule, on the page and on what arrives of it.
`Arrives`, `ArrivesAtAudit` and `ArrivesAtStream` say field by field what arrives (`CommonArrives`,
`AuditArrives`, `StreamArrives`), `Apt` what the property asks of one rule, and one lemma per file of rules
(`OnPageApt` and its neighbours) that it holds. The page must be `Sound` for it, which is
`Sane` with each field in its set of values (`Known`; the prover cannot see that a record of 52
fields with one of them changed is still in the set of records). That a repaired page is sound again
is shown per recommendation: most change one or two fields on which nothing else depends (`AdviceChanges`), added
links are not generic (`MoreLinks`), added blocks are JSON-LD (`NewBlocks`). `PageInv` then says
that the last verdicts and score are those of the page as it is. TLC checked that pages stay sane
on the 12 thousand states of the run. `AdviceAssumption` says that the pages to start from are sane,
that the author adds finitely many external links, and that `Missing`, which stands for no verdict,
is none.

`AdviceIsSafe` compares the verdicts on what arrives of a page with those on what arrives of it
repaired. `Better` says that the repaired page is no worse in any field that no repair trades for another;
every rule that reads only such fields is then `Spared`: it adds no more penalty, and takes no
bonus back (`OthersSpared`, from one lemma per file of rules). What is left are the repairs
with which one rule gains and others may lose. A new title or new headings may cost the rule on the
H1, which is told to repeat the title, a point within `on_page`; the first
block of structured data brings four rules to look for a type of block, each of which may then
take its one point, while `SchemaMarkup` gains five, within `schema`; and a page that is given
words may turn out to be off its title's topic, a loss for `on_page` that the gain of `WordCount`,
in `content`, has to make up for with the weights of the two categories.
`CategoryTrade` and `PageTrade` say when such a
trade costs the page nothing: if one summand gains what the others lose together, the clamped
and weighted total does not fall (`SumsTrade`, by induction on the finite set of summands). The
exception in the property is the code's: added links are counted with generic texts.

`LinkAnalysisProofs` proves, for any sites, caps, number of workers and depth limit, under
`LinkAssumption`:

| Theorem | Property |
|---|---|
| `AnalysisTypeCorrect` | `Spec => []TypeOK` |
| `PageCapHolds` | `Spec => []PageCapExact` |
| `WholeUnlessTruncated` | `Spec => []WholeUnlessSaid` |
| `DepthsHaveChains` | `Spec => []DepthsAreChains` |
| `FindingsHold` | `Spec => []FindingsAreTrue` |
| `ReportsAreTheSites` | `Spec => []ReportIsTheSites` |

The argument. Type correctness needs the reservations to stay within the cap and the inbound
counts to be numbers, that is, the links to one URL to be finitely many (`CountedIsNat`). The
limit needs `CapInv`: pages drawn and in flight are no more than the reservations; and
`PlacesInv`: what waits or is fetched has been seen, and is there once (`QueueGrows`,
`QueueShrinks` on sequences). `ClosedInv` adds that whatever was seen waits, is fetched, is
drawn or is forbidden unless the crawl calls itself truncated, and that every link of a page
drawn was seen or cut.

For the depths, `ChainInv` keeps with every item that has one a chain of that length among
URLs that were seen: a URL is queued because it had not been seen, so it is on no chain and
prolongs the one that leads to it (`WayGrows`), and the URLs are enough for the chain since none
repeats. For the findings, which are shown type by type, `TruthInv` says that only what there is to request is requested, that
the pages drawn have the site's links, what the class of each URL comes from, and that the
inbound counts tell no links from one from many. `RequestedIsLeast` shows that the steps of
`RequestedIn` suffice to close it and that it is the least closed set, so that a crawl which is
closed has requested all of it (`WholeCrawl`). For the report, `WholeInv` counts the inbound links
of the settled requests exactly (`BroughtByOneMore`), and at the end the graph is `WholeGraph`
field by field (`GraphIsWhole`); which of the shortest URLs is taken for the home page no
longer matters. `ChainsStep` and `RequestedSteps` show, by induction on the bound, that there
are functions as the recursive definitions describe them.

`TypeCorrect`, `JobTypeCorrect`, `CheckTypeCorrect`, `OvershootIsBounded`, `UrlsStayInOnePlace`,
`CountersAgree`, `ExitsOnlyWhenExhausted`, `ResultsHaveAnswers`, `WorstVerdict`, `SlotGivenOnce`, `OnePlace` and `CountsMatch` are proved, and no run
checks their properties any longer.

Only model-checked: the liveness properties (`Terminates`, `DeliveryEnds`,
`OnlyLostMessageStrands`, `ClaimedPageEnds`, `RestsWithNothingHeld`,
`CheckEndsOrExhausted`, `StreamCloses`, `ExecutionEnds`, `AdviceConverges`, `AnalysisEnds`),
which are outside what the prover handles; `SiteIsRead` and `ReadersAgree`, which speak of
filters and folds over sequences, and would need an induction over such data (and `SiteIsRead` is not true of
every site: a sitemap index that is first met at the depth limit is lost even if a shorter way leads
to it, see section 5). The property of the violation run is refuted, not proved.

## 5. What the checks found

With a run of its own, in which TLC finds the behaviour:

1. **A crawl without sitemap URLs stalls** (`crawl_orchestrator.py:100`,
   `crawl_job_stall`). `job.total_pages` is flushed, not committed; the only commit before
   the pool starts is in `_update_progress(0)`, which runs if there are sitemap URLs. The
   pages' sessions then wait for the row lock of the session that waits for them.
Met while modelling, and part of the models without a run of their own:

2. **A refused page is lost** (`streaming_audit/tasks.py:77`).
   The branch that should send the message again raises `UnboundLocalError`, so the page
   uses up its retries while others hold the slots. The run then never becomes completed.
3. **A stream closes with events missing** (`redirect_check/sse.py:110`). One counter is
   index into the list and number of messages received. An event that comes over both
   moves the index past one that came over neither.
4. **A site without rule results has no score** (`analysis_scorer_service.py:105`). `build`
   strips empty lists, `score_project` looks the issues up: the scoring stage fails, is
   passed over, and the pipeline reports that it completed. (`Unheard` in `PageAdvice` shows
   why a page with results always has issues.)

5. **`max_pages` is not a hard bound** (`crawl_scheduler.py:314`). The budget is
   checked when a URL is taken and counted when its page is done. A test calls it
   "a hard upper bound"; its worker function never awaits, so the workers cannot
   race in it. `OvershootBound` is what holds. The docstring of `submit_sitemap_urls`
   (lines 265-267) also promises a check of max pages at submission; there is none.
6. **A missing row can appear** (`tasks.py:22`, `analyze.py:131`). The message is
   sent before the commit. The worker then tries to recreate the row, its INSERT
   waits for the request's commit and fails, and the job stays queued.
7. **Failures are not recorded** (`tasks.py:208`). The failure handler flushes and
   re-raises; closing the session rolls the UPDATE back, so the row says
   "crawling" for ever. The stall of a retried task is avoided by the same accident:
   had the status been committed, the retry would have found a failed job and left.
8. **A lost preview is not healed** (`serp_rank_check/service.py:286`). "Ranked"
   is always committed together with preview "pending"; the self-healing gate looks
   for preview "none". A worker that dies before the send, or a send that fails,
   leaves the check "ranked" for ever.
9. **The sweeper fails answered checks** (`serp_rank_check/service.py:474`). It
   decides on rows it loaded before it handled the ones ahead in its list. A check
   whose call times out and is retried does not touch `updated_at`: three timeouts
   of 30 s and their back-off pass the cutoff of 90 s while the fourth attempt is
   under way, and its answer can arrive between the sweeper's query and its
   commit. The check is then failed as "stuck" with its answer, or its result, in
   the row.
10. **A redirect check drops URLs** (`redirect_check/service.py:478`). `reserve_slot`
    stands before the `try` whose comment (line 558) promises to "keep the URL in the
    report instead of dropping it". And a database error while results are stored never
    makes a run partial, as `tests/test_concurrent_persistence.py:232-233` expects:
    nobody rolls the session back, so the update of the run raises too.
11. **The cache says more than happened** (`audit/tasks.py:325`). The status written at
    the end calls the parse and evaluate stages completed though their errors were
    passed over. The file is written before the run is committed, so it survives a
    conflict that loses the run. A reader that read the previous report can store it
    after the new one, where it stays for a day.

12. **Rules read keys that never arrive.** `CanonicalUrl` reads `canonical_url`, the data have
    `canonical` (`on_page.py:1027`); `Unheard` and `Blind` in `PageAdvice` list all rules
    of this kind, among them every one about headers when a streaming audit judges the page.
    A response of more than ten seconds is taken for milliseconds and rated excellent
    (`performance.py:31`), the test for an HTML5 doctype can never match
    (`technical.py:210`), a block of structured data with several types makes two rules
    raise (`technical.py:581`, `schema.py:69`), and links added on advice can lower the score.
13. **Redirects hide from a link analysis.** A page is drawn under its final URL: a sitemap
    URL that redirects is an orphan although it is linked, its target's inbound links are
    counted twice and its depth replaced; an ordinary redirect is never reported, as
    `analyzer.py:183` says it is. A page that redirects to the home page gives it its own
    depth, and the pages fetched before revise it from there: the home page can end up two
    clicks from itself. A page elsewhere to which a redirect brought the crawler is broken
    when it answers 403, though the link checker never calls such a page broken. Depths are not minimal (`graph.py:94-98` promises "the
    smallest value seen so far wins"); a crawl cut off at its depth limit does not call
    itself truncated and reports weakly linked pages and orphans that are none. 403 is
    broken when crawled and unverified when checked; files are dead ends, though
    `analyzer.py:357` says "200 HTML pages"; every sitemap URL that was not fetched is an orphan,
    linked or not, where `analyzer.py:223` says "zero inbound internal links"; broken sitemap URLs to which nothing links are broken
    internal links; what robots.txt forbids is still asked for by the link check. Two loops
    look for the home page among the shortest URLs and may disagree.
14. **An analysis in progress reads "queued"** (`link_analysis/service.py`). Its only commit
    is at the end; until then the row lock keeps the request's own commit of the task id
    waiting. A send that fails leaves the row queued for ever.

15. **A finished redirect audit can become failed** (`redirect_urls/service.py:671`). The handler
    covers `build_result` after the final commit; and an audit that found nothing is failed,
    and streamed as failed, while its task is still to write why. A send that raises after the
    broker took the message calls the audit failed whatever has become of it (`router.py:97`);
    an execution that has read its status before opens it again, and a completed row may
    then keep "The redirect audit could not be queued." `max_hops` limits the walk
    but not the hops of the answer, which follows the stored edges as far as they lead, and
    so shows hops behind a URL at which the check of this page timed out, beside its error.
    A hop to nowhere that is put back has lost its `location` (`service.py:372`).

16. **A redirect check whose process dies stays "processing"** (`redirect_check/tasks.py:10`). With
    `acks_late` alone the parent acknowledges the message of a dead child, so the task is neither
    repeated nor recorded. And an execution that the soft time limit freed may open the
    run, clear its events or end it beside the retry that has ended it, so that a client that was
    told "completed" finds it processing.

17. **The detail of an issue cannot be read** (`audit_read_model_service.py`). `build_issue_detail`
    passes the audit's id twice and raises whenever the rule has a failed row (`IssueDetail`).
    Its impact tiers (15 and 8) are said to mirror those of the report assembler, which has 10
    and 4. Rows are stored as critical, warning, info or error, so the overview's high, medium
    and low are always 0. The report takes a rule's severity from its first row, the overview
    from the worst; a rule that raised counts 100 points in the report.

Of the report: the summary keeps the verdict of the first page that has one, while
`score_calculator.py:346-348` says that a check passes only when all pages pass; pages
without verdicts count in the denominator of every share; which of several failing
verdicts of a page's variants is kept depends on random ids; `get_status` describes 90 to
100 as excellent and tests for 85; rules that time out are left out of everything. A
streaming audit of a site with fewer pages than `max_pages` stays partial, since a
run is completed only by as many ended pages. Progress of a crawl can move back (pages
store a number read before they waited), and its final counts are not written when they
equal the stale value that the orchestrator's object still has.

Of robots.txt, sitemaps and URLs: the regular expression for path loops matches only with
double slashes, `/a//a//a`, not `/a/b/a/b` as its comment says (`url_classifier.py:88`);
subdomains are the same site (`is_same_site`, `url_utils.py:224-254`, whose docstring says so), while
`url_classifier.py:128-130` says that they "remain external" and
`crawler/tests/unit/test_host_normalization.py:58-69, 101-105, 119-123` expect it; the groups of `*` and of
the crawler's own name are merged, where a test is called `test_specific_group_overrides_wildcard`
(`test_robots_service.py:27`; its file passes either way). A rule before any
User-agent line opens a group for `*` which the next User-agent line does not close; a `*` inside a pattern never matches. The list of
sitemaps can exceed `MAX_CHILD_SITEMAPS`, which `site_discovery_service.py:260` calls a cap;
children for which there is no room are marked as seen all the same; an index first met at the
depth limit is lost even if a shorter way leads to it. URLs of sitemaps keep parameters that
links lose, so that one page can be crawled twice. A page that does not begin with `<html` or
`<!doctype` has its links ignored, and links of a page that was redirected to another host back to
the site count as external.

## 6. What is not modelled

HTML parsing (what arrives of a page is part of `PageAdvice`), the rules that nobody
registers, rendering, the XML of sitemaps and the case, ports and encoding of URLs, the contents of pages and buffers (a page's rows are one unit),
event-bus listeners, logging and diagnostics counters, which nothing reads back.
Cancellation of a crawl by a user does not exist in the API: `cancel()` has no
caller in the repository, and is modelled as part of the scheduler's interface.

Of the rank check: the unique index over checks in flight (one check is
modelled, and `OnlyLostMessageStrands` says when it keeps blocking others),
and the reference data. A second sweep that starts while one is still going on, which
beat does not prevent, is left out as well. Of the streaming audit: the code that nobody
calls (`next_url`, `is_idle`, `has_pending_work`, `ensure_completion`,
`process_seed_url`, the list `queued`) and the endpoints that read. Of the redirect check:
how a chain is followed, the browser fallback, the report. Of the redirect URL audit: the single
attempts of a request (one that fails on all of them is a fault), requests of the discovery that
fail where the site answers, size limits, the canonical form of URLs, the text of a `location` that
names no URL. Of the pipeline: the endpoints
and tasks that run one stage by hand (forced evaluation leaves an old `evaluation_error`
row in place and never invalidates the cache), the link check of stage 0, rows that
log a skipped page, and the loss of a PostgreSQL transaction by an error of a SELECT. Of the report: grades,
wording and the sections copied from the crawl.
The components with their reasons are listed in `PROJECT.json`.

## 7. The plan

Every component that the table of section 1 describes as hard is modelled, except authentication,
and each has proofs: `SiteRules`, `SitemapDiscovery` and `AuditReadModel` alone have
none. The map covers about a fifth of the implementation; the rest is mostly the single
checks, the document generators and the HTTP layer.
Left, in this order:

1. Proofs: `ReadersAgree`, for which the filters of rows
   have to be written so that the prover can look into them (as `Picked` is).
2. `WriteBuffer`: partial flushes of a page's buffers.
3. `AuthTokens`: single use under concurrent requests.
4. Several rank checks under the unique index of checks in flight.
