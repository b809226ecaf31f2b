------------------------------ MODULE CrawlJob ------------------------------
(***************************************************************************)
(* One crawl job, from POST /audit/analyze to the request for its          *)
(* analysis: the row of crawl_jobs and the database sessions that write    *)
(* it.  The sessions are the API request, one per delivery of the Celery   *)
(* task crawler.crawl_website (the orchestrator's), and one per page that  *)
(* a delivery crawls.                                                      *)
(*                                                                         *)
(* PostgreSQL and SQLAlchemy are modelled as far as the code relies on     *)
(* them: a session sees committed data and its own; an UPDATE waits for a  *)
(* row lock, held until the holder's commit; an INSERT waits for an        *)
(* uncommitted one of the same key; and the ORM writes only the columns    *)
(* whose value differs from the value it last read (expire_on_commit is    *)
(* off, and a SELECT does not refresh an object the session already has).  *)
(*                                                                         *)
(* The pool of page workers is CrawlScheduler; here every page is crawled  *)
(* by a coroutine of its own.                                              *)
(***************************************************************************)
EXTENDS Naturals, FiniteSets, OrmSession

CONSTANTS
  Page,        \* the pages of the site
  Delivery,    \* deliveries of the task message: first, retried, repeated
  MaxRetries,  \* max_retries of the task
  MaxFaults,   \* bound on failures of the database, the broker and processes
  MayRepeat,   \* whether the broker repeats a message that is not yet acked
  Nobody       \* the holder of a free lock

ASSUME JobAssumption ==
  /\ IsFiniteSet(Page) /\ IsFiniteSet(Delivery)
  /\ Nobody \notin Delivery
  /\ MaxRetries \in Nat /\ MaxFaults \in Nat
  /\ MayRepeat \in BOOLEAN

VARIABLES
  row,        \* the committed row of crawl_jobs
  lock,       \* the delivery whose session holds the row's lock, or Nobody
  api,        \* the request handler's progress
  pc,         \* where each delivery is in crawl_website
  retries,    \* self.request.retries of each delivery
  mem,        \* the CrawlJob object of each orchestrator's session
  page,       \* each delivery's progress with each page
  value,      \* the page number a page is about to store as the progress
  count,      \* scheduler.pages_crawled_count of each delivery
  saved,      \* the pages whose rows were committed
  lost,       \* the pages whose commit failed
  analyses,   \* the requests for analysis that were sent
  faults      \* failures so far

execVars == <<mem, page, value, count>>
vars == <<row, lock, api, pc, retries, execVars, saved, lost, analyses, faults>>

\* The columns of crawl_jobs that somebody reads back: total_pages is NULL or
\* max_pages, and recovered is crawl_config_recovered.
RowType == [status    : {"absent", "queued", "crawling", "completed", "failed"},
            total     : BOOLEAN,
            crawled   : 0 .. Cardinality(Page),
            recovered : BOOLEAN]

NoRow == [status |-> "absent", total |-> FALSE, crawled |-> 0, recovered |-> FALSE]
QueuedRow    == [NoRow EXCEPT !.status = "queued"]
RecoveredRow == [QueuedRow EXCEPT !.recovered = TRUE]

Ended == {"skipped", "retried", "failed", "dead", "done"}

\* Past the SELECT of the row and not ended.
Running == {"missing", "loaded", "running", "discovering", "crawling", "counted",
            "completed"}

Place == {"unused", "sent"} \cup Running \cup Ended

TypeOK ==
  /\ row \in RowType
  /\ lock \in Delivery \cup {Nobody}
  /\ api \in {"idle", "flushed", "sent", "committed", "aborted"}
  /\ pc \in [Delivery -> Place]
  /\ retries \in [Delivery -> 0 .. MaxRetries]
  /\ mem \in [Delivery -> RowType]
  /\ page \in [Delivery -> [Page -> {"fetching", "saving", "stored", "counted", "failed"}]]
  /\ value \in [Delivery -> [Page -> 0 .. Cardinality(Page)]]
  /\ count \in [Delivery -> 0 .. Cardinality(Page)]
  /\ saved \subseteq Page /\ lost \subseteq Page
  /\ analyses \in Nat
  /\ faults \in 0 .. MaxFaults

Init ==
  /\ row = NoRow /\ lock = Nobody /\ api = "idle"
  /\ pc = [d \in Delivery |-> "unused"]
  /\ retries = [d \in Delivery |-> 0]
  /\ mem = [d \in Delivery |-> NoRow]
  /\ page = [d \in Delivery |-> [p \in Page |-> "fetching"]]
  /\ value = [d \in Delivery |-> [p \in Page |-> 0]]
  /\ count = [d \in Delivery |-> 0]
  /\ saved = {} /\ lost = {} /\ analyses = 0 /\ faults = 0

\* A failure of the environment, as often as MaxFaults allows.
Fault == faults < MaxFaults /\ faults' = faults + 1

Goto(d, from, to) == pc[d] = from /\ pc' = [pc EXCEPT ![d] = to]

-----------------------------------------------------------------------------
(* POST /audit/analyze *)

\* job_repo.create(): the INSERT is flushed and not committed.
ApiCreate ==
  /\ api = "idle" /\ api' = "flushed"
  /\ UNCHANGED <<row, lock, pc, retries, execVars, saved, lost, analyses, faults>>

\* celery_app.send_task, while the request's transaction is still open.
ApiSend(d) ==
  /\ api = "flushed" /\ api' = "sent"
  /\ Goto(d, "unused", "sent")
  /\ UNCHANGED <<row, lock, retries, execVars, saved, lost, analyses, faults>>

\* get_db commits after the handler has returned.
ApiCommit ==
  /\ api = "sent" /\ api' = "committed"
  /\ row' = QueuedRow
  /\ UNCHANGED <<lock, pc, retries, execVars, saved, lost, analyses, faults>>

\* send_task or the commit fails: get_db rolls back.
ApiAbort ==
  /\ Fault
  /\ api \in {"flushed", "sent"} /\ api' = "aborted"
  /\ UNCHANGED <<row, lock, pc, retries, execVars, saved, lost, analyses>>

-----------------------------------------------------------------------------
(* ORM writes of an orchestrator's session *)

\* The row as the session of d sees it: the lock's holder set total_pages.
View(d) == IF lock = d THEN [row EXCEPT !.total = TRUE] ELSE row

\* An UPDATE waits for the row lock; a flush that has nothing to write does not.
MayWrite(d, new) == new = mem[d] \/ lock \in {d, Nobody}

Released(d) == IF lock = d THEN Nobody ELSE lock

\* job.<column> = ...; repository.update(job), which flushes and refreshes;
\* commit.
CommitJob(d, new) ==
  /\ MayWrite(d, new)
  /\ row' = Merged(mem[d], new, View(d))
  /\ mem' = [mem EXCEPT ![d] = row']
  /\ lock' = Released(d)

-----------------------------------------------------------------------------
(* crawl_website up to the scheduler's run *)

\* The status gate: a job that was completed, failed or cancelled is left alone.
ToBeCrawled_Unfailed(r) == r.status # "failed"

ToBeCrawled(r) == r.status \in {"queued", "crawling"}

\* The task loads the row.
Start(d) ==
  /\ pc[d] = "sent"
  /\ pc' = [pc EXCEPT ![d] =
              CASE row.status = "absent" -> "missing"
                [] ToBeCrawled(row) -> "loaded"
                [] OTHER -> "skipped"]
  /\ mem' = [mem EXCEPT ![d] = row]
  /\ UNCHANGED <<row, lock, api, retries, page, value, count, saved, lost,
                 analyses, faults>>

\* The INSERT of a row of the same key waits for the request's transaction.
InsertMayRun == api \notin {"flushed", "sent"}

Recreate_Upsert(d) ==
  /\ Goto(d, "missing", "loaded")
  /\ row' = RecoveredRow
  /\ mem' = [mem EXCEPT ![d] = RecoveredRow]
  /\ UNCHANGED <<lock, api, retries, page, value, count, saved, lost, analyses,
                 faults>>

\* The row is missing: it is recreated from the task's arguments.
Recreate(d) ==
  /\ InsertMayRun /\ row = NoRow
  /\ Goto(d, "missing", "loaded")
  /\ row' = RecoveredRow
  /\ mem' = [mem EXCEPT ![d] = RecoveredRow]
  /\ UNCHANGED <<lock, api, retries, page, value, count, saved, lost, analyses,
                 faults>>

\* The row appeared after it was looked for.  The IntegrityError is not one the
\* task retries, and it is raised before the handler that marks the job failed.
RecreateConflicts(d) ==
  /\ InsertMayRun /\ row # NoRow
  /\ Goto(d, "missing", "failed")
  /\ UNCHANGED <<row, lock, api, retries, execVars, saved, lost, analyses, faults>>

\* _mark_running.
MarkRunning(d) ==
  /\ Goto(d, "loaded", "running")
  /\ CommitJob(d, [mem[d] EXCEPT !.status = "crawling"])
  /\ UNCHANGED <<api, retries, page, value, count, saved, lost, analyses, faults>>

\* job.total_pages = max_pages, flushed and not committed: if the column was
\* NULL the session now holds the row lock.
SetTotal(d) ==
  /\ Goto(d, "running", "discovering")
  /\ MayWrite(d, [mem[d] EXCEPT !.total = TRUE])
  /\ lock' = IF mem[d].total THEN lock ELSE d
  /\ mem' = [mem EXCEPT ![d] = IF mem[d].total THEN row ELSE [row EXCEPT !.total = TRUE]]
  /\ UNCHANGED <<row, api, retries, page, value, count, saved, lost, analyses, faults>>

StartPages(d) ==
  /\ page' = [page EXCEPT ![d] = [p \in Page |-> "fetching"]]
  /\ value' = [value EXCEPT ![d] = [p \in Page |-> 0]]
  /\ count' = [count EXCEPT ![d] = 0]

\* The site has a sitemap: its URLs are submitted and _update_progress(0)
\* stores and commits.
BeginWithSitemap(d) ==
  /\ Goto(d, "discovering", "crawling")
  /\ lock \in {d, Nobody}
  /\ CommitJob(d, [mem[d] EXCEPT !.total = TRUE, !.crawled = 0])
  /\ StartPages(d)
  /\ UNCHANGED <<api, retries, saved, lost, analyses, faults>>

\* No sitemap URL was found: the pool starts with the transaction still open.
BeginWithoutSitemap(d) ==
  /\ Goto(d, "discovering", "crawling")
  /\ StartPages(d)
  /\ UNCHANGED <<row, lock, api, retries, mem, saved, lost, analyses, faults>>

-----------------------------------------------------------------------------
(* The pages, each with a session of its own *)

SetPage(d, p, from, to) ==
  /\ pc[d] = "crawling" /\ page[d][p] = from
  /\ page' = [page EXCEPT ![d][p] = to]

\* The number a page will store, read before anything is awaited.
NextNumber_PlusInFlight(d) ==
  count[d] + Cardinality({p \in Page : page[d][p] \in {"fetching", "saving", "stored"}})

NextNumber(d) == count[d] + 1

\* The page was fetched and parsed; _update_progress(pages_crawled_count + 1).
PageFetched(d, p) ==
  /\ SetPage(d, p, "fetching", "saving")
  /\ value' = [value EXCEPT ![d][p] = NextNumber(d)]
  /\ UNCHANGED <<row, lock, api, pc, retries, mem, count, saved, lost, analyses, faults>>

\* The fetch failed, or processing raised.
PageFails(d, p) ==
  /\ SetPage(d, p, "fetching", "failed")
  /\ UNCHANGED <<row, lock, api, pc, retries, mem, value, count, saved, lost,
                 analyses, faults>>

\* update_progress: the only commit of the page's rows.  The session has not
\* read the job before, so it writes every column that differs.
PageCommits(d, p) ==
  /\ SetPage(d, p, "saving", "stored")
  /\ LET new == [row EXCEPT !.total = TRUE, !.crawled = value[d][p]]
     IN  /\ new # row => lock = Nobody
         /\ row' = new
  /\ saved' = saved \cup {p}
  /\ UNCHANGED <<lock, api, pc, retries, mem, value, count, lost, analyses, faults>>

\* update_progress swallows the exception of a failed commit.
PageCommitFails(d, p) ==
  /\ Fault
  /\ SetPage(d, p, "saving", "stored")
  /\ lost' = lost \cup {p}
  /\ UNCHANGED <<row, lock, api, pc, retries, mem, value, count, saved, analyses>>

\* _crawl_page returned: the scheduler counts the page.
PageCounted(d, p) ==
  /\ SetPage(d, p, "stored", "counted")
  /\ count' = [count EXCEPT ![d] = count[d] + 1]
  /\ UNCHANGED <<row, lock, api, pc, retries, mem, value, saved, lost, analyses, faults>>

-----------------------------------------------------------------------------
(* After the scheduler's run *)

\* scheduler.run() gathers every worker.
PoolDone_OnSuccess(d) == \A p \in Page : page[d][p] = "counted"

PoolDone(d) == \A p \in Page : page[d][p] \in {"counted", "failed"}

FinalCounts(d) ==
  /\ PoolDone(d)
  /\ Goto(d, "crawling", "counted")
  /\ CommitJob(d, [mem[d] EXCEPT !.crawled = count[d]])
  /\ UNCHANGED <<api, retries, page, value, count, saved, lost, analyses, faults>>

\* _mark_completed, whatever the pages did and whatever the status is now;
\* completed_at and duration_ms change every time.
MarkCompleted(d) ==
  /\ Goto(d, "counted", "completed")
  /\ lock \in {d, Nobody}
  /\ CommitJob(d, [mem[d] EXCEPT !.status = "completed"])
  /\ UNCHANGED <<api, retries, page, value, count, saved, lost, analyses, faults>>

\* auto_analyze: send audit.run_analysis_pipeline.
RequestAnalysis_Nothing(d) ==
  /\ Goto(d, "completed", "done")
  /\ UNCHANGED <<row, lock, api, retries, execVars, saved, lost, analyses, faults>>

RequestAnalysis(d) ==
  /\ Goto(d, "completed", "done")
  /\ analyses' = analyses + 1
  /\ UNCHANGED <<row, lock, api, retries, execVars, saved, lost, faults>>

-----------------------------------------------------------------------------
(* Failures *)

\* While the pool runs, exceptions end in the pool.
MayRaise(d) == pc[d] \in Running /\ (pc[d] = "crawling" => PoolDone(d))

\* An exception that the task does not retry.  _mark_failed only flushes: its
\* UPDATE is rolled back with the rest when the session closes.
Fail(d) ==
  /\ Fault
  /\ MayRaise(d)
  /\ pc' = [pc EXCEPT ![d] = "failed"]
  /\ lock' = Released(d)
  /\ UNCHANGED <<row, api, retries, execVars, saved, lost, analyses>>

\* The process that runs the task dies.  Its parent acknowledges the message.
Die(d) ==
  /\ Fault
  /\ pc[d] \in Running
  /\ pc' = [pc EXCEPT ![d] = "dead"]
  /\ lock' = Released(d)
  /\ UNCHANGED <<row, api, retries, execVars, saved, lost, analyses>>

\* An exception of autoretry_for: the message is sent again.
Retry(d, next) ==
  /\ Fault
  /\ MayRaise(d) /\ pc[next] = "unused"
  /\ retries[d] < MaxRetries
  /\ pc' = [pc EXCEPT ![d] = "retried", ![next] = "sent"]
  /\ retries' = [retries EXCEPT ![next] = retries[d] + 1]
  /\ lock' = Released(d)
  /\ UNCHANGED <<row, api, execVars, saved, lost, analyses>>

\* The worker's host dies (acks_late: the message was not acknowledged), and
\* the broker delivers the message again.
Crash(d, next) ==
  /\ Fault
  /\ pc[d] \in Running /\ pc[next] = "unused"
  /\ pc' = [pc EXCEPT ![d] = "dead", ![next] = "sent"]
  /\ retries' = [retries EXCEPT ![next] = retries[d]]
  /\ lock' = Released(d)
  /\ UNCHANGED <<row, api, execVars, saved, lost, analyses>>

\* The broker's visibility timeout passes before the task has acknowledged its
\* message: a second delivery beside the first.
Repeat(d, next) ==
  /\ MayRepeat
  /\ pc[d] \in {"sent"} \cup Running /\ pc[next] = "unused"
  /\ pc' = [pc EXCEPT ![next] = "sent"]
  /\ retries' = [retries EXCEPT ![next] = retries[d]]
  /\ UNCHANGED <<row, lock, api, execVars, saved, lost, analyses, faults>>

-----------------------------------------------------------------------------
PageStep(d) ==
  \E p \in Page :
    \/ PageFetched(d, p) \/ PageFails(d, p) \/ PageCommits(d, p) \/ PageCounted(d, p)

TaskStep(d) ==
  \/ Start(d) \/ Recreate(d) \/ RecreateConflicts(d) \/ MarkRunning(d) \/ SetTotal(d)
  \/ BeginWithSitemap(d) \/ BeginWithoutSitemap(d)
  \/ FinalCounts(d) \/ MarkCompleted(d) \/ RequestAnalysis(d)

ApiStep == ApiCreate \/ (\E d \in Delivery : ApiSend(d)) \/ ApiCommit

Failure ==
  \/ ApiAbort
  \/ \E d \in Delivery :
       \/ Fail(d) \/ Die(d)
       \/ \E p \in Page : PageCommitFails(d, p)
       \/ \E next \in Delivery : Retry(d, next) \/ Crash(d, next)

Next ==
  \/ ApiStep
  \/ \E d \in Delivery : TaskStep(d) \/ PageStep(d)
  \/ \E d, next \in Delivery : Repeat(d, next)
  \/ Failure

\* A request that was accepted is carried through, the worker runs its tasks,
\* and every fetch returns or raises.  Nothing makes a failure happen.
Fairness ==
  /\ WF_vars(ApiStep)
  /\ \A d \in Delivery :
       /\ WF_vars(TaskStep(d))
       /\ \A p \in Page :
            WF_vars(PageFetched(d, p) \/ PageFails(d, p) \/ PageCommits(d, p)
                      \/ PageCounted(d, p))

Spec == Init /\ [][Next]_vars /\ Fairness

-----------------------------------------------------------------------------
(* Properties *)

Quiet == \A d \in Delivery : pc[d] \in {"unused"} \cup Ended

\* The row the user asked for is never replaced by the one a worker recreates
\* with default limits, however the request's commit and the task race.
AcceptedConfigKept ==
  api = "committed" => row # NoRow /\ ~row.recovered

\* The progress shown never runs ahead of the pages that were really dealt
\* with, however the page workers and the deliveries interleave.
ProgressNeverAhead == row.crawled <= Cardinality(saved \cup lost)

\* A completed job is reopened only by a delivery that read it while it was
\* still queued: one that runs beside the delivery that completed it.
ReopenedOnlyByConcurrentStart ==
  [][row.status = "completed" /\ row'.status # "completed"
       => \E d \in Delivery : pc[d] = "loaded" /\ mem[d].status = "queued"]_vars

\* A completed job is followed by an analysis unless something failed.
AnalysisLostOnlyByFault ==
  Quiet /\ row.status = "completed" /\ faults = 0 => analyses > 0

BlockedOnOwnCrawl(d) == lock = d /\ pc[d] = "crawling"

\* A delivery that loaded the job ends, unless some session sits on the row
\* lock while it waits for pages that need the lock.
DeliveryEnds ==
  \A d \in Delivery :
    pc[d] = "loaded" ~> (pc[d] \in Ended \/ \E e \in Delivery : BlockedOnOwnCrawl(e))

\* "Terminates when queue is empty AND active_workers == 0, ensuring all
\* dynamically discovered URLs are crawled" (docstring of run).
CrawlTerminates ==
  \A d \in Delivery : pc[d] = "crawling" ~> pc[d] # "crawling"
=============================================================================
