--------------------------- MODULE CrawlScheduler ---------------------------
(***************************************************************************)
(* The worker pool of the site crawler, app/modules/crawler/services/      *)
(* crawl_scheduler.py, together with the parts of its worker function      *)
(* (CrawlOrchestrator._crawl_page) that touch the pool.                    *)
(*                                                                         *)
(* All workers are coroutines of one event loop: a step is the code        *)
(* between two awaits.  The body of "async with self._condition" awaits    *)
(* only Condition.wait, so it is one step taken by a worker that is        *)
(* "ready" to own the lock.  URLs are canonical URLs: what                 *)
(* normalize_url_canonical maps to one string is one element of Url.       *)
(* Diagnostics counters and the list of skipped URLs are written and       *)
(* never read by the pool; they are left out.                              *)
(***************************************************************************)
EXTENDS Integers, Sequences, FiniteSets, Functions

CONSTANTS
  Url,        \* the canonical URLs the crawl can meet
  Worker,     \* the tasks created by run(), config.http_concurrency of them
  Seed,       \* the URL given to submit_seed
  Ignored,    \* URLs that match a global ignore pattern
  Eligible,   \* URLs that classify_url finds to be HTML of this site
  MaxPages,   \* config.max_pages
  MaxDepth,   \* config.max_depth
  MayCancel,  \* whether the owner of the scheduler may call cancel()
  NoUrl       \* the item of a worker that holds none

\* CrawlConfig.validate rejects a configuration outside these ranges.
ASSUME ConfigAssumption ==
  /\ IsFiniteSet(Url) /\ NoUrl \notin Url
  /\ Seed \in Url /\ Ignored \subseteq Url /\ Eligible \subseteq Url
  /\ IsFiniteSet(Worker) /\ Worker # {}
  /\ MaxPages \in Nat \ {0} /\ MaxDepth \in Nat
  /\ MayCancel \in BOOLEAN

VARIABLES
  phase,       \* how far the orchestrator's run() is: "seed", "sitemap", "run"
  queue,       \* self.queue, a FIFO asyncio.Queue
  visited,     \* self.dedup
  depth,       \* depth of the DiscoveredURL queued for a URL, -1 before
  active,      \* self.active_workers
  discovered,  \* self.pages_discovered_count
  crawled,     \* self.pages_crawled_count
  failed,      \* self.pages_failed_count
  cancelled,   \* self.cancelled
  notifies,    \* _notify_condition tasks created and not yet run
  pc,          \* where each worker is in _worker_loop
  item,        \* the URL each worker holds
  fate         \* history: what has become of each URL

poolVars    == <<queue, visited, depth, active, cancelled, notifies>>
counterVars == <<discovered, crawled, failed>>
vars == <<phase, poolVars, counterVars, pc, item, fate>>

Location == {"ready",       \* about to own the condition's lock
             "waiting",     \* in condition.wait()
             "fetching",    \* in worker_func, before _enqueue_links
             "persisting",  \* in worker_func, after _enqueue_links
             "settling",    \* counted, waiting for the lock of the finally
             "exited"}

\* A worker that active_workers counts, and one whose page is not yet counted.
Holding(w)   == pc[w] \in {"fetching", "persisting", "settling"}
Uncounted(w) == pc[w] \in {"fetching", "persisting"}
Busy     == {w \in Worker : Holding(w)}
InFlight == {w \in Worker : Uncounted(w)}

F == INSTANCE CrawlFrontier WITH closed <-
       (\E w \in Worker : pc[w] = "exited") /\ queue = <<>> /\ active = 0

TypeOK ==
  /\ phase \in {"seed", "sitemap", "run"}
  /\ queue \in Seq(Url)
  /\ visited \subseteq Url
  /\ depth \in [Url -> -1 .. MaxDepth]
  /\ active \in Int
  /\ discovered \in Nat /\ crawled \in Nat /\ failed \in Nat
  /\ cancelled \in BOOLEAN
  /\ notifies \in Nat
  /\ pc \in [Worker -> Location]
  /\ item \in [Worker -> Url \cup {NoUrl}]
  /\ \A w \in Worker : item[w] \in Url <=> Holding(w)
  /\ fate \in [Url -> F!Fate]

Init ==
  /\ phase = "seed"
  /\ queue = <<>> /\ visited = {} /\ depth = [u \in Url |-> -1]
  /\ active = 0 /\ cancelled = FALSE /\ notifies = 0
  /\ discovered = 0 /\ crawled = 0 /\ failed = 0
  /\ pc = [w \in Worker |-> "ready"]
  /\ item = [w \in Worker |-> NoUrl]
  /\ fate = [u \in Url |-> "unseen"]

-----------------------------------------------------------------------------
(* Submission *)

\* A link that passes the ignore patterns and the classification; the URLs that robots.txt
\* blocks are not among links (see SiteCrawl).
Followable(links) == {u \in links : u \notin Ignored /\ u \in Eligible}

Acceptable_NoDedup(links, d) ==
  IF cancelled \/ d > MaxDepth THEN {} ELSE Followable(links)

Acceptable_Shallow(links, d) ==
  IF cancelled \/ d >= MaxDepth THEN {} ELSE Followable(links) \ visited

\* The URLs of links that submit_discovered_url accepts at depth d.
Acceptable(links, d) ==
  IF cancelled \/ d > MaxDepth THEN {} ELSE Followable(links) \ visited

\* The notifications that accepting a batch schedules, one for each URL.
Scheduled(batch) == Cardinality(batch)

\* A batch of accepted URLs is marked visited and queued.  The order in which
\* a page names its links is abstracted to any order.
Enqueue(batch, d) ==
  /\ visited' = visited \cup batch
  /\ depth' = [u \in Url |-> IF u \in batch THEN d ELSE depth[u]]
  /\ discovered' = discovered + Cardinality(batch)
  /\ fate' = [u \in Url |-> IF u \in batch THEN "queued" ELSE fate[u]]
  /\ \E order \in Bijection(1 .. Cardinality(batch), batch) :
       queue' = queue \o order

\* run(): scheduler.submit_seed(start_url).  The seed is neither classified nor
\* checked against robots.txt, and no notification is scheduled.
SubmitSeed ==
  /\ phase = "seed" /\ phase' = "sitemap"
  /\ Enqueue({Seed} \ (Ignored \cup visited), 0)
  /\ UNCHANGED <<active, cancelled, notifies, crawled, failed, pc, item>>

\* run(): scheduler.submit_sitemap_urls(...), possibly with no URL at all; each
\* accepted URL schedules one notification.
SubmitSitemap(urls) ==
  /\ phase = "sitemap" /\ phase' = "run"
  /\ LET batch == Acceptable(urls, 0)
     IN  /\ Enqueue(batch, 0)
         /\ notifies' = notifies + Scheduled(batch)
  /\ UNCHANGED <<active, cancelled, crawled, failed, pc, item>>

-----------------------------------------------------------------------------
(* The condition variable *)

NotifyAll(p) ==
  [w \in Worker |-> IF p[w] = "waiting" THEN "ready" ELSE p[w]]

\* A task created by submit_discovered_url runs.
Notify ==
  /\ notifies > 0
  /\ notifies' = notifies - 1
  /\ pc' = NotifyAll(pc)
  /\ UNCHANGED <<phase, queue, visited, depth, active, cancelled, counterVars,
                 item, fate>>

-----------------------------------------------------------------------------
(* The worker loop: what a worker does when it owns the lock *)

AtLock(w) == phase = "run" /\ pc[w] = "ready"

Exhausted == queue = <<>> /\ active = 0

BudgetLeft == crawled < MaxPages

ExitExhausted_GoesOn(w) ==
  /\ AtLock(w) /\ ~cancelled /\ Exhausted
  /\ pc' = NotifyAll(pc)
  /\ UNCHANGED <<phase, poolVars, counterVars, item, fate>>

\* The queue is empty and no worker can refill it: wake the others and leave.
ExitExhausted(w) ==
  /\ AtLock(w) /\ ~cancelled /\ Exhausted
  /\ pc' = NotifyAll([pc EXCEPT ![w] = "exited"])
  /\ UNCHANGED <<phase, poolVars, counterVars, item, fate>>

ExitCancelled(w) ==
  /\ AtLock(w) /\ cancelled
  /\ pc' = [pc EXCEPT ![w] = "exited"]
  /\ UNCHANGED <<phase, poolVars, counterVars, item, fate>>

Wait(w) ==
  /\ AtLock(w) /\ ~cancelled /\ queue = <<>> /\ ~Exhausted
  /\ pc' = [pc EXCEPT ![w] = "waiting"]
  /\ UNCHANGED <<phase, poolVars, counterVars, item, fate>>

\* The page budget is spent: the item is taken off the queue and forgotten.
Drop(w) ==
  /\ AtLock(w) /\ ~cancelled /\ queue # <<>> /\ ~BudgetLeft
  /\ queue' = Tail(queue)
  /\ fate' = [fate EXCEPT ![Head(queue)] = "dropped"]
  /\ UNCHANGED <<phase, visited, depth, active, cancelled, notifies,
                 counterVars, pc, item>>

Take(w) ==
  /\ AtLock(w) /\ ~cancelled /\ queue # <<>> /\ BudgetLeft
  /\ queue' = Tail(queue)
  /\ active' = active + 1
  /\ pc' = [pc EXCEPT ![w] = "fetching"]
  /\ item' = [item EXCEPT ![w] = Head(queue)]
  /\ fate' = [fate EXCEPT ![Head(queue)] = "fetching"]
  /\ UNCHANGED <<phase, visited, depth, cancelled, notifies, counterVars>>

-----------------------------------------------------------------------------
(* The worker function and what follows it *)

\* _crawl_page has fetched the page and calls _enqueue_links, a loop with no
\* await; found are the internal links of the page, none if it is not HTML.
Discover(w, found) ==
  /\ pc[w] = "fetching"
  /\ pc' = [pc EXCEPT ![w] = "persisting"]
  /\ LET d     == depth[item[w]] + 1
         batch == Acceptable(found, d)
     IN  /\ Enqueue(batch, d)
         /\ notifies' = notifies + Scheduled(batch)
  /\ UNCHANGED <<phase, active, cancelled, crawled, failed, item>>

\* _crawl_page returned anything but False.
Succeed(w) ==
  /\ pc[w] = "persisting"
  /\ crawled' = crawled + 1
  /\ pc' = [pc EXCEPT ![w] = "settling"]
  /\ fate' = [fate EXCEPT ![item[w]] = "crawled"]
  /\ UNCHANGED <<phase, poolVars, discovered, failed, item>>

\* _crawl_page returned False (the fetch failed) or raised, before or after it
\* queued the links of the page.
Fail(w) ==
  /\ pc[w] \in {"fetching", "persisting"}
  /\ failed' = failed + 1
  /\ pc' = [pc EXCEPT ![w] = "settling"]
  /\ fate' = [fate EXCEPT ![item[w]] = "failed"]
  /\ UNCHANGED <<phase, poolVars, discovered, crawled, item>>

\* The finally block, once the worker owns the lock.
Settle(w) ==
  /\ pc[w] = "settling"
  /\ active' = active - 1
  /\ pc' = NotifyAll([pc EXCEPT ![w] = "ready"])
  /\ item' = [item EXCEPT ![w] = NoUrl]
  /\ UNCHANGED <<phase, queue, visited, depth, cancelled, notifies,
                 counterVars, fate>>

\* cancel() sets the flag and wakes nobody.
Cancel ==
  /\ MayCancel /\ ~cancelled
  /\ cancelled' = TRUE
  /\ UNCHANGED <<phase, queue, visited, depth, active, notifies, counterVars,
                 pc, item, fate>>

-----------------------------------------------------------------------------
AllExited == \A w \in Worker : pc[w] = "exited"

\* run() has returned; the process goes on to finalise the job.
Finished == AllExited /\ notifies = 0 /\ UNCHANGED vars

AtLockStep(w) ==
  ExitExhausted(w) \/ ExitCancelled(w) \/ Wait(w) \/ Drop(w) \/ Take(w)

WorkStep(w) ==
  (\E found \in SUBSET Url : Discover(w, found)) \/ Succeed(w) \/ Fail(w)

Next ==
  \/ SubmitSeed
  \/ \E urls \in SUBSET Url : SubmitSitemap(urls)
  \/ Notify
  \/ \E w \in Worker : AtLockStep(w) \/ WorkStep(w) \/ Settle(w)
  \/ Cancel
  \/ Finished

Spec == Init /\ [][Next]_vars

-----------------------------------------------------------------------------
(* Properties *)

Queued == Range(queue)

\* No URL is lost or worked on twice: a URL has been discovered iff it is in
\* exactly one of the queue, a worker's hands, or a final fate.
EachUrlInOnePlace ==
  /\ visited = {u \in Url : fate[u] # "unseen"}
  /\ Queued = F!With("queued") /\ IsInjective(queue)
  /\ F!With("fetching") = {item[w] : w \in InFlight}
  /\ \A v, w \in InFlight : item[v] = item[w] => v = w

\* The counters the orchestrator stores in the CrawlJob row agree with what
\* really happened to the URLs, and active_workers with the workers.
CountersReconcile ==
  /\ discovered = Cardinality(visited)
  /\ crawled = Cardinality(F!With("crawled"))
  /\ failed = Cardinality(F!With("failed"))
  /\ active = Cardinality(Busy)

\* max_pages is checked before a fetch and counted after it, so the pool can
\* exceed it, by at most one page per worker beyond the first.
OvershootBound ==
  crawled + Cardinality(InFlight) <= MaxPages + Cardinality(Worker) - 1

\* "Terminates ONLY when queue is empty AND active_workers == 0" (module
\* docstring): no worker leaves while another can still find work.
ExitOnlyWhenExhausted ==
  (\E w \in Worker : pc[w] = "exited") /\ ~cancelled
    => queue = <<>> /\ InFlight = {}

\* A discovered URL is given up only because the page budget was spent.
DroppedOnlyAtCap == F!With("dropped") # {} => crawled >= MaxPages

\* A crawl that is not cancelled is a crawl of the abstract frontier.
ImplementsFrontier == F!Spec
=============================================================================
