---------------------------- MODULE CrawlFrontier ----------------------------
(***************************************************************************)
(* What a crawl promises about the URLs of one site, without workers,     *)
(* queue, condition variable or counters: every URL has one fate, a fate   *)
(* only moves forward, a URL is given up only once the page budget is      *)
(* spent, new URLs come to light only at the start or on a page that is    *)
(* being fetched, and the crawl is declared closed only when nothing is    *)
(* left to do.  CrawlScheduler is shown to implement this module.          *)
(***************************************************************************)
EXTENDS Naturals, FiniteSets

CONSTANTS Url,        \* the canonical URLs of the site
          MaxPages    \* CrawlConfig.max_pages

VARIABLES fate,       \* fate[u]: what has become of URL u
          closed      \* the crawl has been declared complete

frontierVars == <<fate, closed>>

Fate == {"unseen", "queued", "fetching", "crawled", "failed", "dropped"}

With(f) == {u \in Url : fate[u] = f}

Init ==
  /\ fate = [u \in Url |-> "unseen"]
  /\ closed = FALSE

\* The URLs that a step queues.
Discovered == {u \in With("unseen") : fate'[u] = "queued"}

\* A batch of URLs is discovered: by the caller before anything was fetched,
\* or on a page that is being fetched.
Discover ==
  /\ ~closed
  /\ Discovered # {}
  /\ \/ With("fetching") # {}
     \/ \A u \in Url : fate[u] \in {"unseen", "queued"}
  /\ fate' = [u \in Url |-> IF u \in Discovered THEN "queued" ELSE fate[u]]
  /\ UNCHANGED closed

Move(u, from, to) ==
  /\ fate[u] = from
  /\ fate' = [fate EXCEPT ![u] = to]
  /\ UNCHANGED closed

Fetch(u) == ~closed /\ Move(u, "queued", "fetching")

Settle(u) == Move(u, "fetching", "crawled") \/ Move(u, "fetching", "failed")

\* A queued URL is given up, only once the page budget is spent.
GiveUp(u) ==
  /\ ~closed
  /\ Cardinality(With("crawled")) >= MaxPages
  /\ Move(u, "queued", "dropped")

Close ==
  /\ With("queued") \cup With("fetching") = {}
  /\ closed' = TRUE
  /\ UNCHANGED fate

Next ==
  \/ Discover
  \/ \E u \in Url : Fetch(u) \/ Settle(u) \/ GiveUp(u)
  \/ Close

Spec == Init /\ [][Next]_frontierVars
=============================================================================
