--------------------------- MODULE RedirectDiscovery ---------------------------
(***************************************************************************)
(* discover_site_urls of redirect_urls: the pages of a site are found      *)
(* breadth first from its home page and its sitemap, up to a budget and a  *)
(* depth.  RedirectAudit runs it batch by batch.                           *)
(***************************************************************************)
EXTENDS RedirectAnswers

CONSTANTS
  MaxUrls,        \* max_urls of the request
  MaxCrawlDepth   \* max_depth of the request

ASSUME DiscoveryAssumption == MaxUrls \in Nat \ {0} /\ MaxCrawlDepth \in Nat

VARIABLE crawl    \* the discovery of the task's execution

\* urls: pages in the order of their fetch; queue: items that wait; queued: all that ever did.
NoCrawl == [urls |-> <<>>, depth |-> [u \in Url |-> 0], queue |-> <<>>, queued |-> {},
            links |-> {}, listed |-> <<>>, complete |-> TRUE]

\* The pages that the sitemap names.
Listed == IF site.map = "served" THEN Picked(site.sitemap, OnSite(site), MaxUrls) ELSE <<>>

Item(u, depth) == [url |-> u, depth |-> depth]

Items(urls, depth) == [i \in 1 .. Len(urls) |-> Item(urls[i], depth)]

\* Those of some URLs that are queued: each once, and max_urls in all, those included that
\* robots.txt forbids.
Fresh(urls, queued) == Picked(urls, Url \ queued, MaxUrls - Cardinality(queued))

Enqueued_Front(c, urls, depth) ==
  [c EXCEPT !.queue = Items(Fresh(urls, c.queued), depth) \o @, !.queued = @ \cup ToSet(Fresh(urls, c.queued))]

Enqueued(c, urls, depth) ==
  [c EXCEPT !.queue = @ \o Items(Fresh(urls, c.queued), depth), !.queued = @ \cup ToSet(Fresh(urls, c.queued))]

\* The home page, and the sitemap's pages one step from it; nothing if robots.txt is unreachable.
Seeded ==
  LET home == [NoCrawl EXCEPT !.queue = <<Item(site.home, 0)>>, !.queued = {site.home},
                              !.listed = Listed, !.complete = site.map # "broken"]
  IN  IF site.robots = "down" THEN [NoCrawl EXCEPT !.complete = FALSE]
      ELSE Enqueued(home, IF MaxCrawlDepth = 0 THEN <<>> ELSE Listed, 1)

Allowed == {item \in ToSet(crawl.queue) : item.url \notin site.disallowed}

\* The queue without the pages that robots.txt forbids: they are passed over.
Pending == Picked(crawl.queue, Allowed, Len(crawl.queue))

\* The first item of the queue is fetched and worked off: its links are followed if they are
\* not too deep.
WorkedOff(c) ==
  LET item  == Head(c.queue)
      links == PageLinks(item.url)
      found == [c EXCEPT !.urls     = Append(@, item.url),
                         !.depth    = [@ EXCEPT ![item.url] = item.depth],
                         !.complete = @ /\ site.answer[item.url] # "silent",
                         !.links    = @ \cup {[from |-> item.url, to |-> v] : v \in ToSet(links)},
                         !.queue    = Tail(@)]
  IN  Enqueued(found, IF item.depth < MaxCrawlDepth THEN links ELSE <<>>, item.depth + 1)

\* The pages of a batch are fetched at once and worked off in the order of the queue.
BatchWorkedOff(n) ==
  LET worked[k \in 0 .. n] ==
        IF k = 0 THEN [crawl EXCEPT !.queue = Pending] ELSE WorkedOff(worked[k - 1])
  IN  worked[n]

-----------------------------------------------------------------------------
(* What there is to find, read from the site alone *)

\* The URLs within n links of the home page; those of the sitemap are one step from it.
Within ==
  LET within[n \in 0 .. MaxCrawlDepth] ==
        IF n = 0 THEN {site.home}
        ELSE within[n - 1] \cup ToSet(Listed)
               \cup UNION {ToSet(PageLinks(u)) : u \in within[n - 1] \ site.disallowed}
  IN  within

-----------------------------------------------------------------------------
(* Property *)

\* The depth of a page is its shortest distance from the home page, however the budget cut the
\* crawl; and a crawl that the budget did not cut has fetched every page that is near enough.
DiscoveryIsWhole ==
  /\ \A u \in ToSet(crawl.urls) :
       /\ crawl.depth[u] <= MaxCrawlDepth
       /\ u \in Within[crawl.depth[u]] \ site.disallowed
       /\ crawl.depth[u] > 0 => u \notin Within[crawl.depth[u] - 1]
  /\ pc = "check" /\ site.robots = "served" /\ Cardinality(crawl.queued) < MaxUrls
       => ToSet(crawl.urls) = Within[MaxCrawlDepth] \ site.disallowed
=============================================================================
