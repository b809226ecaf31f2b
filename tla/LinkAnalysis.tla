----------------------------- MODULE LinkAnalysis -----------------------------
(***************************************************************************)
(* One link analysis: the crawl of a site by a pool of workers on an       *)
(* asyncio queue (SiteCrawler), the check of what was linked and not       *)
(* crawled (LinkChecker), and the report (LinkReport).  A step is the code *)
(* between two awaits: a worker takes a URL up to its fetch, and does all  *)
(* that follows the fetch at once.                                         *)
(***************************************************************************)
EXTENDS LinkReport

CONSTANTS
  Sites,         \* the sites that may be analysed
  MaxDepth,      \* LINK_ANALYSIS_MAX_DEPTH
  Concurrency,   \* LINK_ANALYSIS_CRAWL_CONCURRENCY, the number of workers
  MaxExternal,   \* LINK_ANALYSIS_MAX_EXTERNAL_CHECKS
  MaxInternal    \* LINK_ANALYSIS_MAX_SITEMAP_ONLY_CHECKS

ASSUME LinkAssumption ==
  /\ IsFiniteSet(Url)
  /\ \A s \in Sites : s \in Site /\ s.home \notin s.foreign /\ s.cap > 0
                      /\ \A u \in Url : s.final[s.final[u]] = s.final[u]
  /\ MaxDepth \in Nat \ {0} /\ Concurrency \in Nat \ {0}
  /\ MaxExternal \in Nat /\ MaxInternal \in Nat

VARIABLES
  site,          \* what there is to crawl
  queue,         \* items [url, depth] that wait for a worker
  seen,          \* URLs that have been queued
  reserved,      \* pages_reserved
  flight,        \* items being fetched
  graph,         \* what has been drawn so far
  cut,           \* history: links not followed for their depth alone
  phase,         \* "crawl", "check", "analyse" or "done"
  report         \* findings, verdict and page rows

vars == <<site, queue, seen, reserved, flight, graph, cut, phase, report>>

Item == [url : Url, depth : Int]

TypeOK ==
  /\ site \in Sites /\ queue \in Seq(Item) /\ seen \subseteq Url /\ reserved \in 0 .. site.cap
  /\ flight \subseteq Item /\ graph \in Graph /\ cut \subseteq Url
  /\ phase \in {"crawl", "check", "analyse", "done"}

NoReport == [findings |-> {}, overall |-> "none", pages |-> {}]

Items(urls, depth) == [i \in DOMAIN urls |-> [url |-> urls[i], depth |-> depth]]

\* The home page first, then the sitemap's pages, as many as the cap leaves room for.
Seeds == {u \in site.sitemap : OnSite(site, u)} \ {site.home}

Init ==
  /\ site \in Sites
  /\ \E taken \in SUBSET Seeds : \E order \in SetToSeqs(taken) :
       /\ Cardinality(taken) = (IF Cardinality(Seeds) < site.cap THEN Cardinality(Seeds) ELSE site.cap - 1)
       /\ queue = Items(<<site.home>>, 0) \o Items(order, Unknown)
       /\ seen = {site.home} \cup taken
       /\ graph = [pages |-> {}, edges |-> [u \in Url |-> {}],
                   inbound |-> [u \in Url |-> 0], depth |-> [u \in Url |-> Unknown],
                   checked |-> [u \in Url |-> "unasked"], truncated |-> taken # Seeds]
  /\ reserved = 0 /\ flight = {} /\ cut = {}
  /\ phase = "crawl" /\ report = NoReport

-----------------------------------------------------------------------------
(* The crawl *)

\* The workers are told apart by what they are fetching, by nothing else.
Free == phase = "crawl" /\ queue # <<>> /\ Cardinality(flight) < Concurrency

\* _process_url: the cap ...
TurnAway_Silently ==
  /\ Free /\ reserved >= site.cap
  /\ queue' = Tail(queue)
  /\ UNCHANGED <<site, seen, reserved, flight, graph, cut, phase, report>>

TurnAway_NotDone ==
  /\ Free /\ reserved >= site.cap
  /\ graph' = [graph EXCEPT !.truncated = TRUE]
  /\ UNCHANGED <<site, queue, seen, reserved, flight, cut, phase, report>>

TurnAway ==
  /\ Free /\ reserved >= site.cap
  /\ queue' = Tail(queue)
  /\ graph' = [graph EXCEPT !.truncated = TRUE]
  /\ UNCHANGED <<site, seen, reserved, flight, cut, phase, report>>

\* ... robots.txt ...
SkipBlocked ==
  /\ Free /\ reserved < site.cap /\ Head(queue).url \in site.blocked
  /\ queue' = Tail(queue)
  /\ UNCHANGED <<site, seen, reserved, flight, graph, cut, phase, report>>

\* ... and the place that is taken before the fetch is awaited.
Fetch_CountedLater ==
  /\ Free /\ Cardinality(graph.pages) < site.cap /\ Head(queue).url \notin site.blocked
  /\ queue' = Tail(queue) /\ flight' = flight \cup {Head(queue)}
  /\ reserved' = Cardinality(graph.pages)
  /\ UNCHANGED <<site, seen, graph, cut, phase, report>>

Fetch ==
  /\ Free /\ reserved < site.cap /\ Head(queue).url \notin site.blocked
  /\ queue' = Tail(queue) /\ flight' = flight \cup {Head(queue)}
  /\ reserved' = reserved + 1
  /\ UNCHANGED <<site, seen, graph, cut, phase, report>>

\* The class of an answer to the crawler, which follows redirects: a loop is no answer.
CrawledClass(answer) ==
  CASE answer \in {"page", "file"}     -> "ok"
    [] answer \in {"gone", "guarded"}  -> "broken"
    [] answer \in {"silent", "loop", "itself"} -> "unverified"

\* A page is drawn under the URL at which its request ended, if it was answered.
Key(s, u) == IF AnswerOf(s, u) \in {"silent", "loop", "itself"} THEN u ELSE s.final[u]

\* The links of a page that could be read, without those robots.txt forbids.
LinksOf(s, u) ==
  IF AnswerOf(s, u) = "page" THEN {l \in s.links[s.final[u]] : l.to \notin s.blocked} ELSE {}

Counted(s, links, u) == IF OnSite(s, u) THEN Cardinality({l \in links : l.to = u}) ELSE 0

\* What may be queued of them.
Followable(s, links) == {u \in Targets(links) : OnSite(s, u) /\ u \notin s.assets}

Shorter(old, new) == IF old = Unknown \/ new < old THEN new ELSE old

Depths_SameLevel(page, depth, links) ==
  LET own == [graph.depth EXCEPT ![page] = depth]
  IN  [u \in Url |->
         IF depth # Unknown /\ u \in Targets(links) \cap (graph.pages \cup {page})
         THEN Shorter(own[u], depth) ELSE own[u]]

\* A new node with the depth of the item, even if the page has been drawn before; and
\* set_min_depth for the targets that have been drawn.
Depths(page, depth, links) ==
  LET own == [graph.depth EXCEPT ![page] = depth]
  IN  [u \in Url |->
         IF depth # Unknown /\ u \in Targets(links) \cap (graph.pages \cup {page})
         THEN Shorter(own[u], depth + 1) ELSE own[u]]

\* Links lead to the next level; those of a page without a depth are followed at any.
NextLevel(depth) == IF depth = Unknown THEN Unknown ELSE depth + 1

WithinDepth(depth) == depth = Unknown \/ depth + 1 < MaxDepth

Settle_AfterFirst(item) ==
  LET page   == Key(site, item.url)
      links  == {l \in LinksOf(site, item.url) : l.to \notin seen}
      new    == Followable(site, links) \ seen
      follow == IF WithinDepth(item.depth) THEN new ELSE {}
  IN  /\ item \in flight
      /\ flight' = flight \ {item}
      /\ graph' = [graph EXCEPT
                     !.pages = @ \cup {page},
                     !.edges[page] = links,
                     !.inbound = [u \in Url |-> @[u] + Counted(site, links, u)],
                     !.depth = Depths(page, item.depth, links),
                     !.checked[page] = CrawledClass(AnswerOf(site, page))]
      /\ seen' = seen \cup follow
      /\ cut' = cut \cup (new \ follow)
      /\ \E order \in SetToSeqs(follow) : queue' = queue \o Items(order, NextLevel(item.depth))
      /\ UNCHANGED <<site, reserved, phase, report>>

\* All that follows the fetch.
Settle(item) ==
  LET page   == Key(site, item.url)
      links  == LinksOf(site, item.url)
      new    == Followable(site, links) \ seen
      follow == IF WithinDepth(item.depth) THEN new ELSE {}
  IN  /\ item \in flight
      /\ flight' = flight \ {item}
      /\ graph' = [graph EXCEPT
                     !.pages = @ \cup {page},
                     !.edges[page] = links,
                     !.inbound = [u \in Url |-> @[u] + Counted(site, links, u)],
                     !.depth = Depths(page, item.depth, links),
                     !.checked[page] = CrawledClass(AnswerOf(site, page))]
      /\ seen' = seen \cup follow
      /\ cut' = cut \cup (new \ follow)
      /\ \E order \in SetToSeqs(follow) : queue' = queue \o Items(order, NextLevel(item.depth))
      /\ UNCHANGED <<site, reserved, phase, report>>

\* queue.join() returns when every item has been settled.
Join ==
  /\ phase = "crawl" /\ queue = <<>> /\ flight = {}
  /\ phase' = "check"
  /\ UNCHANGED <<site, queue, seen, reserved, flight, graph, cut, report>>

-----------------------------------------------------------------------------
(* The check of links, and the report *)

CheckedClass_GuardedIsBroken(answer) ==
  CASE answer \in {"page", "file"}      -> "ok"
    [] answer \in {"gone", "guarded"}   -> "broken"
    [] answer = "silent"                -> "unverified"
    [] answer \in {"loop", "itself"}    -> "redirect"

\* The class of an answer to the link checker, which follows redirects itself.
CheckedClass(answer) ==
  CASE answer \in {"page", "file"}      -> "ok"
    [] answer = "gone"                  -> "broken"
    [] answer \in {"guarded", "silent"} -> "unverified"
    [] answer \in {"loop", "itself"}    -> "redirect"

Linked == UNION {Targets(graph.edges[p]) : p \in graph.pages}
ExternalLinked == {u \in Linked : ~OnSite(site, u)}
Unfetched == ({u \in Linked : OnSite(site, u)} \cup site.sitemap) \ graph.pages

\* Any n of a set that has more.
Capped(S, n) == IF Cardinality(S) <= n THEN {S} ELSE kSubset(n, S)

\* What may be asked for: external links, and URLs of the site that were not fetched.
Asked == {e \cup i : e \in Capped(ExternalLinked, MaxExternal), i \in Capped(Unfetched, MaxInternal)}

CheckLinks ==
  /\ phase = "check"
  /\ \E asked \in Asked :
       graph' = [graph EXCEPT !.checked =
                   [u \in Url |-> IF u \in asked THEN CheckedClass(AnswerOf(site, u)) ELSE @[u]]]
  /\ phase' = "analyse"
  /\ UNCHANGED <<site, queue, seen, reserved, flight, cut, report>>

\* Two loops look for the home page among the shortest URLs.
HomeChoices == IF HomeCandidates(site, graph) = {} THEN {{}} ELSE {{u} : u \in HomeCandidates(site, graph)}

Analyse ==
  /\ phase = "analyse"
  /\ \E h1, h2 \in HomeChoices : \E findings \in {Findings(site, graph, h1)} :
       report' = [findings |-> findings, overall |-> Overall(findings),
                  pages |-> {PageRow(site, graph, h2, p) : p \in graph.pages}]
  /\ phase' = "done"
  /\ UNCHANGED <<site, queue, seen, reserved, flight, graph, cut>>

-----------------------------------------------------------------------------
Work == TurnAway \/ SkipBlocked \/ Fetch \/ (\E item \in flight : Settle(item))

Done == phase = "done" /\ UNCHANGED vars

Next == Work \/ Join \/ CheckLinks \/ Analyse \/ Done

\* Workers run whenever they can; a fetch has a timeout.
Spec == Init /\ [][Next]_vars /\ WF_vars(Work) /\ WF_vars(Join \/ CheckLinks \/ Analyse)

-----------------------------------------------------------------------------
(* What there is to find, read from the site alone *)

\* The URLs of known, and those to which they lead.
Reach(s, known) == known \cup UNION {Followable(s, LinksOf(s, u)) : u \in known}

\* Where a crawl begins.
Entrances(s) == ({s.home} \cup {u \in s.sitemap : OnSite(s, u)}) \ s.blocked

\* The URLs to be requested: what the home page and the sitemap lead to, in n steps.
RequestedIn(s) ==
  LET found[n \in 0 .. Cardinality(Url)] == IF n = 0 THEN Entrances(s) ELSE Reach(s, found[n - 1])
  IN  found

Requested(s) == RequestedIn(s)[Cardinality(Url)]

\* The links to a URL of the site that requests bring, each as often as its page is requested.
Brought(s, u, requests) == UNION {{r} \X {l \in LinksOf(s, r) : l.to = u} : r \in requests}

Inbound(s, u, requests) == IF OnSite(s, u) THEN Cardinality(Brought(s, u, requests)) ELSE 0

\* The graph of a crawl that misses nothing and then checks every link.
WholeGraph(s, depth) ==
  LET requested == Requested(s)
      pages == {Key(s, u) : u \in requested}
      edges == [u \in Url |-> IF u \in pages THEN LinksOf(s, u) ELSE {}]
      linked == UNION {Targets(edges[u]) : u \in pages}
      asked == {u \in linked : ~OnSite(s, u)} \cup ((linked \cup s.sitemap) \ pages)
  IN  [pages |-> pages, edges |-> edges, depth |-> depth, truncated |-> FALSE,
       inbound |-> [u \in Url |-> Inbound(s, u, requested)],
       checked |-> [u \in Url |-> IF u \in asked THEN CheckedClass(AnswerOf(s, u))
                                  ELSE IF u \in pages THEN CrawledClass(AnswerOf(s, u)) ELSE "unasked"]]

\* The chains of C with one more link, which robots.txt lets the crawler see.
Longer(s, C) ==
  {Append(cu[1], cu[2]) : cu \in {cu \in C \X Url :
                                    /\ Last(cu[1]) \notin s.blocked /\ cu[2] \notin ToSet(cu[1])
                                    /\ cu[2] \in Targets(LinksOf(s, Last(cu[1])))}}

\* Chains of n links from the home page that follow no URL twice.
Chains(s) ==
  LET chains[n \in 0 .. Cardinality(Url)] == IF n = 0 THEN {<<s.home>>} ELSE Longer(s, chains[n - 1])
  IN  chains

\* A chain of that length leads to the URL, perhaps by a redirect, or the last link of one
\* that follows no URL twice before it.
Within(s, depth, u) ==
  \/ \E c \in Chains(s)[depth] : u \in {Last(c), Key(s, Last(c))}
  \/ depth > 0 /\ \E c \in Chains(s)[depth - 1] :
       Last(c) \notin s.blocked /\ u \in Targets(LinksOf(s, Last(c)))

-----------------------------------------------------------------------------
(* Properties *)

\* Workers that reserve, fetch and settle in any order never exceed the page limit, and what
\* has been queued waits or is fetched once.
PageCapExact ==
  /\ Cardinality(graph.pages) + Cardinality(flight) <= site.cap
  /\ \A i, j \in flight : i.url = j.url => i = j
  /\ \A i, j \in DOMAIN queue : queue[i].url = queue[j].url => i = j
  /\ \A i \in DOMAIN queue : queue[i].url \notin {it.url : it \in flight}

\* A crawl that does not call itself truncated has settled every link it has seen: each is
\* a page, forbidden, or left out for its depth.
WholeUnlessSaid ==
  phase # "crawl" /\ ~graph.truncated =>
    /\ {site.home} \cup Seeds \subseteq seen
    /\ \A u \in seen : u \in site.blocked \/ Key(site, u) \in graph.pages
    /\ \A p \in graph.pages : Followable(site, graph.edges[p]) \subseteq seen \cup cut

\* A link is left out for its depth only if some chain of links from the home page to it is
\* as long as the limit; the depth of a page is the length of some way to it, along links and
\* at most one redirect.
DepthsAreChains ==
  /\ \A u \in cut : \E d \in MaxDepth .. Cardinality(Url) : Within(site, d, u)
  /\ \A p \in graph.pages : graph.depth[p] # Unknown => Within(site, graph.depth[p], p)

\* Whatever the order in which pages are fetched, a crawl that leaves nothing out, and whose
\* checks stay within their caps, ends with the report of the site, its findings, its verdict
\* and the rows of its pages: order, concurrency and the time at which a link is seen show in
\* the click depths alone.
ReportIsTheSites ==
  LET whole == WholeGraph(site, graph.depth)
  IN  /\ phase = "done" /\ ~graph.truncated /\ cut = {}
      /\ Cardinality(ExternalLinked) <= MaxExternal /\ Cardinality(Unfetched) <= MaxInternal
      /\ HomeCandidates(site, whole) \subseteq {site.home}
      => /\ report.findings = Findings(site, whole, {site.home})
         /\ report.overall = Overall(report.findings)
         /\ report.pages = {PageRow(site, whole, {site.home}, p) : p \in whole.pages}

\* The links on a page that a finding of this type is about.
Alleged(s, type, p) ==
  LET internal == {l \in LinksOf(s, p) : OnSite(s, l.to)}
  IN  CASE type = "empty_anchor"      -> {l \in LinksOf(s, p) : l.text = "empty"}
        [] type = "generic_anchor"    -> {l \in LinksOf(s, p) : l.text = "generic"}
        [] type = "nofollow_internal" -> {l \in internal : l.nofollow}
        [] type = "insecure_link"     -> {l \in internal : s.final[p] \notin s.insecure /\ l.to \in s.insecure}
        [] type \in {"broken_internal", "broken_external", "redirect_internal", "redirect_external"} -> LinksOf(s, p)
        [] OTHER -> {}

\* A finding that looks at an answer, a page or a link is true of the site whatever was left
\* out; its sources are the fetched pages with such a link.  Links to a page are counted
\* among the fetched pages: there no page links to an orphan, and one to a page weakly
\* linked, truncated or not, and if nothing was left out that is so of the site.  Of an orphan
\* that was not fetched the finding says only that the sitemap lists it: pages may link to
\* it, and if nothing was left out it is forbidden, foreign or redirects.  Links that
\* robots.txt forbids are none.  A guarded URL is broken only if the crawler fetched it; a
\* deep page has a way that long, if perhaps a shorter one too; a dead end may be a file.
FindingIsTrue(f) ==
  LET u       == f.target
      pages   == {Key(site, r) : r \in Requested(site)}
      linking == {p \in pages : u \in Targets(LinksOf(site, p))}
      fetched == {p \in graph.pages : u \in Targets(LinksOf(site, p))}
      broken  == AnswerOf(site, u) = "gone" \/ (AnswerOf(site, u) = "guarded" /\ u \in graph.pages)
      whole   == ~graph.truncated /\ cut = {}
  IN  /\ f.sources = {p \in graph.pages : u \in Targets(Alleged(site, f.type, p))}
      /\ fetched \subseteq linking
      /\ CASE f.type = "broken_internal"   -> OnSite(site, u) /\ broken
           [] f.type = "broken_external"   -> ~OnSite(site, u) /\ broken
           [] f.type = "redirect_internal" -> OnSite(site, u) /\ AnswerOf(site, u) \in {"loop", "itself"}
           [] f.type = "redirect_external" -> ~OnSite(site, u) /\ AnswerOf(site, u) \in {"loop", "itself"}
           [] f.type = "sitemap_url_error" -> u \in site.sitemap /\ broken
           [] f.type = "orphan"            ->
                IF u \in graph.pages
                THEN OnSite(site, u) => fetched = {} /\ (whole => linking = {})
                ELSE u \in site.sitemap /\ (whole => u \in site.blocked \cup site.foreign \/ site.final[u] # u)
           [] f.type = "weakly_linked_page" -> Cardinality(fetched) = 1 /\ (whole => Cardinality(linking) = 1)
           [] f.type = "deep_page"         -> \E d \in DeepPage + 1 .. Cardinality(Url) : Within(site, d, u)
           [] f.type = "dead_end_page"     -> /\ AnswerOf(site, u) \in {"page", "file"}
                                             /\ ~\E l \in LinksOf(site, u) : OnSite(site, l.to)
           [] f.type = "excessive_outlinks" -> Cardinality(LinksOf(site, u)) > MaxOutlinks
           [] OTHER                        -> f.sources # {}

\* Every finding of the report is true in the sense of its type (FindingIsTrue).
FindingsAreTrue == \A f \in report.findings : FindingIsTrue(f)

\* Every crawl comes to its report.
AnalysisEnds == <>(phase = "done")
=============================================================================
