----------------------------- MODULE SiteCrawl -----------------------------
(***************************************************************************)
(* The worker pool on a site: what CrawlOrchestrator.run and _crawl_page   *)
(* give to CrawlScheduler is no longer any set of URLs, but what           *)
(* SiteDiscoveryService, the links of a page, url_classifier, the ignore   *)
(* patterns and robots.txt make of the answers of the site.  A site is a   *)
(* choice of answers that does not change during the crawl.                *)
(*                                                                         *)
(* The base domain follows redirects between hosts of one site only        *)
(* (orchestrator 393 to 402), which is_same_site does not tell apart; it   *)
(* is a constant.                                                          *)
(***************************************************************************)
EXTENDS CrawlScheduler, SiteRules, SitemapDiscovery

CONSTANTS
  Address,     \* the URL that each name in Url stands for
  Base,        \* base_domain: the host of the start URL
  Pattern,     \* the global rows of url_ignore_patterns
  Site,        \* the sites: records of a robots, files, links and choice
  RobotsText,  \* RobotsText[robots]: the lines of robots.txt, none if there is none
  References,  \* References[robots]: the sitemaps it names
  Files,       \* Files[files]: the sitemaps of the site
  Page,        \* Page[links]: the host, document kind and links of each page
  Chosen,      \* Chosen[choice]: the URLs the caller preselected, if it did
  Crawlable,   \* the names of the pages of this site, by inspection
  Subdomain    \* the names of the pages on its subdomains, by inspection

VARIABLE site

siteVars == <<vars, site>>

ASSUME SiteAssumption ==
  /\ Ignored = {u \in Url : check_url(Pattern, Address[u])}
  /\ Eligible = {u \in Url : classify_url(Address[u], Base) = "HTML"}

Named(urls) == {u \in Url : Address[u] \in urls}

-----------------------------------------------------------------------------
(* What the site gives to the pool *)

\* _is_robots_blocked: no policy is attached if robots.txt is missing.
Permitted ==
  [robots \in DOMAIN RobotsText |->
     LET policy == RobotsPolicy(RobotsText[robots])
     IN  {u \in Url : is_allowed(policy, PathText(Address[u]))}]

\* run(): the URLs of the caller take the place of those of the sitemaps.
Starting ==
  [s \in Site |->
     LET urls == IF Chosen[s.choice].given THEN Chosen[s.choice].urls
                 ELSE discovered_urls(Files[s.files], References[s.robots])
     IN  Permitted[s.robots] \cap Named({normalize_url_canonical(url) : url \in ToSet(urls)})]

\* normalize_url, shared by the caller and the restriction to its URLs.
normalize_url(url) == [url EXCEPT !.fragment = FALSE]

\* LinkFacts: a link is internal to the site of the page it stands on.
Internal(page) == {link \in page.links : is_same_site(link.host, page.at)}

\* _enqueue_links: the links it passes on.
Enqueued(page, choice) ==
  {url \in {strip_tracking_params(link) : link \in Internal(page)} :
     choice.only => normalize_url(url) \in {normalize_url(x) : x \in ToSet(choice.urls)}}

\* _crawl_page enqueues the links of a document that begins as HTML does.
Found ==
  [s \in Site |-> [u \in Url |->
     LET page == Page[s.links][u]
     IN  IF page.is_html
         THEN Permitted[s.robots] \cap
                Named({normalize_url_canonical(url) : url \in Enqueued(page, Chosen[s.choice])})
         ELSE {}]]

-----------------------------------------------------------------------------
SiteInit == Init /\ site \in Site

\* Whatever the pool does by itself leaves the site alone.
Alone(step) == step /\ UNCHANGED site

SitemapsRead == Alone(SubmitSitemap(Starting[site]))

LinksRead(w) == Alone(Discover(w, Found[site][item[w]]))

SiteWork(w) == Alone(Fail(w)) \/ Alone(Succeed(w)) \/ LinksRead(w)

SiteNext ==
  \/ Alone(SubmitSeed)
  \/ SitemapsRead
  \/ Alone(Notify)
  \/ \E w \in Worker : Alone(AtLockStep(w)) \/ SiteWork(w) \/ Alone(Settle(w))
  \/ Alone(Cancel)
  \/ Alone(Finished)

SiteSpec == SiteInit /\ [][SiteNext]_siteVars

\* The event loop runs every coroutine that can run.  It does not make a fetch
\* return: a worker may stay in worker_func forever.
LoopFairness ==
  /\ WF_siteVars(Alone(SubmitSeed))
  /\ WF_siteVars(SitemapsRead)
  /\ WF_siteVars(Alone(Notify))
  /\ \A w \in Worker : WF_siteVars(Alone(AtLockStep(w))) /\ WF_siteVars(Alone(Settle(w)))

\* Every fetch returns or raises: request_timeout and browser_timeout bound it.
FetchFairness == \A w \in Worker : WF_siteVars(SiteWork(w))

LoopSpec == SiteSpec /\ LoopFairness

-----------------------------------------------------------------------------
(* What a reader of robots.txt and of the sitemaps would say.  The tests of the repository *)
(* and the code disagree on two of the questions: whether a page on a subdomain is one of   *)
(* the site, and whether a group of robots.txt that names the crawler overrides that of "*" *)
(* or joins it.  The reader sides with the tests; what is disputed is named.                *)

Rules(lines, key) == {i \in DOMAIN lines : lines[i].key = key /\ lines[i].value # <<>>}

\* The agents a line speaks to: those of the last User-agent lines that no rule parts.
Agents(lines, i) ==
  {lines[k].value : k \in {k \in 1 .. i - 1 :
      /\ lines[k].key = "user-agent"
      /\ \A r \in k .. i - 1, q \in k .. i - 1 :
           r < q /\ lines[r].key \in {"allow", "disallow"} => lines[q].key # "user-agent"}}

Fitting(lines, key, agents, u) ==
  {i \in Rules(lines, key) : /\ Agents(lines, i) \cap agents # {}
                             /\ PathMatches(PathText(Address[u]), lines[i].value)}

\* No rule stands before the first User-agent line.
WellFormed(lines) ==
  \A i \in DOMAIN lines : lines[i].key \in {"allow", "disallow"} => Agents(lines, i) # {}

\* Every rule against the URL is outweighed by one for it that is as long.
MayVisit(lines, agents, u) ==
  \A i \in Fitting(lines, "disallow", agents, u) : \E j \in Fitting(lines, "allow", agents, u) :
    Len(lines[j].value) >= Len(lines[i].value)

\* Groups that name the crawler override that of "*".
Overriding(lines) ==
  LET own == KnownAs \cap {lines[i].value : i \in {j \in DOMAIN lines : lines[j].key = "user-agent"}}
  IN  IF own # {} THEN own ELSE {"*"}

Open(lines, agents) == {u \in Url : MayVisit(lines, agents, u)}

\* Pages on which the two readings of the groups differ.
Contested(lines) ==
  {u \in Url : u \in Open(lines, Overriding(lines)) <=> u \notin Open(lines, KnownAs \cup {"*"})}

\* The host of the start URL, with or without www.
OnHost(host) ==
  LET Www(h) == IF h # <<>> /\ h[1] = "www" THEN Tail(h) ELSE h
  IN  Www(host) = Www(Base)

\* The sitemaps that an index leads to within the depth limit.
Reachable(s) ==
  LET files == Files[s.files]
      Children(found) == UNION {ToSet(files[x].children) : x \in {y \in found : files[y].exists /\ files[y].is_index}}
  IN  FoldLeft(LAMBDA found, i : found \cup Children(found),
               ToSet(References[s.robots] \o CommonPaths),
               [i \in 1 .. MAX_SITEMAP_INDEX_DEPTH |-> i])

Present(s) == {x \in Reachable(s) : Files[s.files][x].exists}

\* The limits on sitemaps and their URLs do not bite.
WithinLimits(s) ==
  /\ Cardinality(Present(s)) <= MAX_CHILD_SITEMAPS
  /\ Cardinality(UNION {(DOMAIN Files[s.files][x].urls) \X {x} : x \in Present(s)}) <= MAX_PAGE_URLS

\* Two addresses of one page.
Bare(url) == <<url.scheme, url.host, url.path, url.ext, url.query \ DEFAULT_TRACKING_PARAMS>>

Mentions(urls, u) == \E url \in urls : Bare(url) = Bare(Address[u])

Standing(s, p) == {strip_tracking_params(link) : link \in Page[s.links][p].links}

\* What the pages, sitemaps and robots.txt of each site say, for the states to look up.
Guide ==
  [s \in Site |->
    [visit  |-> LET lines == RobotsText[s.robots]
                IN  IF WellFormed(lines) THEN Open(lines, Overriding(lines)) ELSE Url,
     contested |-> Contested(RobotsText[s.robots]),
     listed |-> {u \in Url : Mentions(
                   IF Chosen[s.choice].given THEN ToSet(Chosen[s.choice].urls)
                   ELSE UNION {ToSet(Files[s.files][x].urls) : x \in Present(s)}, u)},
     linked |-> [p \in Url |-> {u \in Url : Mentions(Standing(s, p), u)}],
     whole  |-> WellFormed(RobotsText[s.robots]) /\ (Chosen[s.choice].given \/ WithinLimits(s))]]

-----------------------------------------------------------------------------
(* Properties *)

\* Where a URL was found: for the start, or on a page that a worker has had in hand, one
\* step nearer to the start.
ComesFrom(u) ==
  \/ depth[u] = 0 /\ u \in Starting[site]
  \/ \E p \in visited : /\ fate[p] \in {"fetching", "crawled", "failed"}
                        /\ u \in Found[site][p]
                        /\ depth[u] = depth[p] + 1 /\ depth[u] <= MaxDepth

\* The crawl follows the site and nothing else, however the workers interleave: a URL that
\* is queued after the seed passed every filter and comes from a page at hand at its depth;
\* and unless the crawl is cancelled, no page that the start or a crawled page leads to
\* within the depth limit is left out.
CrawlFollowsSite ==
  /\ \A u \in visited \ {Seed} : u \in Eligible \ Ignored /\ ComesFrom(u)
  /\ ~cancelled =>
       /\ phase = "run" => Followable(Starting[site]) \subseteq visited
       /\ \A p \in Url : fate[p] = "crawled" /\ depth[p] < MaxDepth
                           => Followable(Found[site][p]) \subseteq visited

\* The sites of which the filters make what a reader would.
ReadRight ==
  {s \in Site :
     LET guide == Guide[s]
         open     == Crawlable \cap guide.visit
         disputed == Subdomain \cup (Crawlable \cap guide.contested)
         start == Followable(Starting[s])
         Links(p)     == Followable(Found[s][p])
         Known        == {Seed} \cup start \cup UNION {Links(p) : p \in Url}
         Covers(S, T) == \A u \in T : \E v \in S : Bare(Address[v]) = Bare(Address[u])
         Read(p)      == Page[s.links][p].is_html /\ OnHost(Page[s.links][p].at)
     IN  /\ start \subseteq (open \cup disputed) \cap guide.listed
         /\ guide.whole => Covers(start, (open \ disputed) \cap guide.listed)
         /\ \A p \in Url :
              /\ Links(p) \subseteq (open \cup disputed) \cap guide.linked[p]
              /\ IF Chosen[s.choice].only THEN Covers(start \cup {Seed}, Links(p))
                 ELSE Read(p) /\ guide.whole => Covers(Links(p), (open \ disputed) \cap guide.linked[p])
         /\ \A u, v \in Known : Bare(Address[u]) = Bare(Address[v]) => u = v}

\* What the filters make of a site is what a reader of it would say: only pages of the site
\* that robots.txt leaves open and that are listed or linked, all of them if the limits on
\* sitemaps do not bite, no page twice, and on a restricted crawl only what was chosen.
\* Nothing is claimed of which disputed pages are taken, except that no other page is: those
\* of subdomains, and those that a group of "*" closes or opens beside the crawler's own.
SiteIsRead == site \in ReadRight

\* run() returns if every fetch does: no wake-up is lost and no worker waits for
\* another for ever.
Terminates == FetchFairness => <>AllExited
=============================================================================
