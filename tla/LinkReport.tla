------------------------------ MODULE LinkReport ------------------------------
(***************************************************************************)
(* The analyzer of link_analysis: what it makes of the graph that a crawl  *)
(* has drawn.  A graph is a record of                                      *)
(*   pages      the URLs that were fetched as pages                        *)
(*   edges      the links found on each, a set of [to, text, nofollow]     *)
(*   inbound    how often a link to each internal URL was found            *)
(*   depth      the click depth of each, or Unknown                        *)
(*   checked    the class of the answer of each URL that was asked         *)
(*   truncated  whether the crawl says that it left pages out              *)
(* and a site says what its URLs are and what they answer.                 *)
(***************************************************************************)
EXTENDS Integers, FiniteSets, SequencesExt

CONSTANTS
  Url,
  DeepPage,      \* LINK_ANALYSIS_DEEP_PAGE_THRESHOLD
  MaxOutlinks    \* LINK_ANALYSIS_MAX_OUTLINKS

ASSUME ThresholdAssumption == DeepPage \in Nat /\ MaxOutlinks \in Nat

Unknown == -1    \* a depth that no chain of links from the home page has given

\* A loop has two hops at least; itself is a URL that redirects to itself.
Answer == {"page", "file", "gone", "guarded", "silent", "loop", "itself"}
Class  == {"ok", "redirect", "broken", "unverified", "unasked"}
Link   == [to : Url, text : {"plain", "empty", "generic"}, nofollow : BOOLEAN]

\* What a site is: final is where a request for a URL ends after its redirects, and cap
\* is the number of pages that the analysis was asked for (max_pages).
Site == [home : Url, cap : Nat, links : [Url -> SUBSET Link], answer : [Url -> Answer],
         final : [Url -> Url], length : [Url -> Nat], sitemap : SUBSET Url,
         blocked : SUBSET Url, foreign : SUBSET Url, assets : SUBSET Url, insecure : SUBSET Url]

Graph == [pages : SUBSET Url, edges : [Url -> SUBSET Link], inbound : [Url -> Nat], depth : [Url -> Int],
          checked : [Url -> Class], truncated : BOOLEAN]

AnswerOf(site, u) == site.answer[site.final[u]]
OnSite(site, u)   == u \notin site.foreign
Targets(links)    == {l.to : l \in links}

-----------------------------------------------------------------------------
(* Reading the graph *)

Sources(g, u) == {p \in g.pages : u \in Targets(g.edges[p])}

InternalLinks(site, g, p) == {l \in g.edges[p] : OnSite(site, l.to)}

Ok(site, g, p) == p \in g.pages /\ g.checked[p] = "ok"

\* The shortest URLs: one of them is taken for the home page, whichever the loop meets first.
HomeCandidates(site, g) ==
  {u \in g.pages : OnSite(site, u) /\ \A v \in g.pages : OnSite(site, v) => site.length[u] <= site.length[v]}

Finding(type, severity, u, sources) ==
  [type |-> type, severity |-> severity, target |-> u, sources |-> sources]

Standard == {"broken_internal", "broken_external", "redirect_internal", "redirect_external",
             "orphan", "sitemap_url_error"}

-----------------------------------------------------------------------------
(* Standard findings *)

Broken(g) == {u \in Url : g.checked[u] = "broken"}

BrokenInternal(site, g) ==
  {Finding("broken_internal", "high", u, Sources(g, u)) : u \in {v \in Broken(g) : OnSite(site, v)}}

BrokenExternal(site, g) ==
  {Finding("broken_external", "medium", u, Sources(g, u)) : u \in {v \in Broken(g) : ~OnSite(site, v)}}

\* Only a request whose redirects led nowhere has the class redirect; one hop weighs less.
OneHop(site, u) == AnswerOf(site, u) = "itself" /\ site.final[u] = u

Redirects(site, g) ==
  {Finding(IF OnSite(site, u) THEN "redirect_internal" ELSE "redirect_external",
           IF OneHop(site, u) THEN "low" ELSE "medium", u, Sources(g, u)) :
     u \in {v \in Url : g.checked[v] = "redirect"}}

\* Sitemap URLs that are no pages, and pages to which no page links.
OrphanUrls(site, g, home) ==
  (site.sitemap \ g.pages) \cup {u \in g.pages : u \notin home /\ g.inbound[u] = 0}

Orphans(site, g, home) ==
  {Finding("orphan", IF g.truncated THEN "low" ELSE "medium", u, {}) : u \in OrphanUrls(site, g, home)}

SitemapErrors(site, g) ==
  {Finding("sitemap_url_error", "medium", u, {}) : u \in site.sitemap \cap Broken(g)}

-----------------------------------------------------------------------------
(* Optimization findings *)

DeepPages(site, g) ==
  {Finding("deep_page", "low", u, {}) : u \in {p \in g.pages : Ok(site, g, p) /\ g.depth[p] > DeepPage}}

DeadEnds(site, g) ==
  {Finding("dead_end_page", "low", u, {}) :
     u \in {p \in g.pages : Ok(site, g, p) /\ InternalLinks(site, g, p) = {}}}

\* Not asked for if the crawl was truncated.
WeaklyLinked(site, g) ==
  {Finding("weakly_linked_page", "low", u, {}) :
     u \in {p \in g.pages : ~g.truncated /\ g.inbound[p] = 1}}

\* Grouped by target: one finding for the pages p with a link that Bad picks.
Grouped(type, severity, g, links) ==
  {Finding(type, severity, u, {p \in g.pages : u \in Targets(links[p])}) :
     u \in UNION {Targets(links[p]) : p \in g.pages}}

AnchorIssues(site, g) ==
  Grouped("empty_anchor", "low", g, [p \in Url |-> {l \in g.edges[p] : l.text = "empty"}])
    \cup Grouped("generic_anchor", "low", g, [p \in Url |-> {l \in g.edges[p] : l.text = "generic"}])

Nofollow(site, g) ==
  Grouped("nofollow_internal", "low", g,
          [p \in Url |-> {l \in InternalLinks(site, g, p) : l.nofollow}])

InsecureLinks(site, g) ==
  Grouped("insecure_link", "medium", g,
          [p \in Url |-> IF site.final[p] \in site.insecure THEN {}
                         ELSE {l \in InternalLinks(site, g, p) : l.to \in site.insecure}])

ExcessiveOutlinks(site, g) ==
  {Finding("excessive_outlinks", "low", u, {}) : u \in {p \in g.pages : Cardinality(g.edges[p]) > MaxOutlinks}}

-----------------------------------------------------------------------------
(* The report: the findings, the verdict, and a row for each page *)

Findings(site, g, home) ==
  BrokenInternal(site, g) \cup BrokenExternal(site, g) \cup Redirects(site, g)
    \cup Orphans(site, g, home) \cup SitemapErrors(site, g)
    \cup DeepPages(site, g) \cup DeadEnds(site, g) \cup WeaklyLinked(site, g)
    \cup AnchorIssues(site, g) \cup Nofollow(site, g) \cup InsecureLinks(site, g)
    \cup ExcessiveOutlinks(site, g)

\* compute_overall_status: by the worst of the standard findings.
Overall(findings) ==
  LET severities == {f.severity : f \in {x \in findings : x.type \in Standard}}
  IN  IF "high" \in severities THEN "fail" ELSE IF severities # {} THEN "warning" ELSE "pass"

\* compute_page_analysis looks for the home page again, by a loop of its own.
PageRow(site, g, home, p) ==
  [url |-> p, orphan |-> p \notin home /\ g.inbound[p] = 0,
   deadEnd |-> Ok(site, g, p) /\ InternalLinks(site, g, p) = {},
   brokenInternal |-> {l \in g.edges[p] : OnSite(site, l.to) /\ g.checked[l.to] = "broken"} # {},
   brokenExternal |-> {l \in g.edges[p] : ~OnSite(site, l.to) /\ g.checked[l.to] = "broken"} # {}]
=============================================================================
