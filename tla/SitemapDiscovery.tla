-------------------------- MODULE SitemapDiscovery --------------------------
(***************************************************************************)
(* SiteDiscoveryService: which sitemaps a crawl reads and which URLs it    *)
(* takes from them.  A sitemap is a record: whether it is there and can be *)
(* parsed, whether its root is a sitemapindex, its URLs and its children.  *)
(* The files of one index are fetched side by side and handled in their    *)
(* order, so the order of the answers does not matter.                     *)
(***************************************************************************)
EXTENDS Integers, Sequences, FiniteSets, SequencesExt

CONSTANTS
  Sitemap,                  \* the addresses of sitemaps
  CommonPaths,              \* the usual places, in the order of common_paths
  MAX_SITEMAP_INDEX_DEPTH,
  MAX_CHILD_SITEMAPS,
  MAX_PAGE_URLS             \* max_urls_per_sitemap and max_total_page_urls, which a crawl sets alike

Upto(s, n) == SubSeq(s, 1, IF n < Len(s) THEN (IF n < 0 THEN 0 ELSE n) ELSE Len(s))

\* The candidates: what robots.txt names, and the usual places that it does not name.
Candidates(references) ==
  FoldLeft(LAMBDA found, x : IF Contains(found, x) THEN found ELSE Append(found, x),
           <<>>, references \o CommonPaths)

\* _expand_sitemap_index, first loop: the children to fetch.  All are marked seen, though
\* only as many are fetched as there is room for.
NewChildren(state, children, depth) ==
  IF depth > MAX_SITEMAP_INDEX_DEPTH \/ Len(state.sitemaps) >= MAX_CHILD_SITEMAPS THEN <<>>
  ELSE FoldLeft(LAMBDA found, x : IF x \in state.seen \/ Contains(found, x) THEN found ELSE Append(found, x),
                <<>>, children)

\* The next sitemap is handled; the children of an index come before what was left.
Handle(files, state) ==
  LET next == Head(state.todo)  file == files[next.at]  rest == Tail(state.todo)
      kept == IF file.exists THEN [state EXCEPT !.sitemaps = Append(@, next.at)] ELSE state
      children == IF file.exists /\ file.is_index THEN NewChildren(kept, file.children, next.depth + 1) ELSE <<>>
      room     == Upto(children, MAX_CHILD_SITEMAPS - Len(kept.sitemaps))
  IN  [kept EXCEPT !.seen = @ \cup ToSet(children),
                   !.todo = [i \in DOMAIN room |-> [at |-> room[i], depth |-> next.depth + 1]] \o rest]

\* _discover_sitemaps: no sitemap is handled twice, so that this ends.
discover_sitemaps(files, references) ==
  LET first == Candidates(references)
      start == [seen |-> ToSet(first), sitemaps |-> <<>>,
                todo |-> [i \in DOMAIN first |-> [at |-> first[i], depth |-> 0]]]
  IN  FoldLeft(LAMBDA state, turn : IF state.todo = <<>> THEN state ELSE Handle(files, state),
               start, [turn \in 1 .. Cardinality(Sitemap) |-> turn]).sitemaps

\* discover: the URLs of all sitemaps, as far as the limits allow.
discovered_urls(files, references) ==
  LET sitemaps == discover_sitemaps(files, references)
  IN  Upto(FlattenSeq([i \in DOMAIN sitemaps |-> Upto(files[sitemaps[i]].urls, MAX_PAGE_URLS)]), MAX_PAGE_URLS)
=============================================================================
