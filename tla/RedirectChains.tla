----------------------------- MODULE RedirectChains -----------------------------
(***************************************************************************)
(* The data of redirect_urls: the walk along a redirect chain              *)
(* (check_redirect_chain), the graph in which an audit's walks are stored, *)
(* the results that the API builds from it again, and their verdict.  A    *)
(* site answers a request for a URL with a page, with an error status      *)
(* (gone), with a redirect to another URL, with a redirect that names no   *)
(* URL (nowhere), or not at all (silent: no connection, or a host that the *)
(* guard refuses).  A single request may fail where the site answers       *)
(* others.                                                                 *)
(***************************************************************************)
EXTENDS Integers, FiniteSets, SequencesExt

CONSTANTS
  Url,
  MaxHops     \* max_hops of the request

Nowhere == "nowhere"

\* A URL is none of the other answers.
ASSUME ChainAssumption == MaxHops \in Nat /\ {"page", "gone", Nowhere, "silent"} \cap Url = {}

Answer  == {"page", "gone", Nowhere, "silent"} \cup Url

\* What stands in the way of an audit: robots.txt, the sitemap, the pages and their links.
Site == [home : Url, answer : [Url -> Answer], links : [Url -> Seq(Url)], sitemap : Seq(Url),
         map : {"served", "missing", "broken"}, robots : {"served", "down"},
         disallowed : SUBSET Url, foreign : SUBSET Url]

Hop == [at : Url, to : Url \cup {Nowhere}]
End == {"page", "gone", "silent", "malformed", "loop", "limit"}

\* Ends of a walk that are reported as errors.
Unverified == {"silent", "malformed", "loop", "limit"}

\* The members of a sequence that are in a set, each once, and at most n of them.
Picked(seq, S, n) ==
  LET picked[i \in 0 .. Len(seq)] ==
        IF i = 0 THEN <<>>
        ELSE IF seq[i] \in S \ ToSet(picked[i - 1]) /\ Len(picked[i - 1]) < n
             THEN Append(picked[i - 1], seq[i])
             ELSE picked[i - 1]
  IN  picked[Len(seq)]

-----------------------------------------------------------------------------
(* The walk *)

\* Of the max_hops + 1 answers that a check asks for, a redirect in the last one is not followed.
LastAnswer_OneShort(n) == n >= MaxHops

LastAnswer(n) == n > MaxHops

\* The URLs that are asked for in turn.
Place(s, u) ==
  LET place[n \in 1 .. MaxHops + 1] == IF n = 1 THEN u ELSE s.answer[place[n - 1]]
  IN  place

\* The walk goes on until an answer is no redirect, leads back, or is the last one; each request
\* is answered as the site does.
Walk(s, u) ==
  LET place    == Place(s, u)
      To(n)    == s.answer[place[n]]
      Seen(n)  == {place[m] : m \in 1 .. n}
      Stops(n) == To(n) \notin Url \/ To(n) \in Seen(n) \/ LastAnswer(n)
      last     == CHOOSE n \in 1 .. MaxHops + 1 : Stops(n) /\ \A m \in 1 .. n - 1 : ~Stops(m)
      ended    == To(last) \in {"page", "gone", "silent"}
  IN  [from |-> u, at |-> place[last],
       hops |-> [n \in 1 .. IF ended THEN last - 1 ELSE last |-> [at |-> place[n], to |-> To(n)]],
       end  |-> IF ended THEN To(last)
                ELSE IF To(last) = Nowhere THEN "malformed"
                ELSE IF To(last) \in Seen(last) THEN "loop" ELSE "limit"]

\* As many URLs are asked for: each that redirects, and the one that ends the walk.
Asked(s, u) ==
  LET w == Walk(s, u)
  IN  IF w.end \in {"page", "gone", "silent"} THEN Len(w.hops) + 1 ELSE Len(w.hops)

\* The n-th request fails, and ends the walk: no answer comes in time, or a server error on every
\* attempt.
BrokenOff(s, u, n, end) ==
  [Walk(s, u) EXCEPT !.at = Place(s, u)[n], !.hops = SubSeq(@, 1, n - 1), !.end = end]

\* What may come of walking from u.
Walks(s, u) == {Walk(s, u)} \cup {BrokenOff(s, u, n, end) : n \in 1 .. Asked(s, u), end \in {"silent", "gone"}}

\* The results of checks: where their walks ended and how.
Checks(s, walks) ==
  {[url |-> w.from, hops |-> w.hops, count |-> Len(w.hops), end |-> w.end, at |-> w.at,
    internal |-> \E h \in ToSet(w.hops) : h.to \in Url \ s.foreign,
    external |-> \E h \in ToSet(w.hops) : h.to \in s.foreign] : w \in walks}

-----------------------------------------------------------------------------
(* The graph *)

\* The rows of one audit: a node for every URL that was checked, linked or redirected to, with
\* the result of those that were checked but without its hops; an edge for every link and for
\* every redirect, whichever walk found it.
Graph(results, links, depth, listed) ==
  LET targets == {h.to : h \in UNION {ToSet(r.hops) : r \in results}} \ {Nowhere}
      others  == (targets \cup {l.to : l \in links}) \ {r.url : r \in results}
  IN  [checked   |-> {[url |-> r.url, depth |-> depth[r.url], count |-> r.count, end |-> r.end,
                       at |-> r.at, internal |-> r.internal, external |-> r.external,
                       listed |-> r.url \in listed] : r \in results},
       others    |-> others,
       links     |-> links,
       redirects |-> {h \in UNION {ToSet(r.hops) : r \in results} : h.to # Nowhere}]

NoGraph == [checked |-> {}, others |-> {}, links |-> {}, redirects |-> {}]

-----------------------------------------------------------------------------
(* build_result *)

\* Where the edges of a graph lead from the URLs that have one; the first one if there were several.
Onward(g) == [u \in {h.at : h \in g.redirects} |-> (CHOOSE h \in g.redirects : h.at = u).to]

\* The URLs to which the edges lead in turn; before there are more than edges one has none or recurs.
Passed(g, node) ==
  LET onward == Onward(g)
      place[n \in 0 .. Cardinality(g.redirects)] == IF n = 0 THEN node.url ELSE onward[place[n - 1]]
  IN  place

\* The way along the edges, up to a URL that has none or has been visited.
Followed(g, node) ==
  LET onward == Onward(g)
      place  == Passed(g, node)
      Stops(n) == place[n] \notin DOMAIN onward \/ \E m \in 0 .. n - 1 : place[m] = place[n]
      last == CHOOSE n \in 0 .. Cardinality(g.redirects) : Stops(n) /\ \A m \in 0 .. n - 1 : ~Stops(m)
  IN  [n \in 1 .. last |-> [at |-> place[n - 1], to |-> place[n]]]

\* The hops of a result; a hop to nowhere is no edge, but its walk has counted it.
RebuiltHops_Edges(g, node) == Followed(g, node)

RebuiltHops(g, node) ==
  LET hops == Followed(g, node)
      last == IF hops = <<>> THEN node.url ELSE Last(hops).to
  IN  IF node.end = "malformed" /\ Len(hops) < node.count
      THEN Append(hops, [at |-> last, to |-> Nowhere])
      ELSE hops

Rebuilt(g, node) ==
  [url |-> node.url, hops |-> RebuiltHops(g, node), count |-> node.count, end |-> node.end,
   at |-> node.at, internal |-> node.internal, external |-> node.external,
   listed |-> node.listed, depth |-> node.depth,
   sources |-> {l.from : l \in {k \in g.links : k.to = node.url}}]

-----------------------------------------------------------------------------
(* _analyze *)

\* The findings about one result.
FindingsOf(r) ==
  (IF r.count > 2 THEN {"long_redirect_chain"} ELSE {})
    \cup (CASE r.end = "page"      -> {}
            [] r.end = "gone"      -> {"broken_destination"}
            [] r.end = "silent"    -> {"redirect_check_failed"}
            [] r.end = "malformed" -> {"malformed_redirect"}
            [] r.end = "loop"      -> {"redirect_loop"}
            [] r.end = "limit"     -> {"redirect_hop_limit"})

Findings(results) == UNION {{[code |-> c, url |-> r.url] : c \in FindingsOf(r)} : r \in results}

Fails(f) == f.code # "long_redirect_chain"

\* An audit that could not see the whole site does not pass.
Overall(results, complete) ==
  LET findings == Findings(results)
  IN  CASE results = {} \/ (~complete /\ findings = {}) -> "unverified"
        [] \E f \in findings : Fails(f)                  -> "fail"
        [] OTHER -> IF findings # {} THEN "warning" ELSE "pass"

\* One recommendation for each kind of finding.
Recommendations(results) == {f.code : f \in Findings(results)}

Summary(results) ==
  LET Count(P(_)) == Cardinality({r \in results : P(r)})
  IN  [total  |-> Cardinality(results),
       redirects |-> Count(LAMBDA r : r.count > 0),
       broken |-> Count(LAMBDA r : r.end # "page"),
       loops  |-> Count(LAMBDA r : r.end = "loop"),
       limits |-> Count(LAMBDA r : r.end = "limit"),
       internal |-> Count(LAMBDA r : r.internal),
       external |-> Count(LAMBDA r : r.external),
       hops   |-> MapThenSumSet(LAMBDA r : r.count, results)]
=============================================================================
