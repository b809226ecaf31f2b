---------------------------- MODULE MCLinkAnalysis ----------------------------
(* An instance of LinkAnalysis for TLC: small sites, each a shape of links with a few *)
(* of the things that the analysis is about.                                          *)
EXTENDS LinkAnalysis, TLC

To(u) == [to |-> u, text |-> "plain", nofollow |-> FALSE]

None == [u \in Url |-> {}]

\* Pages at several depths, over one way or over two of different lengths, or over none.
Shapes ==
  {[None EXCEPT !["home"] = {To("a"), To("b")}, !["a"] = {To("c"), To("x")}],
   [None EXCEPT !["home"] = {To("a"), To("b")}, !["a"] = {To("c")}, !["b"] = {To("d")}, !["d"] = {To("c")},
                !["c"] = {To("home"), To("e")}],
   [None EXCEPT !["home"] = {To("a")}, !["a"] = {To("b")}, !["b"] = {To("c")}, !["c"] = {To("d"), To("e")},
                !["d"] = {To("a"), To("x")}],
   [None EXCEPT !["home"] = {To("a"), To("b"), To("x")}, !["a"] = {To("a"), To("y")},
                !["b"] = {To("home"), To("a")}, !["c"] = {To("b"), To("d")}]}

Plain(links, cap) ==
  [home |-> "home", cap |-> cap, links |-> links, answer |-> [u \in Url |-> "page"], final |-> [u \in Url |-> u],
   length |-> [u \in Url |-> IF u = "home" THEN 1 ELSE 2], sitemap |-> {}, blocked |-> {},
   foreign |-> {"x", "y"}, assets |-> {}, insecure |-> {}]

\* What the URLs answer, what is forbidden, and what the sitemap lists.
Answering(s) == {s} \cup {[s EXCEPT !.answer[u] = a] : u \in {"a", "c", "x"}, a \in Answer \ {"page"}}
                    \cup {[s EXCEPT !.answer["home"] = "silent"]}
Forbidding(s) == {s} \cup {[s EXCEPT !.blocked = {u}] : u \in {"home", "a", "c"}}
Listing(s) == {[s EXCEPT !.sitemap = m] : m \in {{}, {"c"}, {"d", "y"}}}

\* Redirects, assets, texts, plain http, and home pages that are not the shortest URL.
Special(s) ==
  {[s EXCEPT !.final["a"] = "b"], [s EXCEPT !.final["c"] = "b"], [s EXCEPT !.final["c"] = "a", !.blocked = {"d"}], [s EXCEPT !.final["c"] = "x"],
   [s EXCEPT !.final["c"] = "x", !.answer["x"] = "guarded"], [s EXCEPT !.assets = {"c"}],
   [s EXCEPT !.assets = {"b"}, !.answer["b"] = "loop"],
   [s EXCEPT !.links["home"] = {[l EXCEPT !.text = "empty"] : l \in @}],
   [s EXCEPT !.links["a"] = {[l EXCEPT !.text = "generic", !.nofollow = TRUE] : l \in @}],
   [s EXCEPT !.insecure = {"a"}], [s EXCEPT !.length["home"] = 2], [s EXCEPT !.length["home"] = 3],
   [s EXCEPT !.links["a"] = {To("home")}, !.links["b"] = {To("c")}, !.links["c"] = {To("d")}, !.final["d"] = "home"]}

SmallSites ==
  LET plain == {Plain(links, cap) : links \in Shapes, cap \in {4, 6}}
  IN  UNION {UNION {Answering(s) : s \in UNION {Forbidding(t) : t \in Listing(p)}} : p \in plain}
        \cup UNION {UNION {Special(s) : s \in Listing(p)} : p \in plain}
=============================================================================
