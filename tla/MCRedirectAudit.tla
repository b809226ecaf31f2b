---------------------------- MODULE MCRedirectAudit ----------------------------
(* An instance of RedirectAudit for TLC: every way in which three pages can answer, and *)
(* shapes of links with what may stand in the way of their discovery.                   *)
EXTENDS RedirectAudit, TLC

Plain(links) ==
  [home |-> "home", answer |-> [u \in Url |-> "page"], links |-> links, sitemap |-> <<>>, map |-> "missing",
   robots |-> "served", disallowed |-> {}, foreign |-> {"x"}]

None == [u \in Url |-> <<>>]

Star   == [None EXCEPT !["home"] = <<"a", "b", "c">>]
Shapes == {Star,
           [None EXCEPT !["home"] = <<"a">>, !["a"] = <<"b", "home">>, !["b"] = <<"c">>],
           [None EXCEPT !["home"] = <<"b", "a", "x">>, !["a"] = <<"c">>, !["b"] = <<"a">>, !["c"] = <<"d">>],
           [None EXCEPT !["home"] = <<"a", "b", "c", "d">>, !["d"] = <<"a">>]}

\* All answers of a, b and c; x redirects only if it is redirected to.
Answering ==
  {s \in {[Plain(Star) EXCEPT !.answer["a"] = i, !.answer["b"] = j, !.answer["c"] = k, !.answer["x"] = l] :
            i \in Answer \ {"d"}, j \in Answer \ {"b", "d"}, k \in Answer \ {"c", "d", "x"},
            l \in {"page", "b"}} :
     s.answer["x"] = "page" \/ "x" \in {s.answer["a"], s.answer["b"]}}

Mapped(s)   == {s} \cup {[s EXCEPT !.map = m, !.sitemap = <<"c", "x", "d", "c">>] : m \in {"served", "broken"}}
Shut(s)     == {s} \cup {[s EXCEPT !.disallowed = {u}] : u \in {"home", "a", "b"}} \cup {[s EXCEPT !.robots = "down"]}
Failing(s)  == {s} \cup {[s EXCEPT !.answer[u] = a] : u \in {"home", "a"}, a \in {"silent", "gone", "b"}}

SmallSites ==
  Answering \cup UNION {UNION {Failing(s) : s \in UNION {Shut(t) : t \in Mapped(Plain(links))}} : links \in Shapes}
=============================================================================
