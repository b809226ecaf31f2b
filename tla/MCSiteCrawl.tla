---------------------------- MODULE MCSiteCrawl ----------------------------
(***************************************************************************)
(* A small shop: four pages, one of a subdomain, an address with a slash   *)
(* too many, and one URL of each kind that a crawl leaves out.             *)
(***************************************************************************)
EXTENDS SiteCrawl

URL(host, path, ext) ==
  [scheme |-> "https", host |-> host, path |-> path, ext |-> ext, slash |-> FALSE, query |-> {}, fragment |-> FALSE]

MCMultiSuffix == {<<"co", "uk">>}
MCCommonPaths == <<"usual">>

Shop == <<"www", "shop", "co", "uk">>
Apex == <<"shop", "co", "uk">>
Blog == <<"blog", "shop", "co", "uk">>
Elsewhere == <<"other", "co", "uk">>

MCAddress ==
  [home  |-> URL(Apex, <<>>, ""),
   a     |-> URL(Apex, <<"a">>, ""),
   ab    |-> URL(Apex, <<"a", "b">>, ""),
   deep  |-> URL(Apex, <<"a", "b", "c">>, ""),
   blog  |-> URL(Blog, <<"c">>, ""),
   slash |-> [URL(Apex, <<"a">>, "") EXCEPT !.slash = TRUE],
   other |-> URL(Elsewhere, <<>>, ""),
   cart  |-> URL(Apex, <<"cart">>, ""),
   old   |-> URL(Apex, <<"old", "x">>, ""),
   pdf   |-> URL(Apex, <<"a", "list">>, ".pdf"),
   api   |-> URL(Apex, <<"api", "a">>, ""),
   month |-> URL(Apex, <<"events", "YYYY", "MM">>, ""),
   facet |-> [URL(Apex, <<"a">>, "") EXCEPT !.query = {"color", "size"}]]

MCUrl == DOMAIN MCAddress
MCCrawlable == {"home", "a", "ab", "deep"}
MCSubdomain == {"blog"}

MCPattern ==
  {[match_type |-> "prefix", text |-> <<"/", "old", "/">>],
   [match_type |-> "query_param", names |-> {"replytocom"}],
   [match_type |-> "host", host |-> Elsewhere]}

MCIgnored  == {u \in MCUrl : check_url(MCPattern, MCAddress[u])}
MCEligible == {u \in MCUrl : classify_url(MCAddress[u], Apex) = "HTML"}

-----------------------------------------------------------------------------
Agent(name)      == [key |-> "user-agent", value |-> name]
Disallow(text)   == [key |-> "disallow", value |-> text]
Allow(text)      == [key |-> "allow", value |-> text]
Other            == [key |-> "crawl-delay", value |-> <<"1">>]

TextA  == <<"/", "a">>
TextAB == <<"/", "a", "/", "b">>

MCRobotsText ==
  [none    |-> <<>>,
   folder  |-> <<Agent("*"), Disallow(TextA), Allow(TextAB)>>,
   tie     |-> <<Agent("*"), Allow(TextA), Other, Disallow(TextA), Disallow(<<"/", "c">>)>>,
   groups  |-> <<Agent("foreign"), Disallow(<<"/">>), Agent("*"), Disallow(<<"/", "c">>),
                 Agent("other"), Agent("bot"), Allow(<<"/", "c">>), Disallow(TextAB)>>,
   exact   |-> <<Agent("*"), Disallow(TextA \o <<"$">>), Disallow(<<>>)>>,
   star    |-> <<Agent("*"), Disallow(TextAB \o <<"*">>)>>,
   closed  |-> <<Agent("bot"), Disallow(<<"/">>), Allow(TextA)>>,
   own     |-> <<Agent("*"), Disallow(TextAB), Agent("bot"), Disallow(<<"/", "c">>)>>,
   early   |-> <<Disallow(<<"/", "c">>), Agent("foreign"), Disallow(TextAB)>>]

MCReferences == [robots \in DOMAIN MCRobotsText |-> IF robots = "none" THEN <<>> ELSE <<"main">>]

Missing       == [exists |-> FALSE, is_index |-> FALSE, urls |-> <<>>, children |-> <<>>]
List(names)   == [Missing EXCEPT !.exists = TRUE, !.urls = [i \in DOMAIN names |-> MCAddress[names[i]]]]
Index(others) == [Missing EXCEPT !.exists = TRUE, !.is_index = TRUE, !.children = others]

MCSitemap == {"usual", "main", "s1", "s2", "s3"}
Empty     == [x \in MCSitemap |-> Missing]

MCFiles ==
  [none  |-> Empty,
   list  |-> [Empty EXCEPT !["usual"] = List(<<"slash", "cart", "deep">>)],
   cycle |-> [Empty EXCEPT !["main"] = Index(<<"s1", "s2">>), !["s1"] = Index(<<"main", "s1", "s3">>),
                           !["s2"] = List(<<"blog">>), !["s3"] = List(<<"ab", "slash">>)],
   deep  |-> [Empty EXCEPT !["main"] = Index(<<"s1">>), !["s1"] = Index(<<"s2">>), !["s2"] = Index(<<"s3">>),
                           !["s3"] = List(<<"blog">>)],
   many  |-> [Empty EXCEPT !["main"] = Index(<<"s1", "s2", "s3">>), !["usual"] = List(<<"blog">>),
                           !["s1"] = List(<<"a", "a">>), !["s2"] = List(<<"ab", "slash", "blog">>)]]

-----------------------------------------------------------------------------
Link(name) == MCAddress[name]
Tagged(name) == [MCAddress[name] EXCEPT !.query = @ \cup {"source", "utm_term"}, !.slash = TRUE]
Anchor(name) == [MCAddress[name] EXCEPT !.fragment = TRUE]
MCPageOf(host, links) == [at |-> host, is_html |-> TRUE, links |-> links]

Plain ==
  [u \in MCUrl |->
     CASE u = "home" -> MCPageOf(Shop, {Tagged("a"), Link("slash"), Link("blog"), Link("other"), Link("cart"),
                                        Link("old"), Link("pdf"), Link("api"), Link("month"), Link("facet")})
       [] u = "a"    -> MCPageOf(Apex, {Anchor("ab"), Link("home")})
       [] u = "ab"   -> MCPageOf(Apex, {Link("deep"), Tagged("a")})
       [] u = "blog" -> MCPageOf(Blog, {Anchor("a")})
       [] OTHER      -> MCPageOf(MCAddress[u].host, {})]

MCPage ==
  [plain    |-> Plain,
   document |-> [Plain EXCEPT !["home"].is_html = FALSE],
   moved    |-> [Plain EXCEPT !["home"].at = Elsewhere]]

MCChosen ==
  [any  |-> [given |-> FALSE, urls |-> <<>>, only |-> FALSE],
   some |-> [given |-> TRUE, urls |-> <<MCAddress["home"], MCAddress["ab"]>>, only |-> FALSE],
   only |-> [given |-> TRUE, urls |-> <<MCAddress["home"], Anchor("blog")>>, only |-> TRUE]]

SiteOf(robots, files, links, choice) == [robots |-> robots, files |-> files, links |-> links, choice |-> choice]

MCSite ==
  {SiteOf(robots, "none", "plain", "any") : robots \in DOMAIN MCRobotsText}
  \cup {SiteOf("star", files, "document", "any") : files \in DOMAIN MCFiles}
  \cup {SiteOf("none", files, links, "any") : files \in {"none", "list"}, links \in {"document", "moved"}}
  \cup {SiteOf("groups", "cycle", "plain", choice) : choice \in DOMAIN MCChosen}
=============================================================================
