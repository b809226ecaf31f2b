----------------------------- MODULE SiteRules -----------------------------
(***************************************************************************)
(* Which URLs a crawl may ask for: the canonical form of a URL, whether    *)
(* two hosts are one site, the class of a URL, the ignore patterns of the  *)
(* database, and robots.txt.                                               *)
(*                                                                         *)
(* A URL is a record of scheme, host (its labels), path (its segments, the *)
(* last one without the extension), extension, whether a slash ends it,    *)
(* the names of its query parameters, and whether it has a fragment.  Case *)
(* and default ports are gone.  Text is a sequence of tokens: of the       *)
(* patterns that match one path each but for a final * or $ extends the    *)
(* other, so that tokens order them as characters do.                      *)
(***************************************************************************)
EXTENDS Integers, Sequences, FiniteSets, SequencesExt

CONSTANTS
  MultiSuffix,     \* _MULTI_LEVEL_SUFFIXES, as pairs of labels
  IgnoredPath,     \* _IGNORED_PATHS, by their first and only segment
  IgnoredPrefix,   \* _IGNORED_PATH_PREFIXES, by their first segment
  ResourceExt,     \* _RESOURCE_EXTENSIONS
  KnownAs          \* values of User-agent that are part of the crawler's own name

-----------------------------------------------------------------------------
(* Hosts and the canonical form *)

\* _registered_domain: the last two labels, or three below a suffix such as co.uk.
registered_domain(host) ==
  LET bare == IF host # <<>> /\ host[1] = "www" THEN Tail(host) ELSE host
      End(n) == SubSeq(bare, Len(bare) - n + 1, Len(bare))
  IN  IF Len(bare) < 2 THEN bare
      ELSE IF Len(bare) > 2 /\ End(2) \in MultiSuffix THEN End(3) ELSE End(2)

is_same_site(a, b) == registered_domain(a) = registered_domain(b) /\ registered_domain(a) # <<>>

IsHttp(url) == url.scheme \in {"http", "https"} /\ url.host # <<>>

DEFAULT_TRACKING_PARAMS ==
  {"utm_source", "utm_medium", "utm_campaign", "utm_term", "utm_content",
   "gclid", "fbclid", "msclkid", "mc_eid", "ref"}

\* What links lose in addition, URLs of sitemaps do not.
TRACKING_PARAMS ==
  {"utm_source", "utm_medium", "utm_campaign", "utm_term", "utm_content", "utm_id",
   "gclid", "fbclid", "msclkid", "ref", "source", "sessionid", "sid", "token", "replytocom"}

strip_tracking_params(url) == [url EXCEPT !.query = @ \ TRACKING_PARAMS]

normalize_url_canonical(url) ==
  [url EXCEPT !.fragment = FALSE, !.slash = FALSE, !.query = @ \ DEFAULT_TRACKING_PARAMS]

-----------------------------------------------------------------------------
(* classify_url *)

\* The path of a URL as text.
PathText(url) ==
  LET body == FlattenSeq([i \in DOMAIN url.path |-> <<"/", url.path[i]>>])
              \o (IF url.ext = "" THEN <<>> ELSE <<url.ext>>)
  IN  IF body = <<>> \/ url.slash THEN Append(body, "/") ELSE body

First(url) == IF url.path = <<>> THEN "" ELSE url.path[1]
File(url)  == IF url.path = <<>> THEN <<"", "">> ELSE <<Last(url.path), url.ext>>

\* _REPEATING_PATH_PATTERN: the group contains its slash, so that the path repeats only
\* between double slashes.
Repeats(path) ==
  \E i \in 1 .. Len(path) - 4 :
    /\ path[i] # "" /\ path[i + 2] = path[i] /\ path[i + 4] = path[i]
    /\ path[i + 1] = "" /\ path[i + 3] = ""

\* _CALENDAR_PATTERN
Calendar(path) ==
  \E i \in 1 .. Len(path) - 2 :
    path[i] \in {"events", "calendar", "archive"} /\ path[i + 1] = "YYYY" /\ path[i + 2] = "MM"

Faceted == {"sort", "filter", "page", "q", "search", "p", "price_min", "price_max", "color",
            "size", "view", "display", "order"}

classify_url(url, base) ==
  IF ~IsHttp(url) THEN "INVALID"
  ELSE IF ~is_same_site(url.host, base) THEN "EXTERNAL"
  ELSE IF Repeats(url.path) \/ Calendar(url.path) THEN "IGNORED"
  ELSE IF File(url) = <<"robots", ".txt">> THEN "ROBOTS"
  ELSE IF File(url) \in {"sitemap", "sitemap_index"} \X {".xml"} THEN "SITEMAP"
  ELSE IF \/ First(url) \in {"wp-json", "api"} /\ Len(url.path) > 1
          \/ First(url) = "graphql"
          \/ url.ext \in {".json", ".xml"} THEN "API"
  ELSE IF \/ First(url) \in IgnoredPath /\ Len(url.path) = 1 /\ url.ext = ""
          \/ First(url) \in IgnoredPrefix /\ Len(url.path) > 1 THEN "IGNORED"
  ELSE IF url.ext \in ResourceExt THEN "RESOURCE"
  ELSE IF \/ Cardinality(url.query) > 5
          \/ Cardinality(url.query \cap Faceted) >= 2 THEN "IGNORED"
  ELSE "HTML"

-----------------------------------------------------------------------------
(* UrlIgnoreService *)

\* _matches; what a regular expression finds is a set of URLs, none if it does not compile.
Matches(pattern, url) ==
  \/ pattern.match_type = "path" /\ PathText(url) = pattern.text
  \/ pattern.match_type = "prefix" /\ IsPrefix(pattern.text, PathText(url))
  \/ pattern.match_type = "extension" /\ IsSuffix(pattern.text, PathText(url))
  \/ pattern.match_type = "query_param" /\ pattern.names \cap url.query # {}
  \/ pattern.match_type = "regex" /\ url \in pattern.finds
  \/ pattern.match_type = "scheme" /\ url.scheme = pattern.scheme
  \/ pattern.match_type = "host" /\ url.host = pattern.host

check_url(patterns, url) == \E pattern \in patterns : Matches(pattern, url)

-----------------------------------------------------------------------------
(* robots.txt *)

\* One line in RobotsPolicy._parse.  A group is opened by its first rule and closed by the
\* next User-agent line, unless no agent was named before it: then it stays open.
ReadLine(state, line) ==
  CASE line.key = "user-agent" /\ state.open /\ state.agents # {} ->
         [state EXCEPT !.groups = Append(@, state.group), !.open = FALSE, !.agents = {line.value}]
    [] line.key = "user-agent" /\ ~(state.open /\ state.agents # {}) ->
         [state EXCEPT !.agents = @ \cup {line.value}]
    [] line.key \in {"allow", "disallow"} ->
         LET group == IF state.open THEN state.group
                      ELSE [agents |-> IF state.agents = {} THEN {"*"} ELSE state.agents,
                            allow |-> {}, disallow |-> {}]
         IN  [state EXCEPT !.open = TRUE,
                !.group = IF line.value = <<>> THEN group
                          ELSE [group EXCEPT ![line.key] = @ \cup {line.value}]]
    [] OTHER -> state

RobotsPolicy(lines) ==
  LET end == FoldLeft(ReadLine,
                      [groups |-> <<>>, open |-> FALSE, agents |-> {},
                       group |-> [agents |-> {}, allow |-> {}, disallow |-> {}]], lines)
  IN  IF end.open THEN Append(end.groups, end.group) ELSE end.groups

WithoutStars(pattern) ==
  SubSeq(pattern, 1, Max({0} \cup {i \in DOMAIN pattern : pattern[i] # "*"}))

PathMatches(path, pattern) ==
  \/ pattern = <<"/">>
  \/ Last(pattern) = "$" /\ path = Front(pattern)
  \/ Last(pattern) # "$" /\ IsPrefix(WithoutStars(pattern), path)

Longest(path, patterns) == Max({-1} \cup {Len(p) : p \in {q \in patterns : PathMatches(path, q)}})

Concerns(group) == group.agents \cap (KnownAs \cup {"*"}) # {}

JudgeGroup_Strict(path, verdict, group) ==
  LET disallow == Longest(path, group.disallow)
      allow    == Longest(path, group.allow)
      first    == IF disallow > verdict.length THEN [length |-> disallow, allowed |-> FALSE] ELSE verdict
  IN  IF allow > first.length THEN [length |-> allow, allowed |-> TRUE] ELSE first

\* The longest pattern wins, and an allow wins over a disallow of its length.
JudgeGroup(path, verdict, group) ==
  LET disallow == Longest(path, group.disallow)
      allow    == Longest(path, group.allow)
      first    == IF disallow > verdict.length THEN [length |-> disallow, allowed |-> FALSE] ELSE verdict
  IN  IF allow >= first.length THEN [length |-> allow, allowed |-> TRUE] ELSE first

\* RobotsPolicy.is_allowed: all groups that concern the crawler, its own and those of "*".
is_allowed(policy, path) ==
  FoldLeft(LAMBDA verdict, group : JudgeGroup(path, verdict, group),
           [length |-> -1, allowed |-> TRUE], SelectSeq(policy, Concerns)).allowed
=============================================================================
