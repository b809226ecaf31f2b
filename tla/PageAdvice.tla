----------------------------- MODULE PageAdvice -----------------------------
(***************************************************************************)
(* A page, the auditor that judges it and an author who follows what the   *)
(* rules recommend.  The rules do not see the page but a dictionary that   *)
(* one of two functions makes of what was stored or parsed:                *)
(* RuleEvaluatorService._build_rule_data for audits, and                   *)
(* ScorerService._prepare_rule_data for streaming audits.  The page is     *)
(* described by the data that the rules ask for, as they would be if       *)
(* nothing were lost on the way.                                           *)
(***************************************************************************)
EXTENDS RuleEngine

\* Data that describe a page: its URL has a normal form, its links were looked at, no more
\* texts of links are generic than there are links, and blocks have the formats it uses.
Sane(p) ==
  /\ p \in Data /\ p.normalized_url /\ p.broken_link_data_available
  /\ p.generic <= p.internal + p.external
  /\ "json-ld" \in p.formats => \E i \in DOMAIN p.schema_markup : p.schema_markup[i].format = "json-ld"

CONSTANTS
  Start,            \* pages that may be audited
  MaxExternal,      \* external links that the author adds
  Missing           \* no verdict

ASSUME AdviceAssumption ==
  /\ (\A p \in Start : Sane(p)) /\ MaxExternal \in Nat
  /\ Missing \notin [passed : BOOLEAN, impact : Int, error : BOOLEAN]

VARIABLES
  page,     \* the page as it is
  adapter,  \* which of the two audits it
  verdicts, \* of the last audit
  score     \* and its score

pageVars == <<page, adapter, verdicts, score>>

PATypeOK ==
  /\ page \in Data /\ adapter \in {"audit", "streaming"}
  /\ \A r \in Rule : verdicts[r] \in [passed : BOOLEAN, impact : Int, error : BOOLEAN]
  /\ score \in 0 .. 1000

-----------------------------------------------------------------------------
(* What arrives of a page *)

\* Lost by both: the canonical URL is stored under "canonical", Twitter cards under
\* "twitter", other og: and fb: tags and the profile links nowhere; security has no
\* "valid"; headings are not checked for their order; robots.txt, the sitemap, the
\* text's statistics, duplicates, resources and performance are never filled in.  Links
\* have "text" and not "anchor_text", and no type: all count as internal and generic.
Common(p) ==
  [p EXCEPT
     !.canonical_url = {}, !.twitter_cards = {}, !.open_graph = @ \cap OgTag, !.social_links = 0,
     !.ssl = "unknown", !.doctype = "none", !.robots_txt = {}, !.sitemap = "none",
     !.headings.sequential = TRUE, !.headings.empty = FALSE, !.keywords = FALSE,
     !.keyword.given = FALSE, !.shop = FALSE,
     !.reading_time = 0, !.paragraph_count = 0, !.text_html_ratio = 0, !.html_size = 0,
     !.duplicate_group_size = 0, !.dates = FALSE, !.duplicates = {},
     !.internal = p.internal + p.external, !.external = 0, !.contextual = 0,
     !.generic = p.internal + p.external, !.nofollow = 0,
     !.images.large = 0, !.forms = 0, !.minification = {}, !.resources = 0, !.total_size = 0,
     !.js_errors = 0, !.core_web_vitals = [lcp |-> 0, inp |-> 0, cls |-> 0]]

AuditReader_NoHeaders(p) ==
  [Common(p) EXCEPT !.content_hash = p.word_count > 0, !.normalized_url = TRUE, !.headers = {},
                    !.broken_link_data_available = TRUE]

AuditReader(p) ==
  [Common(p) EXCEPT !.content_hash = p.word_count > 0, !.normalized_url = TRUE,
                    !.broken_link_data_available = TRUE,
                    !.formats = {p.schema_markup[i].format : i \in DOMAIN p.schema_markup}]

\* The parser's metadata have "robots" and not "robots_meta"; the adapter passes no headers.
StreamReader(p) ==
  [Common(p) EXCEPT !.robots_meta = {}, !.headers = {}, !.hreflang = {}, !.formats = {},
                    !.content_hash = FALSE, !.normalized_url = FALSE,
                    !.broken = 0, !.broken_link_data_available = FALSE]

Seen(p) == IF adapter = "audit" THEN AuditReader(p) ELSE StreamReader(p)

-----------------------------------------------------------------------------
(* What the author makes of a page on the recommendation of a rule *)

Sized(n, low, high) == IF n < low THEN low ELSE IF n > high THEN high ELSE n
SoundTitle(length) == [length |-> Sized(length, 30, 60), generic |-> FALSE, onTopic |-> TRUE, wide |-> FALSE]
Added(p, type) == Append(p.schema_markup, [type |-> type, format |-> "json-ld"])

\* Only what a rule's text names changes; what the author is free in is left open.
Advice(r, p) ==
  CASE r = "TitleTag" ->
         {[p EXCEPT !.title = SoundTitle(@.length), !.h1.echoesTitle = echo] : echo \in BOOLEAN}
    [] r = "MetaDescription" -> {[p EXCEPT !.meta_description = Sized(@, 140, 160)]}
    [] r = "H1Tag" ->
         IF p.h1.count = 1 THEN {[p EXCEPT !.h1.long = FALSE, !.h1.echoesTitle = TRUE]}
         ELSE {[p EXCEPT !.h1.count = 1, !.h1.echoesTitle = echo] : echo \in BOOLEAN}
    [] r = "HeadingHierarchy" ->
         {[p EXCEPT !.h1 = [count |-> Sized(@.count, 1, 3), long |-> FALSE, echoesTitle |-> echo],
                    !.headings = [h2 |-> Sized(@.h2, 1, 10), h3 |-> Sized(@.h3, 0, 5), deeper |-> 0,
                                  sequential |-> TRUE, empty |-> FALSE, repeated |-> FALSE,
                                  long |-> FALSE]] : echo \in BOOLEAN}
    [] r \in {"CanonicalUrl", "DuplicateContent"} ->
         {[p EXCEPT !.canonical_url = {"declared"}, !.duplicate_group_size = AtMost(@, 1)]}
    [] r = "RobotsMeta" ->
         {[p EXCEPT !.robots_meta = @ \ {IF "noindex" \in @ THEN "noindex" ELSE "nofollow"}]}
    [] r = "OpenGraph" -> {[p EXCEPT !.open_graph = @ \cup OgTag]}
    [] r = "SocialImage" ->
         {[p EXCEPT !.open_graph = @ \cup {"og:image"}, !.twitter_cards = @ \cup {"twitter:image"}]}
    [] r = "FacebookDomain" ->
         {[p EXCEPT !.open_graph = @ \cup {tag}] : tag \in {"fb:app_id", "fb:admins"}}
    [] r = "SocialMediaLinks" -> {[p EXCEPT !.social_links = IF @ = 0 THEN 1 ELSE @]}
    [] r = "SSL_Certificate" -> {[p EXCEPT !.https = TRUE]}
    [] r \in {"MobileViewport", "Mobile"} -> {[p EXCEPT !.viewport = "device"]}
    [] r = "LanguageDeclaration" -> {[p EXCEPT !.language = TRUE]}
    [] r = "Charset" -> {[p EXCEPT !.charset = "utf-8"]}
    [] r = "Doctype" -> {[p EXCEPT !.doctype = "<!DOCTYPE html>"]}
    [] r = "SecurityHeaders" ->
         {[p EXCEPT !.headers = @ \cup {"strict-transport-security", "content-security-policy",
                                        "x-frame-options", "x-content-type-options"}]}
    [] r = "HSTS" ->
         IF "strict-transport-security" \in p.headers THEN {[p EXCEPT !.hstsYear = TRUE]}
         ELSE {[p EXCEPT !.headers = @ \cup {"strict-transport-security"}, !.hstsYear = year] :
                 year \in BOOLEAN}
    [] r = "XSSProtection" ->
         {[p EXCEPT !.headers = @ \cup {"x-xss-protection", "content-security-policy"}]}
    [] r = "CacheHeaders" -> {[p EXCEPT !.headers = @ \cup {"cache-control", "expires"}]}
    [] r = "Compression" -> {[p EXCEPT !.headers = @ \cup {"content-encoding"}]}
    [] r = "Sitemap" -> {[p EXCEPT !.sitemap = "urls"]}
    [] r = "Url" -> {[p EXCEPT !.path = {}]}
    [] r = "HttpStatus" -> {[p EXCEPT !.status_code = 301]}
    [] r = "Hreflang" -> {[p EXCEPT !.hreflang = @ \cup {"self", "x-default"}]}
    [] r = "WordCount" ->
         {[p EXCEPT !.word_count = Sized(@, 150, 1500), !.title.onTopic = onTopic] : onTopic \in BOOLEAN}
    [] r = "ParagraphCount" -> {[p EXCEPT !.paragraph_count = (p.word_count + 149) \div 150]}
    [] r = "ContentFreshness" -> {[p EXCEPT !.dates = TRUE]}
    [] r = "InternalLinks" ->
         {[p EXCEPT !.internal = @ + n, !.contextual = @ + n] : n \in {4, 5}}
    [] r = "ExternalLinks" -> {[p EXCEPT !.external = IF @ < MaxExternal THEN @ + 1 ELSE @]}
    [] r = "BrokenLinks" -> {[p EXCEPT !.broken = 0]}
    [] r = "AnchorText" -> {[p EXCEPT !.generic = 0]}
    [] r = "ImageAltText" -> {[p EXCEPT !.images.without_alt = 0]}
    [] r = "LazyLoading" -> {[p EXCEPT !.images.lazy = TRUE]}
    [] r = "ImageDimensions" -> {[p EXCEPT !.images.undimensioned = 0]}
    [] r = "ResponsiveImages" -> {[p EXCEPT !.images.srcset = TRUE]}
    [] r = "ImageFormats" -> {[p EXCEPT !.images.modern = TRUE]}
    [] r \in {"StructuredData", "SchemaMarkup"} ->
         {[p EXCEPT !.schema_markup = Added(p, type)] : type \in {"Organization", "other"}}
    [] r = "OrganizationSchema" -> {[p EXCEPT !.schema_markup = Added(p, "Organization")]}
    [] r = "BreadcrumbSchema" -> {[p EXCEPT !.schema_markup = Added(p, "BreadcrumbList")]}
    [] r = "ArticleSchema" -> {[p EXCEPT !.schema_markup = Added(p, "Article")]}
    [] r = "ProductSchema" -> {[p EXCEPT !.schema_markup = Added(p, "Product")]}
    [] r = "JsonLdFormat" ->
         {[p EXCEPT !.schema_markup =
                      [i \in DOMAIN p.schema_markup |->
                         [p.schema_markup[i] EXCEPT !.format = "json-ld"]]]}
    [] r = "ResponseTime" ->
         {[p EXCEPT !.response_time = ms] : ms \in IF p.response_time > 1000 THEN {200, 800} ELSE {200}}
    [] OTHER -> {p}

-----------------------------------------------------------------------------
(* Audits *)

\* An error has no impact: that audits leave its row out makes no difference.
INSTANCE Scorer

PAInit ==
  /\ page \in Start /\ adapter \in {"audit", "streaming"}
  /\ verdicts = Verdicts(Seen(page)) /\ score = PageScore(verdicts)

Failing(r) == ~verdicts[r].passed /\ ~verdicts[r].error

\* The author follows one recommendation that is not followed yet ...
Repair(r) == Failing(r) /\ \E p \in Advice(r, page) \ {page} : page' = p

\* ... and the page is audited again.
Audit(p) ==
  /\ \E d \in {Seen(p)} : verdicts' = Verdicts(d)
  /\ score' = PageScore(verdicts')

Follow(r) == Repair(r) /\ Audit(page') /\ UNCHANGED adapter

PANext == \E r \in Rule : Follow(r)

\* An author who does not give up.
PASpec == PAInit /\ [][PANext]_pageVars /\ WF_page(\E r \in Rule : Repair(r))

-----------------------------------------------------------------------------
(* Properties *)

\* Rules that read what never arrives, and fail whatever the page says.
Unheard ==
  {"CanonicalUrl", "DuplicateContent", "Doctype", "Sitemap", "ParagraphCount",
   "ContentFreshness", "ExternalLinks", "AnchorText", "SocialMediaLinks", "FacebookDomain"}
  \cup IF adapter = "audit" THEN {}
       ELSE {"SecurityHeaders", "HSTS", "XSSProtection", "CacheHeaders", "Compression"}

\* Rules that may pass a page which fails them; no target keyword reaches them.
Blind ==
  {"HeadingHierarchy", "TwitterCards", "SSL_Certificate", "RobotsTxt", "ReadingTime",
   "TextHtmlRatio", "DuplicateTitles", "DuplicateDescriptions", "DuplicateH1s",
   "InternalLinks", "NofollowLinks", "ImageSize", "FormLabels", "HTMLSize", "Minification",
   "ResourceCount", "PageSize", "JavaScriptErrors", "CoreWebVitals"}
  \cup (IF adapter = "audit" THEN {} ELSE {"RobotsMeta", "Hreflang", "BrokenLinks", "Url"})
  \cup IF page.keyword.given THEN {"TitleTag", "KeywordInContent"} ELSE {}

\* Every other verdict is the one that the page deserves; but a shop's short texts are
\* judged as an article's, and an image that only Twitter is given is not seen.
VerdictsAreTrue ==
  LET deserved == Verdicts(page) IN
  \A r \in Rule :
    /\ deserved[r].passed /\ ~verdicts[r].passed => r \in Unheard \cup {"WordCount", "SocialImage"}
    /\ ~deserved[r].passed /\ verdicts[r].passed => r \in Blind

\* Whatever the order in which the author follows the recommendations, and however one
\* repair spoils what another rule looks at, in the end only the deaf rules fail.
AdviceConverges == <>[](\A r \in Rule \ Unheard : ~Failing(r))

\* Following a recommendation never lowers the score of the page, except that added
\* links are counted as links with generic texts.
AdviceNeverCosts ==
  [][page'.internal + page'.external = page.internal + page.external => score' >= score]_pageVars
=============================================================================
