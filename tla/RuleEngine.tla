------------------------------ MODULE RuleEngine ------------------------------
(***************************************************************************)
(* The rules that ScorerService registers, one operator per rule class,    *)
(* each a function of the "data" that a page is reduced to.  A field holds *)
(* what data.get gives: the default of a key that is not there is 0, the   *)
(* empty set, FALSE or "none".  Texts are reduced to their length and to   *)
(* what the rules ask of them; ratios are compared as integers, times are  *)
(* milliseconds.  JSON-LD blocks are taken to declare @context and a type. *)
(***************************************************************************)
EXTENDS Integers, FiniteSets, Sequences

\* A rule that raises gets a synthetic row of severity "error" (_create_error_result).
Pass(bonus) == [passed |-> TRUE, impact |-> bonus, error |-> FALSE]
Fail(penalty) == [passed |-> FALSE, impact |-> -penalty, error |-> FALSE]
Raised == [passed |-> FALSE, impact |-> 0, error |-> TRUE]

If(condition, n) == IF condition THEN n ELSE 0
AtMost(n, cap) == IF n > cap THEN cap ELSE n
PassUnless(fault, penalty) == IF fault THEN Fail(penalty) ELSE Pass(0)

-----------------------------------------------------------------------------
(* The data that rules read *)

Format == {"json-ld", "microdata"}
\* What a block of structured data says of its type: one of those the rules look for,
\* another one, or a list.
SchemaType == {"Organization", "BreadcrumbList", "Article", "Product", "other", "list"}
Block == [type : SchemaType, format : Format]

OgTag == {"og:title", "og:description", "og:image", "og:url"}
TwitterTag == {"twitter:card", "twitter:title", "twitter:description"}
Header == {"strict-transport-security", "content-security-policy", "x-frame-options",
           "x-content-type-options", "x-xss-protection", "cache-control", "expires",
           "content-encoding"}
Place == {"title", "h1", "url", "meta_description", "introduction", "body", "headings"}

Data ==
  [title : [length : Nat, generic : BOOLEAN, onTopic : BOOLEAN, wide : BOOLEAN],
   meta_description : Nat,
   h1 : [count : Nat, long : BOOLEAN, echoesTitle : BOOLEAN],
   headings : [h2 : Nat, h3 : Nat, deeper : Nat, sequential : BOOLEAN, empty : BOOLEAN,
               repeated : BOOLEAN, long : BOOLEAN],
   keywords : BOOLEAN,
   canonical_url : SUBSET {"declared", "relative", "noindex"},
   robots_meta : SUBSET {"noindex", "nofollow"},
   open_graph : SUBSET (OgTag \cup {"fb:app_id", "fb:admins"}),
   twitter_cards : SUBSET (TwitterTag \cup {"twitter:image"}),
   social_links : Nat,
   https : BOOLEAN, ssl : {"unknown", "valid", "invalid"},
   viewport : {"none", "partial", "device"},
   language : BOOLEAN,
   charset : {"none", "other", "utf-8"},
   doctype : {"none", "<!DOCTYPE html>", "other"},
   headers : SUBSET Header, hstsYear : BOOLEAN,
   robots_txt : SUBSET {"rules", "sitemap", "blocks"},
   sitemap : {"none", "empty", "urls"},
   schema_markup : Seq(Block), formats : SUBSET Format,
   path : SUBSET {"missing", "underscore", "space", "long"}, normalized_url : BOOLEAN,
   status_code : Nat,
   hreflang : SUBSET {"self", "x-default", "other"},
   word_count : Nat, shop : BOOLEAN,
   reading_time : Nat, paragraph_count : Nat, text_html_ratio : Nat, html_size : Nat,
   keyword : [given : BOOLEAN, found : SUBSET Place, inTitle : BOOLEAN],
   content_hash : BOOLEAN, duplicate_group_size : Nat, dates : BOOLEAN,
   duplicates : SUBSET {"title", "meta_description", "h1"},
   internal : Nat, external : Nat, contextual : Nat, generic : Nat, nofollow : Nat,
   broken : Nat, broken_link_data_available : BOOLEAN,
   images : [total : Nat, without_alt : Nat, large : Nat, undimensioned : Nat,
             lazy : BOOLEAN, srcset : BOOLEAN, modern : BOOLEAN],
   forms : Nat,
   response_time : Nat,
   minification : SUBSET {"known", "html", "css", "js"},
   resources : Nat, total_size : Nat, js_errors : Nat,
   core_web_vitals : [lcp : Nat, inp : Nat, cls : Nat]]

-----------------------------------------------------------------------------
(* on_page.py *)

LengthStatus(n) ==
  IF n < 30 THEN "very_short" ELSE IF n < 50 THEN "short" ELSE IF n <= 60 THEN "recommended"
  ELSE IF n <= 70 THEN "long" ELSE "very_long"

TitleIssues(d) ==
  LET t == d.title
      status == LengthStatus(t.length)
  IN  {issue \in {"generic", "very_short", "very_long", "long", "truncated", "keyword", "mismatch"} :
         CASE issue = "generic"   -> t.generic
           [] issue = "truncated" -> t.wide
           [] issue = "keyword"   -> d.keyword.given /\ ~d.keyword.inTitle
           [] issue = "mismatch"  -> d.word_count > 0 /\ ~t.onTopic
           [] OTHER               -> issue = status}

\* The gravest issue alone decides.
TitleVerdict(issues) ==
  IF "generic" \in issues THEN Fail(4)
  ELSE IF "mismatch" \in issues THEN Fail(3)
  ELSE IF {"very_short", "very_long"} \cap issues # {} THEN Fail(2)
  ELSE PassUnless(issues # {}, 1)

TitleTag(d) == IF d.title.length = 0 THEN Fail(8) ELSE TitleVerdict(TitleIssues(d))

MetaDescription_OffByOne(d) ==
  LET n == d.meta_description IN PassUnless(n \notin 141 .. 160, If(n < 70, 3) + If(n > 160, 2))

\* 6.5 pixels a character.
MetaDescription(d) ==
  LET n == d.meta_description
      length == IF n < 70 THEN 3 ELSE IF n <= 139 THEN 1 ELSE IF n <= 160 THEN 0
                ELSE IF n <= 180 THEN 2 ELSE 4
      keyword == d.keyword.given /\ "meta_description" \notin d.keyword.found
  IN  IF n = 0 THEN Fail(12)
      ELSE PassUnless(n \notin 140 .. 160, length + If((65 * n) \div 10 > 920, 2) + If(keyword, 1))

\* Headings without text are dropped by the parser, so that none of these is empty.
H1Tag(d) ==
  IF d.h1.count = 0 THEN Fail(10)
  ELSE IF d.h1.count > 1 THEN Fail(5)
  ELSE LET off == d.title.length > 0 /\ ~d.h1.echoesTitle
       IN  PassUnless(d.h1.long \/ off, If(d.h1.long, 2) + If(off, 1))

HeadingHierarchy(d) ==
  LET h == d.headings
      total == d.h1.count + h.h2 + h.h3 + h.deeper
      penalty == If(d.h1.count = 0, 3) + If(h.h2 = 0 /\ h.h3 > 0, 2) + If(~h.sequential, 2)
                 + (IF total > 20 THEN 2 ELSE If(h.h2 > 10, 1))
                 + If(h.empty, 1) + If(h.repeated, 1) + If(h.long \/ d.h1.long, 1)
  IN  PassUnless(\/ d.h1.count = 0 \/ (h.h2 = 0 /\ h.h3 > 0) \/ ~h.sequential
                 \/ total > 20 \/ h.h2 > 10 \/ h.empty \/ h.repeated \/ h.long \/ d.h1.long,
                 penalty)

MetaKeywords(d) == Pass(0)

CanonicalUrl(d) ==
  LET c == d.canonical_url IN
  IF "declared" \notin c THEN Fail(5)
  ELSE PassUnless(c # {"declared"}, If("relative" \in c, 2) + If("noindex" \in c, 3))

RobotsMeta(d) ==
  IF "noindex" \in d.robots_meta THEN Fail(20) ELSE PassUnless("nofollow" \in d.robots_meta, 5)

OpenGraph(d) ==
  LET missing == OgTag \ d.open_graph IN PassUnless(missing # {}, 2 * Cardinality(missing))

TwitterCards(d) ==
  PassUnless(d.twitter_cards # {} /\ ~(TwitterTag \subseteq d.twitter_cards), 1)

-----------------------------------------------------------------------------
(* technical.py *)

SSL_Certificate(d) == IF ~d.https THEN Fail(15) ELSE PassUnless(d.ssl = "invalid", 5)

MobileViewport(d) ==
  IF d.viewport = "none" THEN Fail(10) ELSE PassUnless(d.viewport = "partial", 3)

Mobile(d) == IF d.viewport = "none" THEN Fail(5) ELSE PassUnless(d.viewport = "partial", 2)

LanguageDeclaration(d) == PassUnless(~d.language, 5)

Charset(d) == IF d.charset = "none" THEN Fail(5) ELSE PassUnless(d.charset # "utf-8", 2)

\* The text is lowered before "<!DOCTYPE html>" is looked for in it.
Doctype(d) == IF d.doctype = "none" THEN Fail(2) ELSE Fail(1)

SecurityHeaders(d) ==
  LET required == {"strict-transport-security", "content-security-policy"} \ d.headers
      optional == {"x-frame-options", "x-content-type-options"} \ d.headers
  IN  PassUnless(required \cup optional # {}, 2 * Cardinality(required) + Cardinality(optional))

RobotsTxt(d) ==
  PassUnless("rules" \in d.robots_txt /\ ("sitemap" \notin d.robots_txt \/ "blocks" \in d.robots_txt), 2)

Sitemap(d) == IF d.sitemap = "none" THEN Fail(2) ELSE PassUnless(d.sitemap = "empty", 3)

\* The names of the first three types are joined: a list among them raises.
JoinRaises(d) == \E i \in DOMAIN d.schema_markup : i <= 3 /\ d.schema_markup[i].type = "list"

StructuredData(d) ==
  IF d.schema_markup = <<>> THEN Fail(5) ELSE IF JoinRaises(d) THEN Raised ELSE Pass(0)

Url(d) ==
  PassUnless(d.path # {} /\ (d.normalized_url \/ "missing" \notin d.path), Cardinality(d.path))

HttpStatus(d) ==
  IF d.status_code \in {302, 307} THEN Fail(2)
  ELSE IF d.status_code \in {429, 500, 502, 503, 504} THEN Fail(10)
  ELSE PassUnless(d.status_code \notin {200, 301, 308}, 3)

Hreflang(d) == PassUnless(d.hreflang # {} /\ ~({"self", "x-default"} \subseteq d.hreflang), 1)

-----------------------------------------------------------------------------
(* content.py *)

WordCount(d) ==
  LET thin == IF d.shop THEN 50 ELSE 150
      excellent == IF d.shop THEN 500 ELSE 1500
  IN  IF d.word_count = 0 THEN Fail(15) ELSE IF d.word_count < thin THEN Fail(8)
      ELSE Pass(If(d.word_count >= excellent, 2))

ReadingTime(d) == PassUnless(d.reading_time > 15 * 60, 2)

ParagraphCount(d) ==
  IF d.paragraph_count = 0 THEN Fail(5)
  ELSE PassUnless(d.word_count > 150 * d.paragraph_count, 3)

\* In hundredths; 0 is unknown.
TextHtmlRatio(d) ==
  IF d.text_html_ratio \in 1 .. 9 THEN Fail(5) ELSE Pass(If(d.text_html_ratio >= 25, 1))

KeywordInContent(d) ==
  LET weak == {"title", "h1", "introduction"} \ d.keyword.found
  IN  PassUnless(d.keyword.given /\ Cardinality(d.keyword.found) < 4, Cardinality(weak))

DuplicateContent(d) ==
  LET bare == "declared" \notin d.canonical_url
      copied == d.duplicate_group_size > 1
  IN  PassUnless(bare \/ copied, If(bare, 2) + If(copied, 5) + If(d.content_hash /\ bare, 1))

ContentFreshness(d) == PassUnless(~d.dates, 1)

DuplicateTitles(d) == PassUnless(d.title.length > 0 /\ "title" \in d.duplicates, 3)
DuplicateDescriptions(d) ==
  PassUnless(d.meta_description > 0 /\ "meta_description" \in d.duplicates, 3)
DuplicateH1s(d) == PassUnless(d.h1.count > 0 /\ "h1" \in d.duplicates, 3)

-----------------------------------------------------------------------------
(* links.py; contextual links are those with more than ten characters of anchor text, *)
(* generic ones those with fewer than three or a phrase like "click here".            *)

InternalLinks(d) ==
  IF d.internal = 0 THEN Fail(5)
  ELSE IF d.internal >= 10 /\ 2 * d.contextual >= d.internal THEN Pass(1)
  ELSE PassUnless(d.internal < 5, 3)

ExternalLinks(d) == PassUnless(d.external = 0, 1)

BrokenLinks(d) ==
  PassUnless(d.broken_link_data_available /\ d.broken > 0, AtMost(3 * d.broken, 15))

AnchorText(d) == PassUnless(d.generic > 0, AtMost(2 * d.generic, 8))

NofollowLinks(d) == PassUnless(2 * d.nofollow > d.internal + d.external, 2)

-----------------------------------------------------------------------------
(* images.py; the sample is the first twenty images, and two rules take ten of it *)

ImageAltText(d) ==
  LET i == d.images IN
  IF i.total = 0 THEN Pass(0)
  ELSE IF i.without_alt = 0 THEN Pass(1)
  ELSE PassUnless(100 * (i.total - i.without_alt) < 80 * i.total, AtMost(2 * i.without_alt, 10))

ImageSize(d) == PassUnless(d.images.large > 0, 3)
LazyLoading(d) ==
  IF d.images.total = 0 THEN Pass(0) ELSE IF d.images.lazy THEN Pass(1) ELSE Fail(1)
ImageDimensions(d) == PassUnless(d.images.undimensioned > 0, 2)
ResponsiveImages(d) == PassUnless(d.images.total > 0 /\ ~d.images.srcset, 1)
ImageFormats(d) == PassUnless(d.images.total > 0 /\ ~d.images.modern, 1)

-----------------------------------------------------------------------------
(* schema.py *)

SchemaMarkup(d) ==
  IF d.schema_markup = <<>> THEN Fail(5) ELSE IF JoinRaises(d) THEN Raised ELSE Pass(0)

\* any(...) over the blocks in their order: a type that is a list has no lower(), and
\* raises unless one of the blocks looked for comes before it.
Looks(d, wanted) ==
  LET blocks == d.schema_markup
      First(i) == \A j \in 1 .. i - 1 : blocks[j] \notin wanted /\ blocks[j].type # "list"
  IN  IF blocks = <<>> THEN Pass(0)
      ELSE IF \E i \in DOMAIN blocks : First(i) /\ blocks[i].type = "list" THEN Raised
      ELSE PassUnless(\A i \in DOMAIN blocks : blocks[i] \notin wanted, 1)

\* The type of a microdata block is a URL: it contains the name, but is not equal to it.
Named(type) == [type : {type}, format : {"json-ld"}]

OrganizationSchema(d) == Looks(d, Named("Organization"))
BreadcrumbSchema(d) == Looks(d, [type : {"BreadcrumbList"}, format : Format])
ArticleSchema(d) == Looks(d, Named("Article"))
ProductSchema(d) == Looks(d, Named("Product"))

JsonLdFormat(d) ==
  PassUnless(/\ d.schema_markup # <<>> /\ "json-ld" \notin d.formats
             /\ \A i \in DOMAIN d.schema_markup : d.schema_markup[i].format # "json-ld", 1)

-----------------------------------------------------------------------------
(* social.py, security.py, accessibility.py *)

SocialMediaLinks(d) == PassUnless(d.social_links = 0, 1)
FacebookDomain(d) == PassUnless(d.open_graph \cap {"fb:app_id", "fb:admins"} = {}, 1)
SocialImage(d) ==
  PassUnless("og:image" \notin d.open_graph /\ "twitter:image" \notin d.twitter_cards, 3)

HSTS(d) ==
  IF "strict-transport-security" \notin d.headers THEN Fail(5) ELSE PassUnless(~d.hstsYear, 2)
XSSProtection(d) ==
  PassUnless(d.headers \cap {"x-xss-protection", "content-security-policy"} = {}, 5)

FormLabels(d) == PassUnless(d.forms > 0, 2)

-----------------------------------------------------------------------------
(* performance.py *)

\* The time comes in seconds; one above 10 is taken to be in milliseconds.
ResponseTime(d) ==
  LET t == d.response_time
      Within(ms) == t <= IF t > 10000 THEN 1000 * ms ELSE ms
  IN  IF t = 0 THEN Pass(0) ELSE IF Within(200) THEN Pass(2) ELSE IF Within(500) THEN Pass(0)
      ELSE IF Within(1000) THEN Fail(5) ELSE Fail(10)

HTMLSize(d) ==
  LET kb == 1024 IN
  IF d.html_size = 0 THEN Pass(0) ELSE IF d.html_size <= 50 * kb THEN Pass(1)
  ELSE IF d.html_size <= 100 * kb THEN Pass(0) ELSE IF d.html_size <= 200 * kb THEN Fail(3)
  ELSE Fail(5)

Minification(d) ==
  IF d.minification = {} THEN Pass(0)
  ELSE IF {"html", "css", "js"} \subseteq d.minification THEN Pass(1) ELSE Fail(2)

ResourceCount(d) == IF d.resources <= 20 THEN Pass(0) ELSE Fail(IF d.resources <= 50 THEN 3 ELSE 6)

CacheHeaders(d) == PassUnless(d.headers \cap {"cache-control", "expires"} = {}, 2)
Compression(d) == PassUnless("content-encoding" \notin d.headers, 5)

PageSize(d) ==
  LET mb == 1024 * 1024 IN
  IF d.total_size = 0 THEN Pass(0) ELSE IF d.total_size <= mb THEN Pass(1)
  ELSE Fail(IF d.total_size <= 2 * mb THEN 3 ELSE 6)

JavaScriptErrors(d) == PassUnless(d.js_errors > 0, AtMost(2 * d.js_errors, 10))

\* In milliseconds, and thousandths for cls; 0 is unknown.
CoreWebVitals(d) ==
  LET v == d.core_web_vitals
      Band(n, fair, poor) == IF n > poor THEN 3 ELSE If(n > fair, 1)
      penalty == Band(v.lcp, 2500, 4000) + Band(v.inp, 200, 500) + Band(v.cls, 100, 250)
  IN  PassUnless(v.lcp > 2500 \/ v.inp > 200 \/ v.cls > 100, penalty)

-----------------------------------------------------------------------------
(* What ScorerService registers, and evaluate_page: every rule on the same data. *)

Verdicts(d) ==
  [TitleTag |-> TitleTag(d), MetaDescription |-> MetaDescription(d), H1Tag |-> H1Tag(d),
   HeadingHierarchy |-> HeadingHierarchy(d), MetaKeywords |-> MetaKeywords(d),
   CanonicalUrl |-> CanonicalUrl(d), RobotsMeta |-> RobotsMeta(d), OpenGraph |-> OpenGraph(d),
   TwitterCards |-> TwitterCards(d),
   SSL_Certificate |-> SSL_Certificate(d), MobileViewport |-> MobileViewport(d),
   LanguageDeclaration |-> LanguageDeclaration(d), Charset |-> Charset(d),
   Doctype |-> Doctype(d), SecurityHeaders |-> SecurityHeaders(d), RobotsTxt |-> RobotsTxt(d),
   Sitemap |-> Sitemap(d), StructuredData |-> StructuredData(d), Url |-> Url(d),
   Mobile |-> Mobile(d), HttpStatus |-> HttpStatus(d), Hreflang |-> Hreflang(d),
   WordCount |-> WordCount(d), ReadingTime |-> ReadingTime(d),
   ParagraphCount |-> ParagraphCount(d), TextHtmlRatio |-> TextHtmlRatio(d),
   KeywordInContent |-> KeywordInContent(d), DuplicateContent |-> DuplicateContent(d),
   ContentFreshness |-> ContentFreshness(d), DuplicateTitles |-> DuplicateTitles(d),
   DuplicateDescriptions |-> DuplicateDescriptions(d), DuplicateH1s |-> DuplicateH1s(d),
   InternalLinks |-> InternalLinks(d), ExternalLinks |-> ExternalLinks(d),
   BrokenLinks |-> BrokenLinks(d), AnchorText |-> AnchorText(d),
   NofollowLinks |-> NofollowLinks(d),
   ImageAltText |-> ImageAltText(d), ImageSize |-> ImageSize(d), LazyLoading |-> LazyLoading(d),
   ImageDimensions |-> ImageDimensions(d), ResponsiveImages |-> ResponsiveImages(d),
   ImageFormats |-> ImageFormats(d),
   SchemaMarkup |-> SchemaMarkup(d), OrganizationSchema |-> OrganizationSchema(d),
   BreadcrumbSchema |-> BreadcrumbSchema(d), ArticleSchema |-> ArticleSchema(d),
   ProductSchema |-> ProductSchema(d), JsonLdFormat |-> JsonLdFormat(d),
   SocialMediaLinks |-> SocialMediaLinks(d), FacebookDomain |-> FacebookDomain(d),
   SocialImage |-> SocialImage(d),
   HSTS |-> HSTS(d), XSSProtection |-> XSSProtection(d), FormLabels |-> FormLabels(d),
   ResponseTime |-> ResponseTime(d), HTMLSize |-> HTMLSize(d), Minification |-> Minification(d),
   ResourceCount |-> ResourceCount(d), CacheHeaders |-> CacheHeaders(d),
   Compression |-> Compression(d), PageSize |-> PageSize(d),
   JavaScriptErrors |-> JavaScriptErrors(d), CoreWebVitals |-> CoreWebVitals(d)]

Registered ==
  [on_page |-> {"TitleTag", "MetaDescription", "H1Tag", "HeadingHierarchy", "MetaKeywords",
                "CanonicalUrl", "RobotsMeta", "OpenGraph", "TwitterCards"},
   technical |-> {"SSL_Certificate", "MobileViewport", "LanguageDeclaration", "Charset",
                  "Doctype", "SecurityHeaders", "RobotsTxt", "Sitemap", "StructuredData",
                  "Url", "Mobile", "HttpStatus", "Hreflang"},
   content |-> {"WordCount", "ReadingTime", "ParagraphCount", "TextHtmlRatio",
                "KeywordInContent", "DuplicateContent", "ContentFreshness", "DuplicateTitles",
                "DuplicateDescriptions", "DuplicateH1s"},
   links |-> {"InternalLinks", "ExternalLinks", "BrokenLinks", "AnchorText", "NofollowLinks"},
   images |-> {"ImageAltText", "ImageSize", "LazyLoading", "ImageDimensions",
               "ResponsiveImages", "ImageFormats"},
   schema |-> {"SchemaMarkup", "OrganizationSchema", "BreadcrumbSchema", "ArticleSchema",
               "ProductSchema", "JsonLdFormat"},
   social |-> {"SocialMediaLinks", "FacebookDomain", "SocialImage"},
   security |-> {"HSTS", "XSSProtection"},
   accessibility |-> {"FormLabels"},
   performance |-> {"ResponseTime", "HTMLSize", "Minification", "ResourceCount",
                    "CacheHeaders", "Compression", "PageSize", "JavaScriptErrors",
                    "CoreWebVitals"}]

Category == DOMAIN Registered
Rule == UNION {Registered[c] : c \in Category}
CategoryOf == [r \in Rule |-> CHOOSE c \in Category : r \in Registered[c]]

\* DEFAULT_WEIGHTS, in hundredths.
Weight == [on_page |-> 20, technical |-> 15, content |-> 20, links |-> 10, images |-> 5,
           schema |-> 5, social |-> 5, security |-> 10, accessibility |-> 5, performance |-> 5]
=============================================================================
