----------------------------- MODULE MCPageAdvice -----------------------------
(* An instance of PageAdvice for TLC: a page that every rule passes, with at most two *)
(* of the faults that rules look for.                                                 *)
EXTENDS PageAdvice

Organization == [type |-> "Organization", format |-> "json-ld"]
Blocks == <<Organization, [Organization EXCEPT !.type = "BreadcrumbList"],
            [Organization EXCEPT !.type = "Article"], [Organization EXCEPT !.type = "Product"]>>

Sound ==
  [title |-> [length |-> 50, generic |-> FALSE, onTopic |-> TRUE, wide |-> FALSE],
   meta_description |-> 150,
   h1 |-> [count |-> 1, long |-> FALSE, echoesTitle |-> TRUE],
   headings |-> [h2 |-> 2, h3 |-> 1, deeper |-> 0, sequential |-> TRUE, empty |-> FALSE,
                 repeated |-> FALSE, long |-> FALSE],
   keywords |-> TRUE, canonical_url |-> {"declared"}, robots_meta |-> {},
   open_graph |-> OgTag \cup {"fb:app_id"}, twitter_cards |-> TwitterTag, social_links |-> 1,
   https |-> TRUE, ssl |-> "valid", viewport |-> "device", language |-> TRUE,
   charset |-> "utf-8", doctype |-> "<!DOCTYPE html>", headers |-> Header, hstsYear |-> TRUE,
   robots_txt |-> {"rules", "sitemap"}, sitemap |-> "urls",
   schema_markup |-> Blocks, formats |-> {"json-ld"}, path |-> {}, normalized_url |-> TRUE,
   status_code |-> 200, hreflang |-> {"self", "x-default"},
   word_count |-> 900, shop |-> FALSE, reading_time |-> 270, paragraph_count |-> 9,
   text_html_ratio |-> 30, html_size |-> 40000,
   keyword |-> [given |-> FALSE, found |-> {}, inTitle |-> FALSE],
   content_hash |-> TRUE, duplicate_group_size |-> 1, dates |-> TRUE, duplicates |-> {},
   internal |-> 10, external |-> 1, contextual |-> 10, generic |-> 0, nofollow |-> 0,
   broken |-> 0, broken_link_data_available |-> TRUE,
   images |-> [total |-> 10, without_alt |-> 0, large |-> 0, undimensioned |-> 0,
               lazy |-> TRUE, srcset |-> TRUE, modern |-> TRUE],
   forms |-> 0, response_time |-> 200, minification |-> {"known", "html", "css", "js"},
   resources |-> 10, total_size |-> 500000, js_errors |-> 0,
   core_web_vitals |-> [lcp |-> 2000, inp |-> 100, cls |-> 50]]

\* Faults of the title, the headings, the text and the links, which several rules read.
Entangled(p) ==
  {[p EXCEPT !.title.length = n] : n \in {0, 29, 61, 71}}
  \cup {[p EXCEPT !.title.generic = TRUE], [p EXCEPT !.title.onTopic = FALSE]}
  \cup {[p EXCEPT !.h1 = [count |-> 0, long |-> FALSE, echoesTitle |-> FALSE]],
        [p EXCEPT !.h1.count = 2], [p EXCEPT !.h1.long = TRUE], [p EXCEPT !.h1.echoesTitle = FALSE]}
  \cup {[p EXCEPT !.headings.h2 = n] : n \in {0, 11, 20}}
  \cup {[p EXCEPT !.headings.sequential = FALSE], [p EXCEPT !.headings.repeated = TRUE]}
  \cup {[p EXCEPT !.word_count = n, !.reading_time = n] : n \in {0, 149}}
  \cup {[p EXCEPT !.internal = n, !.contextual = n] : n \in {0, 4}}
  \cup {[p EXCEPT !.external = 0]}

\* The pages that have one of the faults.
Faulty(p) ==
  Entangled(p)
  \cup {[p EXCEPT !.schema_markup = <<>>, !.formats = {}],
        [p EXCEPT !.schema_markup = <<[Organization EXCEPT !.format = "microdata"]>>,
                  !.formats = {"microdata"}],
        [p EXCEPT !.schema_markup = <<Organization, [Organization EXCEPT !.type = "list"]>>]}
  \cup {[p EXCEPT !.word_count = 1500]}
  \cup {[p EXCEPT !.meta_description = n] : n \in {0, 69, 139, 161, 181}}
  \cup {[p EXCEPT !.canonical_url = c] : c \in {{}, {"declared", "relative"}}}
  \cup {[p EXCEPT !.robots_meta = {"noindex", "nofollow"}]}
  \cup {[p EXCEPT !.open_graph = @ \ {tag}] : tag \in {"og:image", "fb:app_id"}}
  \cup {[p EXCEPT !.twitter_cards = {"twitter:image"}]}
  \cup {[p EXCEPT !.social_links = 0], [p EXCEPT !.https = FALSE], [p EXCEPT !.ssl = "invalid"],
        [p EXCEPT !.language = FALSE], [p EXCEPT !.doctype = "none"], [p EXCEPT !.sitemap = "none"]}
  \cup {[p EXCEPT !.viewport = v] : v \in {"none", "partial"}}
  \cup {[p EXCEPT !.charset = c] : c \in {"none", "other"}}
  \cup {[p EXCEPT !.headers = @ \ {h}] : h \in {"content-security-policy", "content-encoding"}}
  \cup {[p EXCEPT !.headers = {}], [p EXCEPT !.hstsYear = FALSE]}
  \cup {[p EXCEPT !.robots_txt = {"rules"}], [p EXCEPT !.path = {"underscore", "long"}],
        [p EXCEPT !.path = {"missing"}], [p EXCEPT !.status_code = 302], [p EXCEPT !.hreflang = {"other"}]}
  \cup {[p EXCEPT !.word_count = 100, !.shop = TRUE], [p EXCEPT !.reading_time = 1000],
        [p EXCEPT !.paragraph_count = 3], [p EXCEPT !.text_html_ratio = 5], [p EXCEPT !.html_size = 300000],
        [p EXCEPT !.duplicate_group_size = 2], [p EXCEPT !.dates = FALSE],
        [p EXCEPT !.duplicates = {"title", "meta_description", "h1"}]}
  \cup {[p EXCEPT !.nofollow = 8], [p EXCEPT !.generic = 1],
        [p EXCEPT !.broken = 2], [p EXCEPT !.images.total = 0]}
  \cup {[p EXCEPT !.images.without_alt = n] : n \in {1, 3}}
  \cup {[p EXCEPT !.images.large = 1], [p EXCEPT !.images.undimensioned = 1], [p EXCEPT !.images.lazy = FALSE],
        [p EXCEPT !.images.srcset = FALSE], [p EXCEPT !.images.modern = FALSE], [p EXCEPT !.forms = 1]}
  \cup {[p EXCEPT !.response_time = ms] : ms \in {900, 5000}}
  \cup {[p EXCEPT !.minification = {"known", "html"}], [p EXCEPT !.resources = 60],
        [p EXCEPT !.total_size = 3000000], [p EXCEPT !.js_errors = 1],
        [p EXCEPT !.core_web_vitals.lcp = 3000]}
  \cup {[p EXCEPT !.keyword = [given |-> TRUE, found |-> {"body"}, inTitle |-> in]] : in \in BOOLEAN}

Pages == {Sound} \cup Faulty(Sound) \cup UNION {Entangled(p) : p \in Entangled(Sound)}
=============================================================================
