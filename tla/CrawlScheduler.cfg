\* Two workers with a budget of three pages on a site of four pages and one of a subdomain:
\* on 21 sites, that differ in robots.txt, sitemaps, links and in what the caller
\* preselected.  No symmetry: the run checks liveness.
CONSTANTS
  Url <- MCUrl
  Address <- MCAddress
  Worker = {w1, w2}
  Seed = "home"
  Base <- Apex
  Ignored <- MCIgnored
  Eligible <- MCEligible
  Crawlable <- MCCrawlable
  Subdomain <- MCSubdomain
  Pattern <- MCPattern
  Site <- MCSite
  RobotsText <- MCRobotsText
  References <- MCReferences
  Files <- MCFiles
  Page <- MCPage
  Chosen <- MCChosen
  MultiSuffix <- MCMultiSuffix
  IgnoredPath = {"cart", "login"}
  IgnoredPrefix = {"cart"}
  ResourceExt = {".pdf", ".css"}
  KnownAs = {"bot"}
  Sitemap <- MCSitemap
  CommonPaths <- MCCommonPaths
  MAX_SITEMAP_INDEX_DEPTH = 2
  MAX_CHILD_SITEMAPS = 4
  MAX_PAGE_URLS = 4
  MaxPages = 3
  MaxDepth = 2
  MayCancel = TRUE
  NoUrl = "none"
SPECIFICATION LoopSpec
INVARIANTS
  CrawlFollowsSite
  SiteIsRead
PROPERTIES
  ImplementsFrontier
  Terminates
