\* A site without sitemap URLs, one delivery and no failure of anything.
CONSTANTS
  Page = {p1, p2}
  Delivery = {d1}
  MaxRetries = 1
  MaxFaults = 0
  MayRepeat = FALSE
  Nobody = Nobody
SPECIFICATION Spec
PROPERTY CrawlTerminates
CHECK_DEADLOCK FALSE
