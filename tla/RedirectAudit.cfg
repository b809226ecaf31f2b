\* Sites of five URLs and a foreign one, under a budget of four pages, a depth of two and two hops.
CONSTANTS
  Url = {"home", "a", "b", "c", "d", "x"}
  Sites <- SmallSites
  MaxUrls = 4
  MaxCrawlDepth = 2
  MaxHops = 2
  Batch = 2
  MaxFaults = 1
SPECIFICATION Spec
INVARIANTS
  DiscoveryIsWhole
  RebuiltAsWalked
  VerdictIsTrue
  EndIsWhole
PROPERTIES
  VerdictStands
