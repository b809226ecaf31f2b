\* Small sites under a cap of four or six pages and a depth of four, by three workers.
CONSTANTS
  Url = {"home", "a", "b", "c", "d", "e", "x", "y"}
  Sites <- SmallSites
  MaxDepth = 4
  DeepPage = 2
  MaxOutlinks = 2
  Concurrency = 3
  MaxExternal = 1
  MaxInternal = 1
SPECIFICATION Spec
INVARIANTS
  PageCapExact
  WholeUnlessSaid
  DepthsAreChains
  ReportIsTheSites
  FindingsAreTrue
PROPERTIES
  AnalysisEnds
