\* Two pages that two executions store in either order, one that is ignored, and two
\* faults: enough for an execution to outlive its task and for a stage or a page of
\* either to fail.
CONSTANTS
  Page = {p, q, r}
  Bare = {}
  Ignored = {r}
  MaxExecutions = 2
  MaxFaults = 2
  NoPage = NoPage
SPECIFICATION LiveSpec
INVARIANTS
  CleanRunCovers
PROPERTIES
  SavedShrinksOnlyByOverlap
  ExecutionEnds
\* An audit comes to rest.
CHECK_DEADLOCK FALSE
