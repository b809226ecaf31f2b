\* Two pages race for the progress counter, two deliveries of the task overlap
\* or follow each other, and two things go wrong.
CONSTANTS
  Page = {p1, p2}
  Delivery = {d1, d2}
  MaxRetries = 1
  MaxFaults = 2
  MayRepeat = TRUE
  Nobody = Nobody
SPECIFICATION Spec
INVARIANTS
  AcceptedConfigKept
  ProgressNeverAhead
  AnalysisLostOnlyByFault
PROPERTIES
  ReopenedOnlyByConcurrentStart
  DeliveryEnds
\* The system may really stop: see CrawlTerminates.
CHECK_DEADLOCK FALSE
