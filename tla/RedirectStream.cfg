\* One URL, two executions that may overlap, a client that gives up after two empty polls,
\* two faults.
CONSTANTS
  Url = {u1}
  MaxExecutions = 2
  MaxPollFailures = 2
  MaxFaults = 2
SPECIFICATION LiveSpec
INVARIANTS
  ClosedStreamHasResult
PROPERTIES
  StreamCloses
\* A check and its stream end.
CHECK_DEADLOCK FALSE
