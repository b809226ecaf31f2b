\* Two URLs checked side by side, a first execution and one more, two faults.
CONSTANTS
  Url = {u1, u2}
  Limit = 2
  MaxExecutions = 2
  MaxFaults = 2
SPECIFICATION LiveSpec
INVARIANTS
  CompletedMeansStored
PROPERTIES
  CheckEndsOrExhausted
\* A check ends.
CHECK_DEADLOCK FALSE
