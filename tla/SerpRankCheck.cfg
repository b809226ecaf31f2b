\* One check, the task with its three retries, the sweeper, two deliveries of the
\* preview, three failures.
CONSTANTS
  Preview = {v1, v2}
  MaxRetries = 3
  MaxFaults = 3
SPECIFICATION Spec
PROPERTIES
  NoCallOnceAnswered
  ResultFailedOnlyBySweeper
  OverturnedOnlyByLateSession
  OnlyLostMessageStrands
\* A check ends.
CHECK_DEADLOCK FALSE
