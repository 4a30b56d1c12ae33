\* The heartbeat that a dead engine left.
SPECIFICATION MCSpec
CONSTANTS
  Nobody = Nobody
  Workers = {w1}
  Daily = daily
  Manual = {cli}
  MaxRuns = 2
  MaxFailures = 1
  None = None
PROPERTY StaleShownOffline
\* The supervisor and its children really end.
CHECK_DEADLOCK FALSE
