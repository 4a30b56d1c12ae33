\* Every setting of the two switches, every crash and signal. One worker, the sensor's
\* retrainer and one command-line retrainer; two runs and one failure or restart at any point.
SPECIFICATION MCSpec
CONSTANTS
  Nobody = Nobody
  Workers = {w1}
  Daily = daily
  Manual = {cli}
  MaxRuns = 2
  MaxFailures = 1
  None = None
INVARIANTS
  NoOrphan
  OneBundle
  MixNeedsBrokenSave
PROPERTIES
  CrashShownOffline
  ShutdownCompletes
  RetrainServed
\* The supervisor and its children really end.
CHECK_DEADLOCK FALSE
