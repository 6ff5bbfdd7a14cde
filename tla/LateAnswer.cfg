CONSTANTS
  MaxTelegrams = 2
  MaxQueries = 2
  MaxNoise = 0
  MaxOverruns = 0
  MaxRefused = 0
SPECIFICATION Spec
INVARIANT OkMeansDone
CHECK_DEADLOCK FALSE
