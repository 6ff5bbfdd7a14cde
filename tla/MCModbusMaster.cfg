CONSTANTS
  MaxTelegrams = 2
  MaxQueries = 4
  MaxNoise = 1
  MaxOverruns = 1
  MaxRefused = 1
SPECIFICATION FairSpec
INVARIANTS
  OneQueryOutstanding
  TimeoutBelongsToQuery
  OwnAnswer
PROPERTIES
  AnswersServeOnce
  MasterReturns
CHECK_DEADLOCK FALSE
