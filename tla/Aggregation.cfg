SPECIFICATION FairSpec
CONSTANTS
  Timeframes = {2}
  Horizon = 4
  MaxVersion = 2
  BackfillBatch = 2
  SourceBatch = 2
  JobBatch = 2
  StaleAfter = 0
  RetryDelays = {0}
  StartTime = 3
  MaxTime = 4
  MaxFaults = 1
INVARIANTS
  CheckpointCovered
  AggregateOrJob
PROPERTIES
  JobsEnd
