SPECIFICATION FairSpec
CONSTANTS
  Timeframes = {2}
  Horizon = 4
  MaxVersion = 2
  BackfillBatch = 2
  SourceBatch = 2
  JobBatch = 2
  StaleAfter = 1
  RetryDelays = {0}
  StartTime = 1
  MaxTime = 3
  MaxFaults = 1
PROPERTY RebuildResumes
