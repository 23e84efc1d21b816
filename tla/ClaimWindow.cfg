SPECIFICATION Spec
CONSTANTS
  Users = {1}
  Notes <- TwoNotes
  NewSignals <- FirstIsSignal
  ScoreOf <- Scores
  MaxAttempts = 2
  BatchSize = 1
  RetryBase = 1
  StaleAfter = 1
  RetryAfters = {0}
  DayTicks = 2
  Schedules <- Morning
  Thresholds = {70, 90}
  MaxTime = 3
  MaxCrashes = 1
  MaxChanges = 1
PROPERTY NewSignalsInsideWindow
CHECK_DEADLOCK FALSE
