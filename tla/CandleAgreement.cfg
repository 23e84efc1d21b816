SPECIFICATION Spec
CONSTANTS
  Setups <- SomeSetups
  Lifetime = 3
  MaxPath = 3
  MaxMinutes = 4
  FeeParts = 50
  StopBufferPercent = 10
  Tp1Percent = 150
  MinimumRatio = 3
  RiskAmount = 300
INVARIANTS
  AgreesWhenOrderIsIrrelevant
  StopIsNeverMissed
  ProfitIsPossible
  ReplayIsPossible
CHECK_DEADLOCK FALSE
