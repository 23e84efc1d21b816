SPECIFICATION FairSpec
CONSTANTS
  Symbols = {btc, alt}
  FirstUniverse = {btc}
  Horizon = 3
  QueueSize = 1
  BackfillBatch = 1
  StartTime = 1
  MaxTime = 3
  MaxRefreshes = 1
  MaxFaults = 1
INVARIANTS
  ReadyIsComplete
  RecoveredIsStored
  DroppedIsOffline
PROPERTIES
  CatchesUp
