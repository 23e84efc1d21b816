SPECIFICATION Spec
CONSTANTS
  s1 = s1
  s2 = s2
  x = x
  y = y
  Signals <- OneSignal
  Symbols <- OneSymbol
  SymbolOf <- SymbolOfOne
  Plan <- PlanLong
  Prices = {4, 10}
  FirstPrice = 6
  Lifetime = 2
  MinuteTicks = 2
  RestLimit = 3
  RestLag = 2
  BufferSize = 2
  QueueSize = 2
  TradesPerTick = 4
  MaxTrades = 4
  MaxTime = 2
  MaxDisconnects = 1
  MaxCrashes = 1
INVARIANTS
  NoIllegalTransition
  NothingMissed
  NothingSkippedBelowCheckpoint
