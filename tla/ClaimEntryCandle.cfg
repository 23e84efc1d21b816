SPECIFICATION Spec
CONSTANTS
  s1 = s1
  s2 = s2
  x = x
  y = y
  Signals <- OneSignal
  Symbols <- OneSymbol
  SymbolOf <- SymbolOfOne
  Plan <- PlanLong
  Prices = {4, 8}
  FirstPrice = 6
  Lifetime = 4
  MinuteTicks = 2
  RestLimit = 1
  RestLag = 0
  BufferSize = 4
  QueueSize = 2
  TradesPerTick = 1
  MaxTrades = 5
  MaxTime = 4
  MaxDisconnects = 0
  MaxCrashes = 1
INVARIANTS
  TargetsFollowEntry
