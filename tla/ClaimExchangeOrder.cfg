SPECIFICATION Spec
CONSTANTS
  s1 = s1
  s2 = s2
  x = x
  y = y
  Signals <- OneSignal
  Symbols <- OneSymbol
  SymbolOf <- SymbolOfOne
  Plan <- PlanLong
  Prices = {4, 8}
  FirstPrice = 6
  Lifetime = 2
  MinuteTicks = 2
  RestLimit = 4
  RestLag = 0
  BufferSize = 4
  QueueSize = 2
  TradesPerTick = 4
  MaxTrades = 4
  MaxTime = 0
  MaxDisconnects = 0
  MaxCrashes = 0
INVARIANTS
  EvaluatedInExchangeOrder
