SPECIFICATION Spec
CONSTANTS
  s1 = s1
  s2 = s2
  x = x
  y = y
  Signals <- OneSignal
  Symbols <- OneSymbol
  SymbolOf <- SymbolOfOne
  Plan <- PlanShort
  Prices = {4, 8, 12}
  FirstPrice = 6
  Lifetime = 4
  MinuteTicks = 1
  RestLimit = 2
  RestLag = 0
  BufferSize = 4
  QueueSize = 2
  TradesPerTick = 1
  MaxTrades = 5
  MaxTime = 4
  MaxDisconnects = 1
  MaxCrashes = 0
INVARIANTS
  NothingLeftBehind
PROPERTIES
  PositionConsistent
