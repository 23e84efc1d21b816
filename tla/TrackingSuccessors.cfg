SPECIFICATION FairSpec
CONSTANTS
  s1 = s1
  s2 = s2
  x = x
  y = y
  Signals <- TwoSignals
  Symbols <- OneSymbol
  SymbolOf <- SymbolOfOne
  Plan <- PlanLong
  Prices = {4, 10}
  FirstPrice = 6
  Lifetime = 1
  MinuteTicks = 2
  RestLimit = 4
  RestLag = 0
  BufferSize = 2
  QueueSize = 1
  TradesPerTick = 2
  MaxTrades = 3
  MaxTime = 2
  MaxDisconnects = 1
  MaxCrashes = 0
INVARIANTS
  MemoryMatchesRows
PROPERTIES
  PreparingResolves
  BackpressureEnds
