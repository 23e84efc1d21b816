SPECIFICATION Spec
CONSTANTS
  s1 = s1
  s2 = s2
  x = x
  y = y
  Signals <- TwoSignals
  Symbols <- OneSymbol
  SymbolOf <- SymbolOfOne
  Plan <- PlanLong
  Prices = {4, 8}
  FirstPrice = 6
  Lifetime = 2
  MinuteTicks = 2
  RestLimit = 4
  RestLag = 0
  BufferSize = 4
  QueueSize = 2
  TradesPerTick = 4
  MaxTrades = 3
  MaxTime = 2
  MaxDisconnects = 0
  MaxCrashes = 0
INVARIANTS
  EntryBeforeExpirationFills
  ReadyIsBuffered
