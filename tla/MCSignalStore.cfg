SPECIFICATION StoreSpec
CONSTANTS
  s1 = s1
  s2 = s2
  symbol = symbol
  k1 = k1
  k2 = k2
  k3 = k3
  k4 = k4
  Signals <- MCSignals
  Symbols <- MCSymbols
  SymbolOf <- MCSymbolOf
  Keys <- MCKeys
  Positions = {1, 2}
  Times = {1}
SYMMETRY KeySymmetry
INVARIANTS
  RowsAgree
  HistoryIsPath
  OneTrackedPerSymbol
PROPERTY ClosedIsFinal
CHECK_DEADLOCK FALSE
