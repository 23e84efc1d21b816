--------------------------- MODULE MCSignalStore ----------------------------
(* SignalStore with two signals on one symbol and any caller.              *)
EXTENDS SignalStore, TLC

CONSTANTS s1, s2, symbol, k1, k2, k3, k4

MCSignals == {s1, s2}
MCSymbols == {symbol}
MCSymbolOf == [i \in MCSignals |-> symbol]
MCKeys == {k1, k2, k3, k4}
KeySymmetry == Permutations(MCKeys)
=============================================================================
