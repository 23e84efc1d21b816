-------------------------- MODULE MCSignalTracking --------------------------
(* SignalTracking with long or short signals on one or two symbols.               *)
EXTENDS SignalClaims, TLC

CONSTANTS s1, s2, x, y

LongPlan == [direction |-> "long", stopLoss |-> 1, entryLower |-> 3, entryUpper |-> 5,
             plannedEntry |-> 4, takeProfit1 |-> 8, takeProfit2 |-> 10, roundTripCost |-> 1]
ShortPlan == [direction |-> "short", stopLoss |-> 11, entryLower |-> 7, entryUpper |-> 9,
              plannedEntry |-> 8, takeProfit1 |-> 4, takeProfit2 |-> 2, roundTripCost |-> 1]

OneSignal == {s1}
TwoSignals == {s1, s2}
OneSymbol == {x}
TwoSymbols == {x, y}
SymbolOfTwo == s1 :> x @@ s2 :> y
SymbolOfOne == [i \in {s1, s2} \cap Signals |-> x]
PlanLong == [i \in Signals |-> LongPlan]
PlanShort == [i \in Signals |-> ShortPlan]
=============================================================================
