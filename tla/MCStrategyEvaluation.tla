------------------------- MODULE MCStrategyEvaluation -------------------------
(* StrategyEvaluation with candles that displace up and down, leave gaps   *)
(* and fill them, and one that only reaches down with a wick, in a few     *)
(* contexts.                                                               *)
EXTENDS StrategyEvaluation

Candle(open, high, low, close) ==
  [open |-> open, high |-> high, low |-> low, close |-> close]

FewShapes ==
  {Candle(3, 3, 1, 1), Candle(1, 1, 0, 0), Candle(3, 6, 3, 6),
   Candle(6, 7, 5, 5), Candle(2, 4, 0, 3)}

Bullish == [h4 |-> "bullish", h1 |-> "none", locations |-> {"discount"},
            highs |-> {9}, lows |-> {0}, price |-> 3, confirmed |-> {"bullish"},
            crowded |-> {}, filtered |-> FALSE, volume |-> TRUE, interest |-> TRUE,
            abnormal |-> FALSE]

FewContexts ==
  {Bullish,
   [Bullish EXCEPT !.h4 = "bearish", !.confirmed = {"bullish", "bearish"}, !.price = 4,
                   !.locations = {"premium"}, !.interest = FALSE],
   [Bullish EXCEPT !.h4 = "none", !.h1 = "bearish", !.confirmed = {"bearish"},
                   !.locations = {"premium", "discount"}, !.price = 5, !.highs = {}, !.lows = {0}],
   [Bullish EXCEPT !.h1 = "bullish", !.crowded = {"long"}, !.abnormal = TRUE]}
=============================================================================
