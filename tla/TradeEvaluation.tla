--------------------------- MODULE TradeEvaluation --------------------------
(***************************************************************************)
(* The pure functions that decide what a public trade or a closed one      *)
(* minute candle does to a signal: signals/lifecycle.py and                *)
(* signals/fallback.py. Prices are integers; a plan is the record of the   *)
(* immutable price levels of a signal. A function returns the sequence of  *)
(* statuses the signal is moved to, <<>> when nothing happens.             *)
(***************************************************************************)
EXTENDS Integers, Sequences

(* The stop price of a virtual trade: the plan's, or after TP1 the planned *)
(* entry shifted by the cost of a round trip (_fee_adjusted_breakeven).    *)
StopPrice(plan, stop) ==
  IF stop = "initial" THEN plan.stopLoss
  ELSE IF plan.direction = "long" THEN plan.plannedEntry + plan.roundTripCost
       ELSE plan.plannedEntry - plan.roundTripCost

BeyondStop(plan, stop, price) ==
  IF plan.direction = "long" THEN price <= StopPrice(plan, stop)
  ELSE price >= StopPrice(plan, stop)

TargetReached(plan, target, price) ==
  IF plan.direction = "long" THEN price >= target ELSE price <= target

(* evaluate_public_trade, one operator per status of the signal.           *)
EvaluateActive(plan, expires, price, time) ==
  IF time >= expires THEN <<"expired">>
  ELSE IF BeyondStop(plan, "initial", price) THEN <<"invalidated">>
  ELSE IF price \in plan.entryLower..plan.entryUpper THEN <<"entered">>
  ELSE <<>>

(* Faulty variant: TP2 is credited without passing TP1. *)
EvaluateEnteredDirectly(plan, stop, price) ==
  IF BeyondStop(plan, stop, price) THEN <<"stopped">>
  ELSE IF TargetReached(plan, plan.takeProfit2, price) THEN <<"tp2_completed">>
  ELSE IF TargetReached(plan, plan.takeProfit1, price) THEN <<"tp1_reached">>
  ELSE <<>>

EvaluateEntered(plan, stop, price) ==
  IF BeyondStop(plan, stop, price) THEN <<"stopped">>
  ELSE IF TargetReached(plan, plan.takeProfit2, price) THEN <<"tp1_reached", "tp2_completed">>
  ELSE IF TargetReached(plan, plan.takeProfit1, price) THEN <<"tp1_reached">>
  ELSE <<>>

EvaluateAfterTp1(plan, stop, price) ==
  IF BeyondStop(plan, stop, price) THEN <<"stopped_at_breakeven">>
  ELSE IF TargetReached(plan, plan.takeProfit2, price) THEN <<"tp2_completed">>
  ELSE <<>>

EvaluatePublicTrade(plan, expires, status, stop, price, time) ==
  CASE status = "active"      -> EvaluateActive(plan, expires, price, time)
    [] status = "entered"     -> EvaluateEntered(plan, stop, price)
    [] status = "tp1_reached" -> EvaluateAfterTp1(plan, stop, price)
    [] OTHER                  -> <<>>

-----------------------------------------------------------------------------
(* evaluate_closed_candle. A candle is its open time, its close time, and  *)
(* the lowest and highest price traded in between.                         *)
TouchesStop(plan, stop, candle) ==
  BeyondStop(plan, stop, IF plan.direction = "long" THEN candle.low ELSE candle.high)

TouchesTarget(plan, target, candle) ==
  TargetReached(plan, target, IF plan.direction = "long" THEN candle.high ELSE candle.low)

TouchesEntry(plan, candle) ==
  candle.low <= plan.entryUpper /\ candle.high >= plan.entryLower

(* A synthetic trade is executed just before the candle closes. *)
CandleActive(plan, expires, candle) ==
  IF candle.open >= expires \/ candle.close > expires THEN <<"expired">>
  ELSE IF ~TouchesEntry(plan, candle) THEN
    IF TouchesStop(plan, "initial", candle) THEN <<"invalidated">> ELSE <<>>
  ELSE IF TouchesStop(plan, "initial", candle) THEN <<"ambiguous">>
  ELSE EvaluateActive(plan, expires, plan.plannedEntry, candle.close - 1)

(* Faulty variants: the target is looked at before the stop, TP1 before    *)
(* TP2, or the synthetic trade of either target is executed at TP2.        *)
CandleEnteredTargetsFirst(plan, stop, candle) ==
  IF TouchesTarget(plan, plan.takeProfit2, candle)
  THEN EvaluateEntered(plan, stop, plan.takeProfit2)
  ELSE IF TouchesTarget(plan, plan.takeProfit1, candle)
  THEN EvaluateEntered(plan, stop, plan.takeProfit1)
  ELSE IF TouchesStop(plan, stop, candle)
  THEN EvaluateEntered(plan, stop, StopPrice(plan, stop))
  ELSE <<>>

CandleEnteredTp1First(plan, stop, candle) ==
  IF TouchesStop(plan, stop, candle)
  THEN IF TouchesTarget(plan, plan.takeProfit1, candle) THEN <<"ambiguous">>
       ELSE EvaluateEntered(plan, stop, StopPrice(plan, stop))
  ELSE IF TouchesTarget(plan, plan.takeProfit1, candle)
  THEN EvaluateEntered(plan, stop, plan.takeProfit1)
  ELSE <<>>

CandleEnteredAtTp2(plan, stop, candle) ==
  IF TouchesStop(plan, stop, candle)
  THEN IF TouchesTarget(plan, plan.takeProfit1, candle) THEN <<"ambiguous">>
       ELSE EvaluateEntered(plan, stop, StopPrice(plan, stop))
  ELSE IF TouchesTarget(plan, plan.takeProfit1, candle)
  THEN EvaluateEntered(plan, stop, plan.takeProfit2)
  ELSE <<>>

CandleEntered(plan, stop, candle) ==
  LET stopped == TouchesStop(plan, stop, candle)
      tp1     == TouchesTarget(plan, plan.takeProfit1, candle)
      tp2     == TouchesTarget(plan, plan.takeProfit2, candle)
  IN  IF stopped /\ (tp1 \/ tp2) THEN <<"ambiguous">>
      ELSE IF stopped THEN EvaluateEntered(plan, stop, StopPrice(plan, stop))
      ELSE IF tp2 THEN EvaluateEntered(plan, stop, plan.takeProfit2)
      ELSE IF tp1 THEN EvaluateEntered(plan, stop, plan.takeProfit1)
      ELSE <<>>

CandleAfterTp1(plan, stop, candle) ==
  LET stopped == TouchesStop(plan, stop, candle)
      tp2     == TouchesTarget(plan, plan.takeProfit2, candle)
  IN  IF stopped /\ tp2 THEN <<"ambiguous">>
      ELSE IF stopped THEN EvaluateAfterTp1(plan, stop, StopPrice(plan, stop))
      ELSE IF tp2 THEN EvaluateAfterTp1(plan, stop, plan.takeProfit2)
      ELSE <<>>

EvaluateClosedCandle(plan, expires, status, stop, candle) ==
  CASE status = "active"      -> CandleActive(plan, expires, candle)
    [] status = "entered"     -> CandleEntered(plan, stop, candle)
    [] status = "tp1_reached" -> CandleAfterTp1(plan, stop, candle)
    [] OTHER                  -> <<>>

-----------------------------------------------------------------------------
(* What a LifecycleAction carries besides its target: the new stop and the *)
(* new remaining quantity of the virtual trade, "keep" when None.          *)
(* Faulty variant: the stop is moved by the entry. *)
ActionStopAtEntry(target) == IF target = "entered" THEN "breakeven" ELSE "keep"

ActionStop(target) == IF target = "tp1_reached" THEN "breakeven" ELSE "keep"

ActionQuantity(target) ==
  CASE target = "tp1_reached" -> "half"
    [] target \in {"stopped", "stopped_at_breakeven", "tp2_completed", "ambiguous"} -> "none"
    [] OTHER -> "keep"
=============================================================================
