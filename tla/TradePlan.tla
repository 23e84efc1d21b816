------------------------------ MODULE TradePlan ------------------------------
(***************************************************************************)
(* build_trade_plan (strategy/risk.py): from a setup - an entry zone, the  *)
(* ATR and a liquidity target - to the price levels and the size of a      *)
(* trade, or to the reason there is none.                                  *)
(*                                                                         *)
(* Decimals are exact, and so is this: the fee of a value is one           *)
(* FeeParts-th of it, and what depends on fees is kept FeeParts times as   *)
(* large. Leverage and margin are for display and left out.                *)
(***************************************************************************)
EXTENDS Integers

CONSTANTS
  FeeParts,            \* 1 / fee_rate
  StopBufferPercent,   \* stop_atr_buffer
  Tp1Percent,          \* take_profit_1_r_multiple
  MinimumRatio,        \* minimum_net_reward_to_risk
  RiskAmount

ASSUME PlanAssumption ==
  /\ {FeeParts, MinimumRatio, RiskAmount} \subseteq Nat \ {0}
  /\ FeeParts > 1 /\ {StopBufferPercent, Tp1Percent} \subseteq Nat

(* What a setup is made of.                                                *)
TypedSetups ==
  [direction : {"long", "short"}, entryLower : Int, entryUpper : Int, atr : Int, target : Int,
   step : Nat \ {0}, minimumNotional : Nat]

(* A distance in the direction of the trade, as a difference of prices. *)
Toward(direction, distance) == IF direction = "long" THEN distance ELSE -distance

PlannedEntry(s) == (s.entryLower + s.entryUpper) \div 2

StopLoss(s) ==
  LET buffer == (s.atr * StopBufferPercent) \div 100
  IN  IF s.direction = "long" THEN s.entryLower - buffer ELSE s.entryUpper + buffer

Risk(s) == Toward(s.direction, PlannedEntry(s) - StopLoss(s))
Reward(s) == Toward(s.direction, s.target - PlannedEntry(s))

NetRisk(s) == Risk(s) * FeeParts + PlannedEntry(s) + StopLoss(s)
NetReward(s) == Reward(s) * FeeParts - PlannedEntry(s) - s.target

Quantity(s) == ((RiskAmount * FeeParts) \div (NetRisk(s) * s.step)) * s.step

(* The first reason not to trade, in the order of the early returns.       *)
Refusal(s) ==
  IF s.entryLower <= 0 \/ s.entryUpper <= s.entryLower \/ s.atr <= 0 THEN "invalid_entry_zone"
  ELSE IF StopLoss(s) <= 0 \/ Risk(s) <= 0 THEN "invalid_stop_loss"
  ELSE IF Reward(s) <= 0 THEN "no_directional_liquidity_target"
  ELSE IF NetReward(s) <= 0 THEN "fees_consume_reward"
  ELSE IF Quantity(s) <= 0 THEN "quantity_below_exchange_minimum"
  ELSE IF Quantity(s) * PlannedEntry(s) < s.minimumNotional THEN "notional_below_exchange_minimum"
  ELSE "none"

(* _fee_adjusted_breakeven: the exit that pays the fees of both sides is   *)
(* no whole price; a price is beyond it when it is beyond the last whole   *)
(* one before it.                                                          *)
RoundTripCost(s) ==
  (2 * PlannedEntry(s)) \div (IF s.direction = "long" THEN FeeParts - 1 ELSE FeeParts + 1)

Plan(s) ==
  [direction     |-> s.direction,
   entryLower    |-> s.entryLower,
   entryUpper    |-> s.entryUpper,
   plannedEntry  |-> PlannedEntry(s),
   stopLoss      |-> StopLoss(s),
   takeProfit1   |-> PlannedEntry(s) + Toward(s.direction, (Risk(s) * Tp1Percent) \div 100),
   takeProfit2   |-> s.target,
   roundTripCost |-> RoundTripCost(s),
   quantity      |-> Quantity(s)]

(* The end of _evaluate_direction: the plan of a candidate is followed     *)
(* only when its reward is worth the risk.                                 *)
WorthTheRisk(s) == NetReward(s) >= MinimumRatio * NetRisk(s)

AcceptedPlans(setups) == {Plan(s) : s \in {t \in setups : Refusal(t) = "none" /\ WorthTheRisk(t)}}
=============================================================================
