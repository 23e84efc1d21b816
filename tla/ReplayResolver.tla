---------------------------- MODULE ReplayResolver ----------------------------
(***************************************************************************)
(* resolve_candidate (replay/lifecycle.py): what a replay makes of an      *)
(* accepted candidate from the 1m candles after it, one candle at a time.  *)
(* It is "waiting", "entered", "after_tp1" or has an outcome; an ambiguous *)
(* one counts as a loss or as nothing.                                     *)
(***************************************************************************)
EXTENDS TradeEvaluation

GappedBeyondStop(plan, candle) ==
  IF plan.direction = "long" THEN candle.first < plan.stopLoss ELSE candle.first > plan.stopLoss

ReplayWaiting(plan, expires, candle) ==
  IF candle.open >= expires THEN "expired"
  ELSE IF GappedBeyondStop(plan, candle) THEN "invalidated_before_entry"
  ELSE IF ~TouchesEntry(plan, candle) THEN "waiting"
  ELSE IF TouchesStop(plan, "initial", candle) THEN "ambiguous_loss"
  ELSE IF TouchesTarget(plan, plan.takeProfit1, candle) THEN "ambiguous_flat"
  ELSE "entered"

(* Faulty variant: the stop is not moved at TP1. *)
ReplayEnteredStopKept(plan, replayed, candle) ==
  LET stopped == TouchesStop(plan, "initial", candle)
  IN  CASE stopped -> "stopped"
        [] ~stopped /\ TouchesTarget(plan, plan.takeProfit2, candle) -> "tp2"
        [] OTHER -> IF TouchesTarget(plan, plan.takeProfit1, candle) THEN "after_tp1" ELSE replayed

ReplayEntered(plan, replayed, candle) ==
  LET stopped == TouchesStop(plan, IF replayed = "entered" THEN "initial" ELSE "breakeven", candle)
      tp1 == replayed = "entered" /\ TouchesTarget(plan, plan.takeProfit1, candle)
      tp2 == TouchesTarget(plan, plan.takeProfit2, candle)
  IN  CASE stopped /\ (tp1 \/ tp2) -> "ambiguous_loss"
        [] stopped /\ ~(tp1 \/ tp2) -> IF replayed = "entered" THEN "stopped" ELSE "stopped_after_tp1"
        [] ~stopped /\ tp2 -> "tp2"
        [] ~stopped /\ ~tp2 /\ tp1 -> "after_tp1"
        [] OTHER -> replayed

ReplayCandle(plan, expires, replayed, candle) ==
  CASE replayed = "waiting"                  -> ReplayWaiting(plan, expires, candle)
    [] replayed \in {"entered", "after_tp1"} -> ReplayEntered(plan, replayed, candle)
    [] OTHER                                 -> replayed

-----------------------------------------------------------------------------
(* The profit of an outcome (_stopped_outcome, _target_outcome,            *)
(* _flat_outcome) for fees of one parts-th, 2 * parts times as large: half *)
(* of the quantity is closed at TP1, and the half that is closed at        *)
(* breakeven just pays its fees.                                           *)
Leg(plan, parts, price) ==
  (IF plan.direction = "long" THEN price - plan.plannedEntry ELSE plan.plannedEntry - price) * parts
  - plan.plannedEntry - price

Profit(plan, parts, outcome) ==
  plan.quantity *
    CASE outcome \in {"stopped", "ambiguous_loss"} -> 2 * Leg(plan, parts, plan.stopLoss)
      [] outcome = "stopped_after_tp1" -> Leg(plan, parts, plan.takeProfit1)
      [] outcome = "tp2" -> Leg(plan, parts, plan.takeProfit1) + Leg(plan, parts, plan.takeProfit2)
      [] OTHER -> 0
=============================================================================
