---------------------------- MODULE SignalStates ----------------------------
(***************************************************************************)
(* The two state machines every lifecycle transition is validated against  *)
(* (signals/state_machine.py) and the two mappings the repository derives  *)
(* from the target status of a transition (db/repositories/signals.py).    *)
(***************************************************************************)

(* Statuses a tracked signal can have: ACTIVE_SIGNAL_STATUSES. *)
TrackingStatuses == {"preparing", "active", "entered", "tp1_reached"}

(* TERMINAL_SIGNAL_STATUSES: the status that resolves the virtual trade. *)
TerminalStatuses == {"expired", "invalidated", "stopped", "stopped_at_breakeven",
                     "tp2_completed", "ambiguous", "coverage_failed"}

SignalStatuses == TrackingStatuses \cup TerminalStatuses \cup {"suppressed"}

TradeStatuses == {"waiting_entry", "entered", "tp1_reached"} \cup TerminalStatuses

(* SIGNAL_TRANSITIONS as a set of <<from, to>> pairs. *)
SignalMoves ==
  ({"preparing"} \X {"active", "coverage_failed", "expired"})
    \cup ({"active"} \X {"entered", "expired", "invalidated", "ambiguous", "coverage_failed"})
    \cup ({"entered"} \X {"stopped", "tp1_reached", "ambiguous"})
    \cup ({"tp1_reached"} \X {"stopped_at_breakeven", "tp2_completed", "ambiguous"})

(* VIRTUAL_TRADE_TRANSITIONS as a set of <<from, to>> pairs. *)
VirtualTradeMoves ==
  ({"waiting_entry"} \X {"entered", "expired", "invalidated", "ambiguous", "coverage_failed"})
    \cup ({"entered"} \X {"stopped", "tp1_reached", "ambiguous"})
    \cup ({"tp1_reached"} \X {"stopped_at_breakeven", "tp2_completed", "ambiguous"})

(* Faulty variant: a failed activation is recorded as an expiry. *)
TargetWithoutCoverage(target) ==
  IF target \in {"preparing", "active"} THEN "unchanged"
  ELSE IF target \in {"suppressed", "coverage_failed"} THEN "expired" ELSE target

(* _virtual_trade_target: the status the virtual trade moves to with the   *)
(* signal. "unchanged" stands for None: preparing and active leave it.     *)
VirtualTradeTarget(target) ==
  IF target \in {"preparing", "active"} THEN "unchanged"
  ELSE IF target = "suppressed" THEN "coverage_failed" ELSE target

(* _notification_type: the outbox event a transition to target produces. *)
NotificationType(target) ==
  CASE target = "active"      -> "new_signal"
    [] target = "entered"     -> "entry_filled"
    [] target = "tp1_reached" -> "take_profit_1"
    [] target \in {"stopped", "stopped_at_breakeven", "tp2_completed"} -> "signal_result"
    [] target = "expired"     -> "signal_expired"
    [] target = "invalidated" -> "signal_invalidated"
    [] OTHER                  -> "signal_warning"
=============================================================================
