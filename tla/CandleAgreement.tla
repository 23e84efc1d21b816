--------------------------- MODULE CandleAgreement ---------------------------
(***************************************************************************)
(* The three ways a signal is moved, side by side: the trades one by one   *)
(* (signals/lifecycle.py), the closed candle of each minute at once        *)
(* (signals/fallback.py), and the replay of a candidate over its candles   *)
(* (replay/lifecycle.py), for the plans that risk.py makes and the         *)
(* strategy accepts. A candle does not know the order of its trades, so it *)
(* may be vague, but it must not be wrong.                                 *)
(***************************************************************************)
EXTENDS TradePlan, ReplayResolver, FiniteSets, SignalStates

CONSTANTS
  Setups,     \* setups plans are made from
  Lifetime,   \* minutes from the analysis until the signal expires
  MaxPath,    \* most trades in a minute
  MaxMinutes  \* minutes of trades

ASSUME CandleAssumption == {Lifetime, MaxPath, MaxMinutes} \subseteq Nat /\ Setups \subseteq TypedSetups

VARIABLES
  plan,
  minute,      \* since the analysis
  from,        \* status of the signal at the start of the minute
  path,        \* prices of the trades of the minute so far
  status,      \* of the signal, after these trades
  replayed,    \* state of the replay at the start of the minute
  possible,    \* history: what trades in any order within their minutes lead to
  jumped       \* history: the entry was jumped over

vars == <<plan, minute, from, path, status, replayed, possible, jumped>>

StopOf(s) == IF s = "tp1_reached" THEN "breakeven" ELSE "initial"

LastOf(acts, otherwise) == IF acts = <<>> THEN otherwise ELSE acts[Len(acts)]

(* The status after one more trade. *)
Traded(p, s, price) ==
  LastOf(EvaluatePublicTrade(p, Lifetime, s, StopOf(s), price, minute), s)

Least(S) == CHOOSE x \in S : \A y \in S : x <= y
Greatest(S) == CHOOSE x \in S : \A y \in S : y <= x
PricesOf(q) == {q[k] : k \in DOMAIN q}

CandleOf(q) ==
  [open |-> minute, close |-> minute + 1, first |-> q[1],
   low |-> Least(PricesOf(q)), high |-> Greatest(PricesOf(q))]

(* The status the candle of the minute leads to. *)
ByCandle == LastOf(EvaluateClosedCandle(plan, Lifetime, from, StopOf(from), CandleOf(path)), from)

(* The status after each trade of a path, and after all of them. *)
After(s, q) ==
  LET after[n \in 0..Len(q)] == IF n = 0 THEN s ELSE Traded(plan, after[n - 1], q[n])
  IN  after

ByTradesFrom(s, q) == After(s, q)[Len(q)]

Orders(q) ==
  LET n == Len(q)
  IN  {[k \in 1..n |-> q[f[k]]] :
         f \in {g \in [1..n -> 1..n] : \A j, k \in 1..n : j # k => g[j] # g[k]}}

(* An entry zone that no trade was executed in although the candle spans   *)
(* it: the candle counts it as touched, the trades do not.                 *)
GapOverEntry ==
  /\ TouchesEntry(plan, CandleOf(path))
  /\ PricesOf(path) \cap (plan.entryLower..plan.entryUpper) = {}

(* A stop that is reached on the other side of such a gap, in a minute     *)
(* that never comes back to the zone.                                      *)
StopWithoutEntry ==
  /\ ~TouchesEntry(plan, CandleOf(path))
  /\ TouchesStop(plan, "initial", CandleOf(path))

(* Prices on both sides of every level of the plan. *)
Prices ==
  LET step(price, n) == price + Toward(plan.direction, n)
  IN  {step(plan.stopLoss, -1), plan.stopLoss, step(plan.stopLoss, 1), plan.plannedEntry,
       step(plan.takeProfit1, -1), plan.takeProfit1, plan.takeProfit2}

Init ==
  /\ plan \in AcceptedPlans(Setups)
  /\ minute = 0 /\ path = <<>>
  /\ from = "active" /\ status = "active" /\ replayed = "waiting"
  /\ possible = {"active"} /\ jumped = FALSE

Trade(price) ==
  /\ Len(path) < MaxPath /\ minute < MaxMinutes
  /\ path' = Append(path, price)
  /\ status' = Traded(plan, status, price)
  /\ UNCHANGED <<plan, minute, from, replayed, possible, jumped>>

CandleCloses ==
  /\ path # <<>>
  /\ replayed' = ReplayCandle(plan, Lifetime, replayed, CandleOf(path))
  /\ possible' = {ByTradesFrom(s, q) : s \in possible, q \in Orders(path)}
  /\ jumped' = (jumped \/ (from = "active" /\ (GapOverEntry \/ StopWithoutEntry)))
  /\ minute' = minute + 1 /\ from' = status /\ path' = <<>>
  /\ UNCHANGED <<plan, status>>

Next == CandleCloses \/ \E price \in Prices : Trade(price)

Spec == Init /\ [][Next]_vars

-----------------------------------------------------------------------------
(* Where every order of the trades leads to the same status, the candle    *)
(* leads there too or declares the minute ambiguous: what is guessed is    *)
(* never what could have been known (evaluate_closed_candle against        *)
(* evaluate_public_trade).                                                 *)
AgreesWhenOrderIsIrrelevant ==
  path # <<>> /\ ~(from = "active" /\ GapOverEntry)
    /\ (\A q \in Orders(path) : ByTradesFrom(from, q) = status)
    => ByCandle \in {status, "ambiguous"}

(* The initial stop is never overlooked: when the trades stopped the       *)
(* signal out, or invalidated it, the candle closes it as well and credits *)
(* no target (the stop-first rules of evaluate_closed_candle).             *)
StopIsNeverMissed ==
  path # <<>> /\ status \in {"stopped", "invalidated"}
    => ByCandle \in {"stopped", "invalidated", "ambiguous"}

(* A target is credited only if some order of the trades reaches it with   *)
(* the position open: the candle never invents a profit.                   *)
ProfitIsPossible ==
  path # <<>> /\ ByCandle \in {"tp1_reached", "tp2_completed"} /\ ByCandle # from
    => \E q \in Orders(path) : \E n \in 1..Len(q) : ByTradesFrom(from, SubSeq(q, 1, n)) = ByCandle

(* The outcome that the replay has for a status of the signal. *)
OutcomeOf(s) ==
  CASE s = "active"               -> "waiting"
    [] s = "tp1_reached"          -> "after_tp1"
    [] s = "invalidated"          -> "invalidated_before_entry"
    [] s = "stopped_at_breakeven" -> "stopped_after_tp1"
    [] s = "tp2_completed"        -> "tp2"
    [] OTHER                      -> s

(* What a replay reports could have happened, and where the trades could   *)
(* only end in one way it reports that or an ambiguous outcome: over all   *)
(* minutes, unless the entry was jumped over (resolve_candidate against    *)
(* evaluate_public_trade).                                                 *)
ReplayIsPossible ==
  ~jumped /\ replayed \notin {"ambiguous_loss", "ambiguous_flat"}
    => replayed \in {OutcomeOf(s) : s \in possible}

Worth(s) ==
  CASE s \in {"stopped", "invalidated", "ambiguous"}   -> 0
    [] s \in {"active", "entered", "expired"}          -> 1
    [] s \in {"tp1_reached", "stopped_at_breakeven"}   -> 2
    [] s = "tp2_completed"                             -> 3

(* docs/signals.md: the candle fallback is deliberately conservative. The  *)
(* candle never leaves the signal better off than its trades did.          *)
FallbackIsConservative == path # <<>> /\ ~(from = "active" /\ GapOverEntry) => Worth(ByCandle) <= Worth(status)

(* docs/replay.md: ambiguous events are resolved stop-first or at zero PnL *)
(* and can never improve Profit Factor. What an ambiguous outcome counts   *)
(* for is never better than what the trades made of the signal.            *)
ReplayNeverImproves ==
  ~jumped /\ replayed \in {"ambiguous_loss", "ambiguous_flat"}
    => Profit(plan, FeeParts, replayed) <= Profit(plan, FeeParts, OutcomeOf(status))

(* requirements.md: after TP1 the stop moves to fee-adjusted breakeven. A  *)
(* trade that is stopped after TP1 has made a profit with its first half.  *)
BreakevenIsNoLoss ==
  replayed = "stopped_after_tp1" => Profit(plan, FeeParts, replayed) > 0
=============================================================================
