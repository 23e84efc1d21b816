---------------------------- MODULE SignalClaims -----------------------------
(***************************************************************************)
(* What the documents say about trade tracking and the code does not keep. *)
(* Each is checked by a run that expects a counterexample; the README says *)
(* how it comes about.                                                     *)
(***************************************************************************)
EXTENDS SignalGuarantees

Row(i, k) == events[i][k]
RowPairs(i) == {<<k, l>> \in (DOMAIN events[i]) \X (DOMAIN events[i]) : k < l}

(* docs/signals.md: every public trade is evaluated in exchange order. The *)
(* trades that move a signal are therefore in exchange order: none is      *)
(* older than the one that moved it before (_process_trade).               *)
EvaluatedInExchangeOrder ==
  \A i \in Signals : \A p \in RowPairs(i) :
    Row(i, p[1]).key[1] = "trade" /\ Row(i, p[2]).key[1] = "trade"
      => Row(i, p[1]).key[3] <= Row(i, p[2]).key[3]

TargetHitAfter(i, t, m) ==
  \E u \in TradesIn(SymbolOf[i], m) :
    u > t /\ TargetReached(Plan[i], Plan[i].takeProfit1, tape[SymbolOf[i]][u].price)

(* docs/signals.md: a target touched in the entry candle is not credited   *)
(* unless its order after entry is provable; here it is enough that it was *)
(* touched after the entry (_recover_with_candles, _minute_floor).         *)
TargetsFollowEntry ==
  \A i \in Signals : \A p \in RowPairs(i) :
    LET entry  == Row(i, p[1])
        credit == Row(i, p[2])
    IN  /\ entry.to = "entered" /\ entry.key[1] = "trade"
        /\ credit.to \in {"tp1_reached", "tp2_completed"} /\ credit.key[1] = "fallback"
        /\ MinuteOf(entry.time) = credit.key[3]
        => TargetHitAfter(i, entry.key[3], credit.key[3])

(* docs/signals.md: after the closed-candle range is processed, buffered   *)
(* public trades newer than that range are replayed and exact trade        *)
(* tracking resumes (the end of _recover_with_candles).                    *)
ExactTrackingResumes == \A s \in Symbols : Known(s) => Covered(s)

(* docs/signals.md: coverage is proven when REST reaches the anchor and    *)
(* shares a trade with the buffer, whatever the answer lacks otherwise     *)
(* (merge_trade_coverage).                                                 *)
OverlapProvesCoverage ==
  \A s \in Symbols : Known(s) /\ TradeByTrade(views[s].id) => Covered(s)

WasActive(i) == \E r \in Store!Rows(i) : r.to = "active"

(* requirements.md: entry is considered filled when Bybit market data      *)
(* first touches the entry zone before expiration. A signal that was       *)
(* active all the time does not expire when a trade did (_reconcile).      *)
EntryBeforeExpirationFills ==
  \A i \in Signals : status[i] = "expired" /\ WasActive(i) =>
    ~\E t \in 1..Len(tape[SymbolOf[i]]) :
       /\ Relevant(i, t) /\ TimeOf(SymbolOf[i], t) < Expires(i)
       /\ tape[SymbolOf[i]][t].price \in Plan[i].entryLower..Plan[i].entryUpper

(* docs/signals.md: a stream is considered ready only after its first      *)
(* trade has been buffered (_stream_ready, unsubscribe).                   *)
ReadyIsBuffered ==
  \A s \in streamReady : link[s] # "off" => buffer[s] # {}
=============================================================================
