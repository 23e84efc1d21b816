---------------------------- MODULE SignalStore -----------------------------
(***************************************************************************)
(* The durable side of a signal: the rows of signals, virtual_trades,      *)
(* signal_events and notification_outbox, and the transactions of          *)
(* SignalRepository that change them. One action is one committed          *)
(* transaction; a rolled back transaction changes nothing. The specification*)
(* lets any caller ask for any transition at any time, so what it promises *)
(* holds whatever the lifecycle service does.                              *)
(***************************************************************************)
EXTENDS Integers, Sequences, SignalStates

CONSTANTS
  Signals,     \* identities of the candidates that are turned into signals
  Symbols,     \* exchange symbols
  SymbolOf,    \* the symbol of each signal
  Keys,        \* idempotency keys of signal_events
  Positions,   \* positions of public trades in exchange order
  Times        \* instants

ASSUME StoreAssumption ==
  /\ SymbolOf \in [Signals -> Symbols]
  /\ Positions \subseteq Nat \ {0}
  /\ Times \subseteq Nat

VARIABLES
  status,       \* signals.status, "absent" before the row exists
  tradeStatus,  \* virtual_trades.status, "absent" when there is no row
  currentStop,  \* virtual_trades.current_stop: the initial or the breakeven stop
  remaining,    \* virtual_trades.remaining_quantity: "full", "half" or "none"
  checkpoint,   \* virtual_trades.last_trade_*: a position, 0 when NULL
  createdAt,    \* signals.created_at
  events,       \* signal_events of each signal, in commit order
  outbox        \* notification_outbox rows, as <<signal, key, type>>

storeVars == <<status, tradeStatus, currentStop, remaining, checkpoint, createdAt,
               events, outbox>>

Stops == {"initial", "breakeven"}
Quantities == {"full", "half", "none"}

(* status_from is NULL ("absent") in the row that publishes the signal. *)
EventRows == [key : Keys, from : SignalStatuses \cup {"absent"}, to : SignalStatuses, time : Times]

Rows(i) == {events[i][k] : k \in DOMAIN events[i]}
UsedKeys == UNION {{r.key : r \in Rows(i)} : i \in Signals}

(* Faulty variant: a signal that still waits for coverage is overlooked. *)
ActiveOn(s) == {i \in Signals : SymbolOf[i] = s /\ status[i] \in TrackingStatuses \ {"preparing"}}
Tracked(s) == {i \in Signals : SymbolOf[i] = s /\ status[i] \in TrackingStatuses}

StoreInit ==
  /\ status = [i \in Signals |-> "absent"]
  /\ tradeStatus = [i \in Signals |-> "absent"]
  /\ currentStop = [i \in Signals |-> "initial"]
  /\ remaining = [i \in Signals |-> "full"]
  /\ checkpoint = [i \in Signals |-> 0]
  /\ createdAt = [i \in Signals |-> 0]
  /\ events = [i \in Signals |-> <<>>]
  /\ outbox = {}

-----------------------------------------------------------------------------
(* The optional arguments of apply_transition: "keep" stands for None.     *)
Updated(column, i, value) ==
  IF value = "keep" THEN column ELSE [column EXCEPT ![i] = value]

(* Faulty variant: status_from is read after the new status was assigned. *)
RowReadLate(i, key, to, time) == [key |-> key, from |-> to, to |-> to, time |-> time]

(* The row of signal_events that publishes or moves signal i.              *)
EventRow(i, key, to, time) == [key |-> key, from |-> status[i], to |-> to, time |-> time]

(* The row of signal_events that names a status and changes none.          *)
TrackingRow(key, at, time) == [key |-> key, from |-> at, to |-> at, time |-> time]

(* The outbox row of a transition. *)
Notified(i, key, target) == outbox \cup {<<i, key, NotificationType(target)>>}

(* publish_candidates for one candidate. The advisory lock makes the read  *)
(* of the tracked signals and the insert one step; a candidate whose symbol*)
(* has a tracked signal is stored as suppressed, and so is one that another*)
(* policy rule rejects. No virtual trade is created for it.                *)
Publish(i, key, allowed, now) ==
  /\ status[i] = "absent"
  /\ key \notin UsedKeys
  /\ allowed => Tracked(SymbolOf[i]) = {}
  /\ LET new == IF allowed THEN "preparing" ELSE "suppressed"
     IN /\ status' = [status EXCEPT ![i] = new]
        /\ events' = [events EXCEPT ![i] = Append(@, EventRow(i, key, new, now))]
  /\ tradeStatus' = IF allowed THEN [tradeStatus EXCEPT ![i] = "waiting_entry"] ELSE tradeStatus
  /\ createdAt' = [createdAt EXCEPT ![i] = now]
  /\ UNCHANGED <<currentStop, remaining, checkpoint, outbox>>

(* Faulty variant: only the machine of the virtual trade is consulted. *)
TradeAllows(i, target) ==
  VirtualTradeTarget(target) # "unchanged"
    => <<tradeStatus[i], VirtualTradeTarget(target)>> \in VirtualTradeMoves

(* transition_signal and transition_virtual_trade accept the target: when  *)
(* they do not they raise and the transaction is rolled back.              *)
TransitionAllowed(i, target) ==
  /\ <<status[i], target>> \in SignalMoves
  /\ VirtualTradeTarget(target) # "unchanged"
       => <<tradeStatus[i], VirtualTradeTarget(target)>> \in VirtualTradeMoves

(* apply_transition with a fresh key: both rows, the event and the outbox  *)
(* row are written by one transaction. stop and quantity are its           *)
(* current_stop and remaining_quantity.                                    *)
ApplyTransition(i, target, key, time, stop, quantity) ==
  /\ key \notin UsedKeys
  /\ TransitionAllowed(i, target)
  /\ status' = [status EXCEPT ![i] = target]
  /\ tradeStatus' = IF VirtualTradeTarget(target) = "unchanged" THEN tradeStatus
                    ELSE [tradeStatus EXCEPT ![i] = VirtualTradeTarget(target)]
  /\ currentStop' = Updated(currentStop, i, stop)
  /\ remaining' = Updated(remaining, i, quantity)
  /\ events' = [events EXCEPT ![i] = Append(@, EventRow(i, key, target, time))]
  /\ outbox' = Notified(i, key, target)
  /\ UNCHANGED <<checkpoint, createdAt>>

(* checkpoint_trade: a trade that is not newer than the stored one is      *)
(* rejected. The order of (executed_at, sequence, trade_id) is the order   *)
(* of positions.                                                           *)
CheckpointTrade(i, position) ==
  /\ tradeStatus[i] # "absent"
  /\ checkpoint' = IF position <= checkpoint[i] THEN checkpoint
                   ELSE [checkpoint EXCEPT ![i] = position]
  /\ UNCHANGED <<status, tradeStatus, currentStop, remaining, createdAt, events, outbox>>

(* record_tracking_event: a row that changes no status; a known key is a   *)
(* no-op. The status is read without a lock on the row of the signal and   *)
(* written later, so the row names the status the signal has at the commit *)
(* or any that it had before: between the two, transitions may commit.     *)
RecordTrackingEvent(i, key, time, read) ==
  /\ read \in {r.to : r \in Rows(i)}
  /\ events' = IF key \in UsedKeys THEN events
               ELSE [events EXCEPT ![i] = Append(@, TrackingRow(key, read, time))]
  /\ UNCHANGED <<status, tradeStatus, currentStop, remaining, checkpoint, createdAt, outbox>>

StoreNext ==
  \E i \in Signals :
    \/ \E key \in Keys, allowed \in BOOLEAN, now \in Times : Publish(i, key, allowed, now)
    \/ \E key \in Keys, target \in SignalStatuses, time \in Times,
          stop \in Stops \cup {"keep"}, quantity \in Quantities \cup {"keep"} :
         ApplyTransition(i, target, key, time, stop, quantity)
    \/ \E position \in Positions : CheckpointTrade(i, position)
    \/ \E key \in Keys, time \in Times, read \in SignalStatuses :
         RecordTrackingEvent(i, key, time, read)

StoreSpec == StoreInit /\ [][StoreNext]_storeVars

-----------------------------------------------------------------------------
StoreTypeOK ==
  /\ status \in [Signals -> SignalStatuses \cup {"absent"}]
  /\ tradeStatus \in [Signals -> TradeStatuses \cup {"absent"}]
  /\ currentStop \in [Signals -> Stops]
  /\ remaining \in [Signals -> Quantities]
  /\ checkpoint \in [Signals -> Positions \cup {0}]
  /\ createdAt \in [Signals -> Times \cup {0}]
  /\ events \in [Signals -> Seq(EventRows)]
  /\ outbox \subseteq Signals \X Keys \X
       {NotificationType(t) : t \in SignalStatuses}

(* The virtual trade status a signal status goes with. *)
TradeStatusOf(s) ==
  CASE s \in {"absent", "suppressed"} -> "absent"
    [] s \in {"preparing", "active"}  -> "waiting_entry"
    [] OTHER                          -> s

(* The signal row and its virtual trade row never disagree, although each  *)
(* has a state machine of its own: a transition that one of them accepts   *)
(* and the other rejects changes neither (apply_transition, one            *)
(* transaction for both rows).                                             *)
RowsAgree == \A i \in Signals : tradeStatus[i] = TradeStatusOf(status[i])

Changes(r) == r.from # r.to

(* The status that the first n rows of a history lead to: the one the last *)
(* changing row among them names.                                          *)
LeadsTo(rows, n, st) ==
  IF \E k \in 1..n : Changes(rows[k])
    THEN \E k \in 1..n : /\ Changes(rows[k]) /\ rows[k].to = st
                         /\ \A l \in (k + 1)..n : ~Changes(rows[l])
    ELSE st = "absent"

(* A changing row continues where the rows before it lead to, any other    *)
(* row names a status that one of them led to.                             *)
Accounted(rows, k) ==
  IF Changes(rows[k]) THEN LeadsTo(rows, k - 1, rows[k].from)
  ELSE \E l \in 1..(k - 1) : Changes(rows[l]) /\ rows[l].to = rows[k].to

(* signal_events is a gapless account of how a signal got where it is: the *)
(* rows that change the status start at its publication, continue one from *)
(* the other and end at the current status, and every other row names a    *)
(* status that the rows before it have led to (docs/signals.md: the        *)
(* append-only transition history). A row of record_tracking_event may     *)
(* name a status that the signal has left since it was read.               *)
HistoryIsPath ==
  \A i \in Signals :
    /\ LeadsTo(events[i], Len(events[i]), status[i])
    /\ \A k \in DOMAIN events[i] : Accounted(events[i], k)

(* An idempotency key is written once, whichever signal uses it (the check *)
(* for a duplicate in apply_transition and record_tracking_event).         *)
KeysUnique ==
  \A i, j \in Signals : \A k \in DOMAIN events[i], l \in DOMAIN events[j] :
    events[i][k].key = events[j][l].key => i = j /\ k = l

(* A user is told about every change of status after publication, and only *)
(* of changes that happened: outbox rows and status-changing event rows    *)
(* correspond (the outbox row is inserted by the transaction of the        *)
(* transition).                                                            *)
NotificationsMatchHistory ==
  outbox = UNION {{<<i, r.key, NotificationType(r.to)>> :
                     r \in {e \in Rows(i) : e.from # e.to /\ e.from # "absent"}} : i \in Signals}

(* At most one signal per symbol is tracked: what the partial unique index *)
(* enforces never has to reject an insert, because publication checks it   *)
(* under the advisory lock.                                                *)
OneTrackedPerSymbol ==
  \A i, j \in Signals :
    /\ SymbolOf[i] = SymbolOf[j]
    /\ status[i] \in TrackingStatuses
    /\ status[j] \in TrackingStatuses
    => i = j

(* A resolved or suppressed signal is final: no caller can reopen it,      *)
(* change its position or make it notify again.                            *)
ClosedIsFinal ==
  [][\A i \in Signals :
       status[i] \in TerminalStatuses \cup {"suppressed"} =>
         /\ status'[i] = status[i]
         /\ tradeStatus'[i] = tradeStatus[i]
         /\ remaining'[i] = remaining[i]
         /\ currentStop'[i] = currentStop[i]
         /\ {n \in outbox' : n[1] = i} = {n \in outbox : n[1] = i}]_storeVars
=============================================================================
