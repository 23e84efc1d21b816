------------------------- MODULE SignalStoreProofs --------------------------
(***************************************************************************)
(* What the transactions of SignalStore guarantee for every set of         *)
(* signals, symbols and keys and whichever caller asks for them.           *)
(***************************************************************************)
EXTENDS SignalStore, TLAPS

USE StoreAssumption

LEMMA TypedStep ==
  ASSUME StoreTypeOK, [StoreNext]_storeVars
  PROVE  StoreTypeOK'
<1> USE DEF StoreTypeOK, Stops, Quantities
<1>1. ASSUME NEW i \in Signals, NEW key \in Keys, NEW allowed \in BOOLEAN,
             NEW now \in Times, Publish(i, key, allowed, now)
      PROVE StoreTypeOK'
  <2>1. [key |-> key, from |-> "absent",
         to |-> IF allowed THEN "preparing" ELSE "suppressed", time |-> now] \in EventRows
    BY DEF EventRows, SignalStatuses, TrackingStatuses
  <2>2. events' \in [Signals -> Seq(EventRows)]
    BY <1>1, <2>1 DEF Publish, EventRow
  <2>3. QED BY <1>1, <2>2 DEF Publish, SignalStatuses, TradeStatuses, TrackingStatuses
<1>2. ASSUME NEW i \in Signals, NEW key \in Keys, NEW target \in SignalStatuses,
             NEW time \in Times, NEW stop \in Stops \cup {"keep"},
             NEW quantity \in Quantities \cup {"keep"},
             ApplyTransition(i, target, key, time, stop, quantity)
      PROVE StoreTypeOK'
  <2>1. status[i] \in SignalStatuses
    BY <1>2 DEF ApplyTransition, TransitionAllowed, SignalMoves, SignalStatuses, TrackingStatuses
  <2>2. [key |-> key, from |-> status[i], to |-> target, time |-> time] \in EventRows
    BY <2>1 DEF EventRows
  <2>3. events' \in [Signals -> Seq(EventRows)]
    BY <1>2, <2>2 DEF ApplyTransition, EventRow
  <2>4. tradeStatus' \in [Signals -> TradeStatuses \cup {"absent"}]
    BY <1>2 DEF ApplyTransition, TransitionAllowed, VirtualTradeMoves, TradeStatuses,
                TerminalStatuses
  <2>5. /\ status' \in [Signals -> SignalStatuses \cup {"absent"}]
        /\ checkpoint' \in [Signals -> Positions \cup {0}]
        /\ createdAt' \in [Signals -> Times \cup {0}]
    BY <1>2 DEF ApplyTransition
  <2>6. currentStop' \in [Signals -> Stops]
    BY <1>2 DEF ApplyTransition, Updated
  <2>7. remaining' \in [Signals -> Quantities]
    BY <1>2 DEF ApplyTransition, Updated
  <2>8. outbox' \subseteq Signals \X Keys \X {NotificationType(t) : t \in SignalStatuses}
    <3>1. <<i, key, NotificationType(target)>>
            \in Signals \X Keys \X {NotificationType(t) : t \in SignalStatuses}
      OBVIOUS
    <3>2. QED BY <1>2, <3>1 DEF ApplyTransition, Notified
  <2>9. QED BY <2>3, <2>4, <2>5, <2>6, <2>7, <2>8
<1>3. ASSUME NEW i \in Signals, NEW position \in Positions, CheckpointTrade(i, position)
      PROVE StoreTypeOK'
  BY <1>3 DEF CheckpointTrade
<1>4. ASSUME NEW i \in Signals, NEW key \in Keys, NEW time \in Times,
             NEW read \in SignalStatuses, RecordTrackingEvent(i, key, time, read)
      PROVE StoreTypeOK'
  <2>1. [key |-> key, from |-> read, to |-> read, time |-> time] \in EventRows
    BY DEF EventRows
  <2>2. events' \in [Signals -> Seq(EventRows)]
    BY <1>4, <2>1 DEF RecordTrackingEvent, TrackingRow
  <2>3. QED BY <1>4, <2>2 DEF RecordTrackingEvent
<1>5. CASE UNCHANGED storeVars
  BY <1>5 DEF storeVars
<1>6. QED BY <1>1, <1>2, <1>3, <1>4, <1>5 DEF StoreNext

(* Every action writes an event row with typed fields or none at all.      *)
THEOREM StoreTyped == StoreSpec => []StoreTypeOK
<1>1. StoreInit => StoreTypeOK
  BY DEF StoreInit, StoreTypeOK, Stops, Quantities
<1>2. StoreTypeOK /\ [StoreNext]_storeVars => StoreTypeOK'
  BY TypedStep
<1>3. QED BY <1>1, <1>2, PTL DEF StoreSpec

-----------------------------------------------------------------------------
(* The two state machines are compatible: whenever both accept a target,   *)
(* the virtual trade lands on the status that goes with it.                *)
LEMMA MovesAgree ==
  ASSUME NEW from, NEW target, <<from, target>> \in SignalMoves
  PROVE  /\ TradeStatusOf(target) =
              IF VirtualTradeTarget(target) = "unchanged" THEN TradeStatusOf(from)
              ELSE VirtualTradeTarget(target)
         /\ from \in TrackingStatuses
         /\ target \in TrackingStatuses \cup TerminalStatuses
         /\ from # target
         /\ target # "suppressed"
BY DEF SignalMoves, TradeStatusOf, VirtualTradeTarget, TrackingStatuses, TerminalStatuses

LEMMA RowsAgreeStep ==
  ASSUME StoreTypeOK, RowsAgree, [StoreNext]_storeVars
  PROVE  RowsAgree'
<1>1. ASSUME NEW i \in Signals, NEW key \in Keys, NEW allowed \in BOOLEAN,
             NEW now \in Times, Publish(i, key, allowed, now)
      PROVE RowsAgree'
  BY <1>1 DEF Publish, TradeStatusOf, StoreTypeOK, RowsAgree
<1>2. ASSUME NEW i \in Signals, NEW key \in Keys, NEW target \in SignalStatuses,
             NEW time \in Times, NEW stop \in Stops \cup {"keep"},
             NEW quantity \in Quantities \cup {"keep"},
             ApplyTransition(i, target, key, time, stop, quantity)
      PROVE RowsAgree'
  <2>1. <<status[i], target>> \in SignalMoves
    BY <1>2 DEF ApplyTransition, TransitionAllowed
  <2>2. QED BY <1>2, <2>1, MovesAgree DEF ApplyTransition, StoreTypeOK, RowsAgree
<1>3. ASSUME NEW i \in Signals, NEW position \in Positions, CheckpointTrade(i, position)
      PROVE RowsAgree'
  BY <1>3 DEF CheckpointTrade, StoreTypeOK, RowsAgree
<1>4. ASSUME NEW i \in Signals, NEW key \in Keys, NEW time \in Times,
             NEW read \in SignalStatuses, RecordTrackingEvent(i, key, time, read)
      PROVE RowsAgree'
  BY <1>4 DEF RecordTrackingEvent, StoreTypeOK, RowsAgree
<1>5. CASE UNCHANGED storeVars
  BY <1>5 DEF storeVars, StoreTypeOK, RowsAgree
<1>6. QED BY <1>1, <1>2, <1>3, <1>4, <1>5 DEF StoreNext

(* The signal row and the virtual trade row always agree: the pair of      *)
(* checks in apply_transition can never accept one row and not the other.  *)
THEOREM StoreRowsAgree == StoreSpec => []RowsAgree
<1>1. StoreInit => RowsAgree
  BY DEF StoreInit, RowsAgree, TradeStatusOf
<1>2. StoreTypeOK /\ RowsAgree /\ [StoreNext]_storeVars => RowsAgree'
  BY RowsAgreeStep
<1>3. QED BY <1>1, <1>2, StoreTyped, PTL DEF StoreSpec

-----------------------------------------------------------------------------
LEMMA OneTrackedStep ==
  ASSUME StoreTypeOK, OneTrackedPerSymbol, [StoreNext]_storeVars
  PROVE  OneTrackedPerSymbol'
<1>1. ASSUME NEW i \in Signals, NEW key \in Keys, NEW allowed \in BOOLEAN,
             NEW now \in Times, Publish(i, key, allowed, now)
      PROVE OneTrackedPerSymbol'
  BY <1>1 DEF Publish, Tracked, TrackingStatuses, StoreTypeOK, OneTrackedPerSymbol
<1>2. ASSUME NEW i \in Signals, NEW key \in Keys, NEW target \in SignalStatuses,
             NEW time \in Times, NEW stop \in Stops \cup {"keep"},
             NEW quantity \in Quantities \cup {"keep"},
             ApplyTransition(i, target, key, time, stop, quantity)
      PROVE OneTrackedPerSymbol'
  <2>1. status[i] \in TrackingStatuses
    BY <1>2, MovesAgree DEF ApplyTransition, TransitionAllowed
  <2>2. \A j \in Signals : j # i => status'[j] = status[j]
    BY <1>2 DEF ApplyTransition, StoreTypeOK
  <2>3. QED BY <2>1, <2>2 DEF OneTrackedPerSymbol
<1>3. ASSUME NEW i \in Signals, NEW position \in Positions, CheckpointTrade(i, position)
      PROVE OneTrackedPerSymbol'
  BY <1>3 DEF CheckpointTrade, StoreTypeOK, OneTrackedPerSymbol
<1>4. ASSUME NEW i \in Signals, NEW key \in Keys, NEW time \in Times,
             NEW read \in SignalStatuses, RecordTrackingEvent(i, key, time, read)
      PROVE OneTrackedPerSymbol'
  BY <1>4 DEF RecordTrackingEvent, StoreTypeOK, OneTrackedPerSymbol
<1>5. CASE UNCHANGED storeVars
  BY <1>5 DEF storeVars, StoreTypeOK, OneTrackedPerSymbol
<1>6. QED BY <1>1, <1>2, <1>3, <1>4, <1>5 DEF StoreNext

(* No two tracked signals share a symbol, so the partial unique index      *)
(* never rejects what publication decided under the advisory lock.         *)
THEOREM StoreOneTracked == StoreSpec => []OneTrackedPerSymbol
<1>1. StoreInit => OneTrackedPerSymbol
  BY DEF StoreInit, OneTrackedPerSymbol, TrackingStatuses
<1>2. StoreTypeOK /\ OneTrackedPerSymbol /\ [StoreNext]_storeVars => OneTrackedPerSymbol'
  BY OneTrackedStep
<1>3. QED BY <1>1, <1>2, StoreTyped, PTL DEF StoreSpec

-----------------------------------------------------------------------------
LEMMA AppendRow ==
  ASSUME NEW S, NEW s \in Seq(S), NEW r \in S
  PROVE  /\ Append(s, r) \in Seq(S)
         /\ Len(Append(s, r)) = Len(s) + 1
         /\ DOMAIN Append(s, r) = 1..(Len(s) + 1)
         /\ \A k \in 1..Len(s) : Append(s, r)[k] = s[k]
         /\ Append(s, r)[Len(s) + 1] = r
         /\ Len(s) \in Nat
         /\ DOMAIN s = 1..Len(s)
OBVIOUS

(* The rows that users are told about.                                     *)
ChangesStatus(r) == Changes(r) /\ r.from # "absent"

(* A transaction leaves the history and the statuses alone or appends to   *)
(* one signal a row with a new key. The row either changes the status and  *)
(* continues from it, and users are told of it unless it publishes the     *)
(* signal, or it repeats a status that an earlier row names.               *)
RowAppended(i, r) ==
  /\ r.key \notin UsedKeys
  /\ IF Changes(r) THEN r.from = status[i] /\ status' = [status EXCEPT ![i] = r.to]
     ELSE /\ status' = status
          /\ \E k \in 1..Len(events[i]) : events[i][k].to = r.to
  /\ events' = [events EXCEPT ![i] = Append(events[i], r)]
  /\ outbox' = IF ChangesStatus(r) THEN Notified(i, r.key, r.to) ELSE outbox

LEMMA EventStep ==
  ASSUME StoreTypeOK, [StoreNext]_storeVars
  PROVE  \/ UNCHANGED <<status, events, outbox>>
         \/ \E i \in Signals, r \in EventRows : RowAppended(i, r)
<1>1. ASSUME NEW i \in Signals, NEW key \in Keys, NEW allowed \in BOOLEAN,
             NEW now \in Times, Publish(i, key, allowed, now)
      PROVE  \E r \in EventRows : RowAppended(i, r)
  <2> DEFINE r == [key |-> key, from |-> "absent",
                   to |-> IF allowed THEN "preparing" ELSE "suppressed", time |-> now]
  <2>1. r \in EventRows
    BY DEF EventRows, SignalStatuses, TrackingStatuses
  <2>2. RowAppended(i, r)
    BY <1>1, <2>1 DEF Publish, EventRow, RowAppended, ChangesStatus, Changes
  <2>3. QED BY <2>1, <2>2
<1>2. ASSUME NEW i \in Signals, NEW key \in Keys, NEW target \in SignalStatuses,
             NEW time \in Times, NEW stop \in Stops \cup {"keep"},
             NEW quantity \in Quantities \cup {"keep"},
             ApplyTransition(i, target, key, time, stop, quantity)
      PROVE  \E r \in EventRows : RowAppended(i, r)
  <2> DEFINE r == [key |-> key, from |-> status[i], to |-> target, time |-> time]
  <2>1. r \in EventRows
    BY <1>2 DEF EventRows, StoreTypeOK
  <2>2. ChangesStatus(r)
    BY <1>2, MovesAgree DEF ApplyTransition, TransitionAllowed, TrackingStatuses, ChangesStatus,
                              Changes
  <2>3. RowAppended(i, r)
    BY <1>2, <2>1, <2>2 DEF ApplyTransition, EventRow, RowAppended, ChangesStatus
  <2>4. QED BY <2>1, <2>3
<1>3. ASSUME NEW i \in Signals, NEW key \in Keys, NEW time \in Times,
             NEW read \in SignalStatuses, RecordTrackingEvent(i, key, time, read)
      PROVE  \/ UNCHANGED <<status, events, outbox>>
             \/ \E r \in EventRows : RowAppended(i, r)
  <2> DEFINE r == TrackingRow(key, read, time)
  <2>1. CASE key \in UsedKeys
    BY <1>3, <2>1 DEF RecordTrackingEvent
  <2>2. CASE key \notin UsedKeys
    <3>1. r \in EventRows /\ ~Changes(r) /\ r.key = key /\ r.to = read
      BY DEF EventRows, TrackingRow, Changes
    <3>2. \E k \in 1..Len(events[i]) : events[i][k].to = read
      <4>1. PICK e \in Rows(i) : e.to = read
        BY <1>3 DEF RecordTrackingEvent
      <4>2. DOMAIN events[i] = 1..Len(events[i])
        BY AppendRow DEF StoreTypeOK
      <4>3. QED BY <4>1, <4>2 DEF Rows
    <3>3. /\ status' = status /\ outbox' = outbox
          /\ events' = [events EXCEPT ![i] = Append(events[i], r)]
      BY <1>3, <2>2 DEF RecordTrackingEvent
    <3> HIDE DEF r
    <3>4. RowAppended(i, r)
      BY <2>2, <3>1, <3>2, <3>3 DEF RowAppended, ChangesStatus
    <3>5. QED BY <3>1, <3>4
  <2>3. QED BY <2>1, <2>2
<1>4. ASSUME NEW i \in Signals, NEW position \in Positions, CheckpointTrade(i, position)
      PROVE UNCHANGED <<status, events, outbox>>
  BY <1>4 DEF CheckpointTrade
<1>5. CASE UNCHANGED storeVars
  BY <1>5 DEF storeVars
<1>6. QED BY <1>1, <1>2, <1>3, <1>4, <1>5 DEF StoreNext

LEMMA AppendedRows ==
  ASSUME StoreTypeOK, NEW i \in Signals, NEW r \in EventRows, RowAppended(i, r)
  PROVE  /\ Len(events'[i]) = Len(events[i]) + 1 /\ Len(events[i]) \in Nat
         /\ DOMAIN events'[i] = 1..(Len(events[i]) + 1)
         /\ \A k \in 1..Len(events[i]) : events'[i][k] = events[i][k]
         /\ events'[i][Len(events[i]) + 1] = r
         /\ \A j \in Signals : /\ j # i => events'[j] = events[j] /\ status'[j] = status[j]
                               /\ DOMAIN events[j] = 1..Len(events[j])
                               /\ Len(events[j]) \in Nat
<1>1. events \in [Signals -> Seq(EventRows)] /\ status \in [Signals -> SignalStatuses \cup {"absent"}]
  BY DEF StoreTypeOK
<1>2. events'[i] = Append(events[i], r)
  BY <1>1 DEF RowAppended
<1>3. \A j \in Signals : j # i => events'[j] = events[j] /\ status'[j] = status[j]
  BY <1>1 DEF RowAppended
<1>4. QED BY <1>1, <1>2, <1>3, AppendRow

(* What some rows lead to does not depend on the rows after them, and a    *)
(* row appended to them leads to what it names or, when it changes nothing,*)
(* to where they did.                                                      *)
LEMMA LeadsToAppended ==
  ASSUME NEW old, NEW new, NEW n \in Nat, \A k \in 1..n : new[k] = old[k]
  PROVE  /\ \A m \in 0..n : \A st : LeadsTo(old, m, st) => LeadsTo(new, m, st)
         /\ Changes(new[n + 1]) => LeadsTo(new, n + 1, new[n + 1].to)
         /\ ~Changes(new[n + 1]) => \A st : LeadsTo(old, n, st) => LeadsTo(new, n + 1, st)
<1>1. ASSUME NEW m \in 0..n, NEW st, LeadsTo(old, m, st) PROVE LeadsTo(new, m, st)
  <2>1. \A k \in 1..m : new[k] = old[k] /\ \A l \in (k + 1)..m : new[l] = old[l]
    OBVIOUS
  <2>2. QED BY <1>1, <2>1 DEF LeadsTo
<1>2. Changes(new[n + 1]) => LeadsTo(new, n + 1, new[n + 1].to)
  <2>1. n + 1 \in 1..(n + 1) /\ (n + 1 + 1)..(n + 1) = {}
    OBVIOUS
  <2>2. QED BY <2>1 DEF LeadsTo
<1>3. ASSUME ~Changes(new[n + 1]), NEW st, LeadsTo(old, n, st) PROVE LeadsTo(new, n + 1, st)
  <2>1. LeadsTo(new, n, st)
    BY <1>1, <1>3
  <2>2. 1..(n + 1) = 1..n \cup {n + 1}
        /\ \A k \in 1..n : (k + 1)..(n + 1) = (k + 1)..n \cup {n + 1}
    OBVIOUS
  <2>3. QED BY <1>3, <2>1, <2>2 DEF LeadsTo
<1>4. QED BY <1>1, <1>2, <1>3

(* The history of a signal is a gapless path from its publication to its   *)
(* current status, and no row names a status the signal never had,         *)
(* although record_tracking_event reads the status without a lock.         *)
THEOREM StoreHistoryIsPath == StoreSpec => []HistoryIsPath
<1>1. StoreInit => HistoryIsPath
  BY DEF StoreInit, HistoryIsPath, LeadsTo
<1>2. StoreTypeOK /\ HistoryIsPath /\ [StoreNext]_storeVars => HistoryIsPath'
  <2> SUFFICES ASSUME StoreTypeOK, HistoryIsPath, [StoreNext]_storeVars
               PROVE HistoryIsPath'
    OBVIOUS
  <2>1. CASE UNCHANGED <<status, events, outbox>>
    BY <2>1 DEF HistoryIsPath
  <2>2. ASSUME NEW i \in Signals, NEW r \in EventRows, RowAppended(i, r)
        PROVE HistoryIsPath'
    <3> DEFINE n == Len(events[i])  old == events[i]  new == events'[i]
    <3>1. /\ n \in Nat /\ Len(new) = n + 1 /\ DOMAIN new = 1..(n + 1) /\ DOMAIN old = 1..n
          /\ \A k \in 1..n : new[k] = old[k]
          /\ new[n + 1] = r
          /\ \A j \in Signals : j # i => events'[j] = events[j] /\ status'[j] = status[j]
      BY <2>2, AppendedRows
    <3>2. LeadsTo(old, n, status[i]) /\ \A k \in 1..n : Accounted(old, k)
      BY <3>1 DEF HistoryIsPath
    <3>3. IF Changes(r) THEN r.from = status[i] /\ status'[i] = r.to
          ELSE status'[i] = status[i] /\ \E k \in 1..n : old[k].to = r.to
      BY <2>2 DEF RowAppended, StoreTypeOK
    <3> HIDE DEF n, old, new
    <3>4. LeadsTo(new, n + 1, status'[i])
      BY <3>1, <3>2, <3>3, LeadsToAppended
    <3>5. ASSUME NEW k \in 1..(n + 1) PROVE Accounted(new, k)
      <4>1. CASE k # n + 1
        <5>1. k \in 1..n /\ k - 1 \in 0..n /\ new[k] = old[k]
              /\ \A l \in 1..(k - 1) : new[l] = old[l]
          BY <3>1, <4>1
        <5>2. QED BY <3>1, <3>2, <5>1, LeadsToAppended DEF Accounted
      <4>2. CASE k = n + 1 /\ Changes(r)
        <5>1. k - 1 = n /\ n \in 0..n /\ new[k] = r
          BY <3>1, <4>2
        <5>2. LeadsTo(new, n, status[i])
          BY <3>1, <3>2, <5>1, LeadsToAppended
        <5>3. QED BY <3>3, <4>2, <5>1, <5>2 DEF Accounted
      <4>3. CASE k = n + 1 /\ ~Changes(r)
        <5>1. PICK m \in 1..n : old[m].to = r.to
          BY <3>3, <4>3
        <5>2. \E l \in 1..n : Changes(old[l]) /\ old[l].to = r.to
          <6>1. CASE Changes(old[m])
            BY <5>1, <6>1
          <6>2. CASE ~Changes(old[m])
            <7>1. \E l \in 1..(m - 1) : Changes(old[l]) /\ old[l].to = old[m].to
              BY <3>2, <6>2 DEF Accounted
            <7>2. QED BY <3>1, <5>1, <7>1
          <6>3. QED BY <6>1, <6>2
        <5>3. k - 1 = n /\ new[k] = r
          BY <3>1, <4>3
        <5>4. QED BY <3>1, <4>3, <5>2, <5>3 DEF Accounted
      <4>4. QED BY <4>1, <4>2, <4>3
    <3>6. /\ LeadsTo(events'[i], Len(events'[i]), status'[i])
          /\ \A k \in DOMAIN events'[i] : Accounted(events'[i], k)
      BY <3>1, <3>4, <3>5 DEF new
    <3>7. \A j \in Signals \ {i} : /\ LeadsTo(events'[j], Len(events'[j]), status'[j])
                                   /\ \A k \in DOMAIN events'[j] : Accounted(events'[j], k)
      BY <3>1 DEF HistoryIsPath
    <3>8. QED BY <3>6, <3>7 DEF HistoryIsPath
  <2>3. QED BY <2>1, <2>2, EventStep
<1>3. QED BY <1>1, <1>2, StoreTyped, PTL DEF StoreSpec

-----------------------------------------------------------------------------
(* No idempotency key is ever written twice, by one signal or by two.      *)
THEOREM StoreKeysUnique == StoreSpec => []KeysUnique
<1>1. StoreInit => KeysUnique
  BY DEF StoreInit, KeysUnique
<1>2. StoreTypeOK /\ KeysUnique /\ [StoreNext]_storeVars => KeysUnique'
  <2> SUFFICES ASSUME StoreTypeOK, KeysUnique, [StoreNext]_storeVars
               PROVE KeysUnique'
    OBVIOUS
  <2>1. CASE UNCHANGED <<status, events, outbox>>
    BY <2>1 DEF KeysUnique
  <2>2. ASSUME NEW i \in Signals, NEW r \in EventRows, RowAppended(i, r)
        PROVE KeysUnique'
    <3> DEFINE n == Len(events[i]) + 1
    <3>1. events \in [Signals -> Seq(EventRows)]
      BY DEF StoreTypeOK
    <3>2. /\ n \in Nat
          /\ DOMAIN events'[i] = 1..n
          /\ DOMAIN events[i] = 1..(n - 1)
          /\ \A k \in 1..(n - 1) : events'[i][k] = events[i][k]
          /\ events'[i][n] = r
      BY <2>2, <3>1, AppendRow DEF RowAppended
    <3>3. \A j \in Signals : j # i => events'[j] = events[j]
      BY <2>2, <3>1 DEF RowAppended
    <3>4. \A j \in Signals : \A k \in DOMAIN events[j] : events[j][k].key # r.key
      BY <2>2 DEF RowAppended, UsedKeys, Rows
    <3> HIDE DEF n
    <3>5. SUFFICES ASSUME NEW j \in Signals, NEW l \in Signals,
                          NEW a \in DOMAIN events'[j], NEW b \in DOMAIN events'[l],
                          events'[j][a].key = events'[l][b].key
                   PROVE j = l /\ a = b
      BY DEF KeysUnique
    <3> DEFINE New(x, c) == x = i /\ c = n
    <3>6. \A x \in Signals : \A c \in DOMAIN events'[x] :
            IF New(x, c) THEN events'[x][c] = r
            ELSE c \in DOMAIN events[x] /\ events'[x][c] = events[x][c]
      BY <3>2, <3>3
    <3>7. CASE New(j, a) /\ New(l, b)
      BY <3>7
    <3>8. CASE New(j, a) /\ ~New(l, b)
      BY <3>4, <3>5, <3>6, <3>8
    <3>9. CASE ~New(j, a) /\ New(l, b)
      BY <3>4, <3>5, <3>6, <3>9
    <3>10. CASE ~New(j, a) /\ ~New(l, b)
      BY <3>5, <3>6, <3>10 DEF KeysUnique
    <3>11. QED BY <3>7, <3>8, <3>9, <3>10
  <2>3. QED BY <2>1, <2>2, EventStep
<1>3. QED BY <1>1, <1>2, StoreTyped, PTL DEF StoreSpec

-----------------------------------------------------------------------------
(* Users are told about every change of status after publication and about *)
(* nothing else: apply_transition inserts the outbox row in the transaction*)
(* that writes the event row, and no other transaction writes one.         *)
THEOREM StoreNotifiesHistory == StoreSpec => []NotificationsMatchHistory
<1> DEFINE Told(x, j, e) == ChangesStatus(e) /\ x = <<j, e.key, NotificationType(e.to)>>
           Matches == \A x : x \in outbox <=> \E j \in Signals : \E e \in Rows(j) : Told(x, j, e)
<1>1. NotificationsMatchHistory <=> Matches
  <2>1. \A x : x \in UNION {{<<i, r.key, NotificationType(r.to)>> :
                               r \in {e \in Rows(i) : e.from # e.to /\ e.from # "absent"}} :
                               i \in Signals}
                <=> \E j \in Signals : \E e \in Rows(j) : Told(x, j, e)
    BY DEF ChangesStatus, Changes
  <2>2. QED BY <2>1 DEF NotificationsMatchHistory
<1>2. StoreInit => Matches
  BY DEF StoreInit, Rows
<1>3. StoreTypeOK /\ Matches /\ [StoreNext]_storeVars => Matches'
  <2> SUFFICES ASSUME StoreTypeOK, Matches, [StoreNext]_storeVars PROVE Matches'
    OBVIOUS
  <2>1. CASE UNCHANGED <<status, events, outbox>>
    BY <2>1 DEF Rows
  <2>2. ASSUME NEW i \in Signals, NEW r \in EventRows, RowAppended(i, r)
        PROVE Matches'
    <3>1. events \in [Signals -> Seq(EventRows)]
      BY DEF StoreTypeOK
    <3>2. Rows(i)' = Rows(i) \cup {r}
      <4> DEFINE n == Len(events[i]) + 1
      <4>1. /\ n \in Nat \ {0}
            /\ DOMAIN events'[i] = 1..n
            /\ DOMAIN events[i] = 1..(n - 1)
            /\ \A k \in 1..(n - 1) : events'[i][k] = events[i][k]
            /\ events'[i][n] = r
        BY <2>2, <3>1, AppendRow DEF RowAppended
      <4> HIDE DEF n
      <4>2. 1..n = (1..(n - 1)) \cup {n}
        BY <4>1
      <4>3. QED BY <4>1, <4>2 DEF Rows
    <3>3. \A j \in Signals : j # i => Rows(j)' = Rows(j)
      BY <2>2, <3>1 DEF RowAppended, Rows
    <3>4. \A x : x \in outbox' <=> x \in outbox \/ Told(x, i, r)
      BY <2>2 DEF RowAppended, Notified
    <3>5. \A x : (\E j \in Signals : \E e \in Rows(j)' : Told(x, j, e))
                <=> (\E j \in Signals : \E e \in Rows(j) : Told(x, j, e)) \/ Told(x, i, r)
      <4> HIDE DEF Told
      <4>1. QED BY <3>2, <3>3
    <3>6. QED BY <3>4, <3>5
  <2>3. QED BY <2>1, <2>2, EventStep
<1>4. QED BY <1>1, <1>2, <1>3, StoreTyped, PTL DEF StoreSpec

-----------------------------------------------------------------------------
(* Nothing a caller asks for changes a resolved or suppressed signal.      *)
THEOREM StoreClosedIsFinal == StoreSpec => ClosedIsFinal
<1> DEFINE Final(i) == status[i] \in TerminalStatuses \cup {"suppressed"}
           Kept(i) == /\ status'[i] = status[i]
                      /\ tradeStatus'[i] = tradeStatus[i]
                      /\ remaining'[i] = remaining[i]
                      /\ currentStop'[i] = currentStop[i]
                      /\ {n \in outbox' : n[1] = i} = {n \in outbox : n[1] = i}
<1>1. StoreTypeOK /\ [StoreNext]_storeVars => [\A i \in Signals : Final(i) => Kept(i)]_storeVars
  <2> SUFFICES ASSUME StoreTypeOK, StoreNext, NEW i \in Signals, Final(i) PROVE Kept(i)
    BY DEF storeVars
  <2>1. ASSUME NEW j \in Signals, NEW key \in Keys, NEW allowed \in BOOLEAN,
               NEW now \in Times, Publish(j, key, allowed, now)
        PROVE Kept(i)
    BY <2>1 DEF Publish, StoreTypeOK, TerminalStatuses
  <2>2. ASSUME NEW j \in Signals, NEW key \in Keys, NEW target \in SignalStatuses,
               NEW time \in Times, NEW stop \in Stops \cup {"keep"},
               NEW quantity \in Quantities \cup {"keep"},
               ApplyTransition(j, target, key, time, stop, quantity)
        PROVE Kept(i)
    <3>1. j # i
      <4>1. status[j] \in TrackingStatuses
        BY <2>2, MovesAgree DEF ApplyTransition, TransitionAllowed
      <4>2. QED BY <4>1 DEF TrackingStatuses, TerminalStatuses
    <3>2. /\ status'[i] = status[i]
          /\ tradeStatus'[i] = tradeStatus[i]
          /\ remaining'[i] = remaining[i]
          /\ currentStop'[i] = currentStop[i]
      BY <2>2, <3>1 DEF ApplyTransition, Updated, StoreTypeOK
    <3>3. {n \in outbox' : n[1] = i} = {n \in outbox : n[1] = i}
      BY <2>2, <3>1 DEF ApplyTransition, Notified
    <3>4. QED BY <3>2, <3>3
  <2>3. ASSUME NEW j \in Signals, NEW position \in Positions, CheckpointTrade(j, position)
        PROVE Kept(i)
    BY <2>3 DEF CheckpointTrade
  <2>4. ASSUME NEW j \in Signals, NEW key \in Keys, NEW time \in Times,
               NEW read \in SignalStatuses, RecordTrackingEvent(j, key, time, read)
        PROVE Kept(i)
    BY <2>4 DEF RecordTrackingEvent
  <2>5. QED BY <2>1, <2>2, <2>3, <2>4 DEF StoreNext
<1>2. QED BY <1>1, StoreTyped, PTL DEF StoreSpec, ClosedIsFinal
=============================================================================
