------------------------ MODULE SignalTrackingProofs ------------------------
(***************************************************************************)
(* What the lifecycle service guarantees for every set of signals and      *)
(* symbols, every plan, queue, buffer and history, and every interleaving  *)
(* with the streams, the exchange and restarts.                            *)
(***************************************************************************)
EXTENDS SignalGuarantees, FiniteSetTheorems, WellFoundedInduction, TLAPS

USE TrackingAssumption

-----------------------------------------------------------------------------
(* What the rows say of each other. *)

(* How far a signal has come. *)
Rank(st) ==
  CASE st = "absent"      -> 0
    [] st = "preparing"   -> 1
    [] st = "active"      -> 2
    [] st = "entered"     -> 3
    [] st = "tp1_reached" -> 4
    [] OTHER              -> 5

(* A key of the service names the signal and the target it was made for.   *)
KeyNames(key, i, target) ==
  /\ key[2] = i
  /\ key[1] \in {"trade", "fallback"} => key[4] = target
  /\ key[1] = "expired" => target = "expired"
  /\ key[1] = "coverage" => target \in {"active", "coverage_failed"}

KeysTellTargets ==
  \A i \in Signals : \A k \in DOMAIN events[i] :
    /\ KeyNames(events[i][k].key, i, events[i][k].to)
    /\ Rank(events[i][k].to) <= Rank(status[i])

(* The open part and the stop of a position follow from its status.        *)
PositionFollows ==
  \A i \in Signals :
    /\ status[i] \in {"absent", "preparing", "active", "entered"}
         => currentStop[i] = "initial" /\ remaining[i] = "full"
    /\ status[i] = "tp1_reached" => currentStop[i] = "breakeven" /\ remaining[i] = "half"

RowsFit ==
  /\ Store!RowsAgree /\ Store!OneTrackedPerSymbol
  /\ KeysTellTargets /\ PositionFollows

-----------------------------------------------------------------------------
(* What the exchange and the streams have done. *)

TapeFits ==
  \A s \in Symbols :
    /\ Len(tape[s]) \in 1..MaxTrades
    /\ \A t, u \in 1..Len(tape[s]) : t <= u => TimeOf(s, t) <= TimeOf(s, u)
    /\ \A t \in 1..Len(tape[s]) : TimeOf(s, t) <= clock

RowsInTime ==
  \A i \in Signals : createdAt[i] <= clock /\ checkpoint[i] <= Len(tape[SymbolOf[i]])

(* Trades are queued in their order, and none is queued before it was      *)
(* received.                                                               *)
EventsInOrder ==
  /\ \A s \in Symbols :
       /\ received[s] <= Len(tape[s])
       /\ Len(outgoing[s]) <= 1
       /\ outgoing[s] # <<>> => outgoing[s][1].sym = s
       /\ outgoing[s] # <<>> /\ outgoing[s][1].type = "trade" =>
            /\ outgoing[s][1].trade \in 1..received[s]
            /\ \A k \in DOMAIN queue :
                 queue[k].sym = s /\ queue[k].type = "trade"
                   => queue[k].trade < outgoing[s][1].trade
  /\ \A k \in DOMAIN queue :
       queue[k].type = "trade" => queue[k].trade \in 1..received[queue[k].sym]
  /\ \A k, l \in DOMAIN queue :
       /\ k < l /\ queue[k].sym = queue[l].sym
       /\ queue[k].type = "trade" /\ queue[l].type = "trade"
       => queue[k].trade < queue[l].trade

-----------------------------------------------------------------------------
(* What the service knows and is doing. *)

Busy == job.phase \in {"fetch", "live", "batch", "candles"}
OnAgenda(s) == \E e \in agenda : e[1] = s

(* The actions still to be applied are moves of the signal state machine.  *)
PathFrom(st, acts) ==
  \/ acts = <<>>
  \/ \E target \in SignalStatuses : acts = <<target>> /\ <<st, target>> \in SignalMoves
  \/ st = "entered" /\ acts = <<"tp1_reached", "tp2_completed">>

ActsAhead(st) ==
  \/ job.next = 1 /\ PathFrom(st, job.acts)
  \/ job.next = 2 /\ job.acts = <<"tp1_reached", "tp2_completed">> /\ st = "tp1_reached"
  \/ job.next = Len(job.acts) + 1 /\ Len(job.acts) \in 0..2

JobFits ==
  /\ Busy => Known(job.sym) /\ ~OnAgenda(job.sym)
  /\ job.phase \in {"fetch", "candles"} => job.anchor = pending[job.sym] /\ job.anchor >= 0
  /\ job.phase \in {"live", "batch", "candles"} => ActsAhead(views[job.sym].status)
  /\ job.phase = "live" => job.at \in 1..Len(tape[job.sym]) /\ job.todo = {}
  /\ job.phase = "batch" =>
       /\ job.todo \subseteq 1..Len(tape[job.sym])
       /\ job.at \in 0..Len(tape[job.sym])
       /\ \A t \in job.todo : job.at < t
       /\ job.at = 0 => job.todo # {} /\ job.acts = <<>>
  /\ job.phase = "candles" =>
       /\ job.todo \subseteq 0..(MinuteOf(clock) - 1)
       /\ job.at \in 0..(MinuteOf(clock) - 1)

AgendaFits ==
  /\ \A e \in agenda : Known(e[1])
  /\ \A e, f \in agenda : e[1] = f[1] => e = f
  /\ job.phase = "boot" => agenda = {}
  /\ \A s \in Symbols : Known(s) /\ link[s] = "off" => OnAgenda(s)

MemoryFits ==
  \A s \in Symbols :
    /\ Known(s) => views[s].last <= checkpoint[views[s].id]
    /\ pending[s] <= clock

ServiceInvariant ==
  /\ TypeOK
  /\ RowsFit
  /\ TapeFits /\ RowsInTime /\ EventsInOrder
  /\ JobFits /\ AgendaFits /\ MemoryFits
  /\ MemoryMatchesRows /\ NothingLeftBehind /\ NoIllegalTransition

-----------------------------------------------------------------------------
(* The operators of the model. *)

LEMMA Constants ==
  /\ Lifetime \in Nat \ {0} /\ MinuteTicks \in Nat \ {0} /\ RestLimit \in Nat \ {0}
  /\ BufferSize \in Nat \ {0} /\ QueueSize \in Nat \ {0} /\ TradesPerTick \in Nat \ {0}
  /\ MaxTrades \in Nat \ {0} /\ RestLag \in Nat /\ MaxTime \in Nat
  /\ MaxDisconnects \in Nat /\ MaxCrashes \in Nat
  /\ SymbolOf \in [Signals -> Symbols] /\ Prices \subseteq Int /\ FirstPrice \in Int
  BY DEF TrackingAssumption

(* The smallest element of a set of numbers. *)
LEMMA LeastIsIn ==
  ASSUME NEW T, T \subseteq Nat, T # {}
  PROVE  Least(T) \in T /\ \A x \in T : Least(T) <= x
<1> DEFINE R == OpToRel(<, Nat)
<1>1. \E x \in T : \A y \in T : ~(<<y, x>> \in R)
  BY NatLessThanWellFounded, WFMin
<1>2. \A x, y \in Nat : <<y, x>> \in R <=> y < x
  BY DEF OpToRel
<1> HIDE DEF R
<1>3. PICK x \in T : \A y \in T : ~(<<y, x>> \in R)
  BY <1>1
<1>4. ASSUME NEW y \in T PROVE x <= y
  <2>1. ~(y < x) /\ x \in Nat /\ y \in Nat
    BY <1>2, <1>3
  <2>2. QED BY <2>1
<1>5. QED BY <1>4 DEF Least

(* The tables of the store are those of the service.                       *)
LEMMA SameTables ==
  /\ Store!TrackingStatuses = TrackingStatuses
  /\ Store!TerminalStatuses = TerminalStatuses
  /\ Store!SignalStatuses = SignalStatuses
  /\ Store!TradeStatuses = TradeStatuses
  /\ Store!SignalMoves = SignalMoves
  /\ Store!VirtualTradeMoves = VirtualTradeMoves
  /\ \A target : Store!VirtualTradeTarget(target) = VirtualTradeTarget(target)
  BY DEF Store!TrackingStatuses, TrackingStatuses, Store!TerminalStatuses, TerminalStatuses,
         Store!SignalStatuses, SignalStatuses, Store!TradeStatuses, TradeStatuses,
         Store!SignalMoves, SignalMoves, Store!VirtualTradeMoves, VirtualTradeMoves,
         Store!VirtualTradeTarget, VirtualTradeTarget

(* The moves of a signal lead forward. *)
LEMMA Moves ==
  ASSUME NEW from, NEW target, <<from, target>> \in SignalMoves
  PROVE  /\ from \in TrackingStatuses
         /\ target \in (TrackingStatuses \cup TerminalStatuses) \ {"preparing"}
         /\ target # "suppressed" /\ target # "absent" /\ target # "none"
         /\ Rank(from) \in Nat /\ Rank(target) \in Nat /\ Rank(from) < Rank(target)
         /\ VirtualTradeTarget(target) = IF target = "active" THEN "unchanged" ELSE target
         /\ target # "active"
              => <<Store!TradeStatusOf(from), target>> \in VirtualTradeMoves
         /\ Store!TradeStatusOf(target) =
              IF target = "active" THEN Store!TradeStatusOf(from) ELSE target
  BY DEF SignalMoves, TrackingStatuses, TerminalStatuses, Rank, VirtualTradeTarget,
         VirtualTradeMoves, Store!TradeStatusOf

LEMMA RankTyped == \A st : Rank(st) \in Nat
  BY DEF Rank

(* Whatever trade or candle is evaluated, the actions are a path.          *)
LEMMA TradeActs ==
  ASSUME NEW plan, NEW expires, NEW st, NEW stop, NEW price, NEW time
  PROVE  PathFrom(st, EvaluatePublicTrade(plan, expires, st, stop, price, time))
<1> USE DEF PathFrom, SignalMoves, SignalStatuses, TrackingStatuses, TerminalStatuses
<1>1. PathFrom("active", EvaluateActive(plan, expires, price, time))
  BY DEF EvaluateActive
<1>2. PathFrom("entered", EvaluateEntered(plan, stop, price))
  BY DEF EvaluateEntered
<1>3. PathFrom("tp1_reached", EvaluateAfterTp1(plan, stop, price))
  BY DEF EvaluateAfterTp1
<1>4. PathFrom(st, <<>>)
  OBVIOUS
<1> HIDE DEF PathFrom
<1>5. QED BY <1>1, <1>2, <1>3, <1>4 DEF EvaluatePublicTrade

LEMMA CandleActs ==
  ASSUME NEW plan, NEW expires, NEW st, NEW stop, NEW candle
  PROVE  PathFrom(st, EvaluateClosedCandle(plan, expires, st, stop, candle))
<1>1. \A price, time : /\ PathFrom("active", EvaluateActive(plan, expires, price, time))
                       /\ PathFrom("entered", EvaluateEntered(plan, stop, price))
                       /\ PathFrom("tp1_reached", EvaluateAfterTp1(plan, stop, price))
  BY TradeActs DEF EvaluatePublicTrade
<1>2. /\ PathFrom("active", <<"expired">>) /\ PathFrom("active", <<"invalidated">>)
      /\ PathFrom("active", <<"ambiguous">>) /\ PathFrom("entered", <<"ambiguous">>)
      /\ PathFrom("tp1_reached", <<"ambiguous">>) /\ PathFrom(st, <<>>)
      /\ PathFrom("active", <<>>) /\ PathFrom("entered", <<>>) /\ PathFrom("tp1_reached", <<>>)
  BY DEF PathFrom, SignalMoves, SignalStatuses, TrackingStatuses, TerminalStatuses
<1>3. PathFrom("active", CandleActive(plan, expires, candle))
  BY <1>1, <1>2 DEF CandleActive
<1>4. PathFrom("entered", CandleEntered(plan, stop, candle))
  BY <1>1, <1>2 DEF CandleEntered
<1>5. PathFrom("tp1_reached", CandleAfterTp1(plan, stop, candle))
  BY <1>1, <1>2 DEF CandleAfterTp1
<1>6. QED BY <1>2, <1>3, <1>4, <1>5 DEF EvaluateClosedCandle

(* The next action of a job is a move, and the ones after it follow.       *)
LEMMA NextAct ==
  ASSUME NEW st, ActsAhead(st), job.next <= Len(job.acts), job.next \in {1, 2, 3}
  PROVE  /\ <<st, job.acts[job.next]>> \in SignalMoves
         /\ job.acts[job.next] \in SignalStatuses
         /\ job.next \in {1, 2}
         /\ job.acts[job.next] \notin TerminalStatuses =>
              \/ job.next + 1 = 2 /\ job.acts = <<"tp1_reached", "tp2_completed">>
                   /\ job.acts[job.next] = "tp1_reached"
              \/ job.next + 1 = Len(job.acts) + 1 /\ Len(job.acts) \in 0..2
<1>1. CASE job.next = 1 /\ PathFrom(st, job.acts)
  <2>1. job.acts # <<>>
    BY <1>1
  <2>2. CASE \E target \in SignalStatuses : job.acts = <<target>> /\ <<st, target>> \in SignalMoves
    BY <1>1, <2>2
  <2>3. CASE st = "entered" /\ job.acts = <<"tp1_reached", "tp2_completed">>
    BY <1>1, <2>3 DEF SignalMoves, SignalStatuses, TrackingStatuses, TerminalStatuses
  <2>4. QED BY <1>1, <2>1, <2>2, <2>3 DEF PathFrom
<1>2. CASE job.next = 2 /\ job.acts = <<"tp1_reached", "tp2_completed">> /\ st = "tp1_reached"
  BY <1>2 DEF SignalMoves, SignalStatuses, TrackingStatuses, TerminalStatuses
<1>3. QED BY <1>1, <1>2 DEF ActsAhead

(* The minutes that are closed, and when the last one was.                 *)
LEMMA MinuteEnds ==
  ASSUME NEW time \in Nat, NEW m \in 0..(MinuteOf(time) - 1)
  PROVE  m \in Nat /\ m < time /\ (m + 1) * MinuteTicks \in 0..time
<1>1. MinuteTicks \in Nat \ {0}
  BY Constants
<1>2. /\ time \div MinuteTicks \in Int
      /\ (time \div MinuteTicks) * MinuteTicks <= time
  BY <1>1
<1> DEFINE q == time \div MinuteTicks
<1>3. q \in Int /\ q * MinuteTicks <= time /\ m \in Int /\ 0 <= m /\ m + 1 <= q
  BY <1>2 DEF MinuteOf
<1> HIDE DEF q
<1>4. (m + 1) * MinuteTicks <= q * MinuteTicks /\ m + 1 <= (m + 1) * MinuteTicks
  BY <1>1, <1>3
<1>5. (m + 1) * MinuteTicks \in Int
  BY <1>1, <1>3
<1>6. QED BY <1>1, <1>3, <1>4, <1>5

-----------------------------------------------------------------------------
LEMMA RowsTyped ==
  ASSUME TypeOK
  PROVE  /\ status \in [Signals -> SignalStatuses \cup {"absent"}]
         /\ tradeStatus \in [Signals -> TradeStatuses \cup {"absent"}]
         /\ currentStop \in [Signals -> {"initial", "breakeven"}]
         /\ remaining \in [Signals -> {"full", "half", "none"}]
         /\ checkpoint \in [Signals -> 0..MaxTrades]
         /\ createdAt \in [Signals -> 0..(MaxTime + Lifetime)]
         /\ events \in [Signals -> Seq(Store!EventRows)]
<1>1. Store!StoreTypeOK
  BY DEF TypeOK
<1>2. 1..MaxTrades \cup {0} = 0..MaxTrades /\ 0..(MaxTime + Lifetime) \cup {0} = 0..(MaxTime + Lifetime)
  BY Constants
<1>3. QED BY <1>1, <1>2, SameTables DEF Store!StoreTypeOK, Store!Stops, Store!Quantities

(* A remembered signal is tracked, and the rows know what is remembered.   *)
LEMMA Remembers ==
  ASSUME TypeOK, MemoryMatchesRows, NEW s \in Symbols, Known(s)
  PROVE  /\ views[s] \in ViewRecords
         /\ views[s].id \in Signals /\ SymbolOf[views[s].id] = s
         /\ views[s].status \in TrackingStatuses
         /\ views[s].status = status[views[s].id]
         /\ views[s].stop \in Store!Stops /\ views[s].stop = currentStop[views[s].id]
         /\ views[s].last \in 0..MaxTrades
  BY SameTables DEF TypeOK, MemoryMatchesRows, Known, ViewRecords, Store!Tracked

(* What is read of the rows of a symbol. *)
LEMMA Reads ==
  ASSUME TypeOK, NEW s \in Symbols
  PROVE  \/ Store!Tracked(s) = {} /\ StoredView(s) = NoView
         \/ \E i \in Store!Tracked(s) :
              /\ StoredView(s) = [id |-> i, status |-> status[i], stop |-> currentStop[i],
                                  last |-> checkpoint[i]]
              /\ StoredView(s) \in ViewRecords /\ StoredView(s) # NoView
<1>1. CASE Store!Tracked(s) = {}
  BY <1>1 DEF StoredView
<1>2. CASE Store!Tracked(s) # {}
  <2> DEFINE i == CHOOSE x \in Store!Tracked(s) : TRUE
  <2>1. i \in Store!Tracked(s)
    BY <1>2
  <2>2. StoredView(s) = [id |-> i, status |-> status[i], stop |-> currentStop[i],
                         last |-> checkpoint[i]]
    BY <1>2 DEF StoredView
  <2> HIDE DEF i
  <2>3. /\ i \in Signals /\ status[i] \in TrackingStatuses /\ currentStop[i] \in Store!Stops
        /\ checkpoint[i] \in 0..MaxTrades
    BY <2>1, RowsTyped, SameTables DEF Store!Tracked, Store!Stops
  <2>4. StoredView(s) \in ViewRecords
    BY <2>2, <2>3 DEF ViewRecords
  <2>5. StoredView(s) # NoView
    <3>1. StoredView(s).status # "none"
      BY <2>2, <2>3 DEF TrackingStatuses
    <3>2. QED BY <3>1 DEF NoView
  <2>6. QED BY <2>1, <2>2, <2>4, <2>5
<1>3. QED BY <1>1, <1>2

(* The key of a transition the service asks for was never used: the row it *)
(* would have been written with had moved the signal beyond it.            *)
LEMMA KeyIsFresh ==
  ASSUME TypeOK, KeysTellTargets, NEW i \in Signals, NEW key, NEW target,
         <<status[i], target>> \in SignalMoves, KeyNames(key, i, target),
         key[1] \in {"trade", "fallback", "expired", "coverage"},
         key[1] = "coverage" => status[i] = "preparing"
  PROVE  key \notin Store!UsedKeys
<1> SUFFICES ASSUME key \in Store!UsedKeys PROVE FALSE
  OBVIOUS
<1>1. PICK j \in Signals : \E k \in DOMAIN events[j] : events[j][k].key = key
  BY DEF Store!UsedKeys, Store!Rows
<1>2. PICK k \in DOMAIN events[j] : events[j][k].key = key
  BY <1>1
<1> DEFINE to == events[j][k].to
<1>3. KeyNames(key, j, to) /\ Rank(to) <= Rank(status[j])
  BY <1>2 DEF KeysTellTargets
<1> HIDE DEF to
<1>4. i = j
  BY <1>3 DEF KeyNames
<1>5. Rank(status[i]) < Rank(target) /\ Rank(target) \in Nat /\ Rank(status[i]) \in Nat
      /\ Rank(to) \in Nat
  BY Moves, RankTyped
<1>6. to # target
  BY <1>3, <1>4, <1>5
<1>7. key[1] = "coverage"
  BY <1>3, <1>6 DEF KeyNames
<1>8. status[i] = "preparing" /\ to \in {"active", "coverage_failed"}
  BY <1>3, <1>7 DEF KeyNames
<1>9. QED BY <1>3, <1>4, <1>8 DEF Rank

(* So a transition is always applied, and never refused.                   *)
Closes(target) == target \in TerminalStatuses

Applied(s, target, key, time, left, then) ==
  /\ Store!ApplyTransition(views[s].id, target, key, time,
                           ActionStop(target), ActionQuantity(target))
  /\ views' = [views EXCEPT ![s] = Remembered(s, target)]
  /\ pending' = [pending EXCEPT ![s] = IF Closes(target) THEN NoAnchor ELSE left]
  /\ job' = IF Closes(target) THEN IdleJob ELSE then
  /\ IF Closes(target) THEN streamReady' = streamReady \ {s} /\ Unsubscribed({s})
     ELSE UNCHANGED <<streamReady, streamVars>>

Legal(s, target, key) ==
  /\ <<views[s].status, target>> \in SignalMoves
  /\ KeyNames(key, views[s].id, target)
  /\ key[1] \in {"trade", "fallback", "expired", "coverage"}
  /\ key[1] = "coverage" => views[s].status = "preparing"

LEMMA RememberedIs ==
  ASSUME TypeOK, MemoryMatchesRows, NEW s \in Symbols, Known(s),
         NEW target, <<views[s].status, target>> \in SignalMoves
  PROVE  /\ Closes(target) => Remembered(s, target) = NoView
         /\ ~Closes(target) =>
              /\ Remembered(s, target) # NoView
              /\ target \in TrackingStatuses
              /\ Remembered(s, target) \in ViewRecords
              /\ Remembered(s, target) =
                   [id |-> views[s].id, status |-> target,
                    stop |-> IF target = "tp1_reached" THEN "breakeven" ELSE views[s].stop,
                    last |-> views[s].last]
<1>1. Closes(target) => Remembered(s, target) = NoView
  BY DEF Remembered, Closes
<1>2. ASSUME ~Closes(target)
      PROVE  /\ Remembered(s, target) # NoView
             /\ target \in TrackingStatuses
             /\ Remembered(s, target) \in ViewRecords
             /\ Remembered(s, target) =
                  [id |-> views[s].id, status |-> target,
                   stop |-> IF target = "tp1_reached" THEN "breakeven" ELSE views[s].stop,
                   last |-> views[s].last]
  <2>1. target \in TrackingStatuses /\ target # "none"
    BY <1>2, Moves DEF Closes
  <2>2. Remembered(s, target) =
          [id |-> views[s].id, status |-> target,
           stop |-> IF target = "tp1_reached" THEN "breakeven" ELSE views[s].stop,
           last |-> views[s].last]
    <3>1. Remembered(s, target) =
            [views[s] EXCEPT !.status = target,
                             !.stop = IF target = "tp1_reached" THEN "breakeven" ELSE @]
      BY <1>2 DEF Remembered, Closes, ActionStop
    <3>2. views[s] = [id |-> views[s].id, status |-> views[s].status, stop |-> views[s].stop,
                      last |-> views[s].last]
      BY Remembers DEF ViewRecords
    <3>3. QED BY <3>1, <3>2
  <2>3. Remembered(s, target) \in ViewRecords
    BY <2>1, <2>2, Remembers DEF ViewRecords, Store!Stops
  <2>4. Remembered(s, target) # NoView
    <3>1. Remembered(s, target).status # "none"
      BY <2>1, <2>2
    <3>2. QED BY <3>1 DEF NoView
  <2>5. QED BY <2>1, <2>2, <2>3, <2>4
<1>3. QED BY <1>1, <1>2

LEMMA TransitionApplies ==
  ASSUME TypeOK, MemoryMatchesRows, RowsFit, NEW s \in Symbols, Known(s),
         NEW target, NEW key, NEW time, NEW left, NEW then, Legal(s, target, key),
         Transition(s, target, key, time, left, then)
  PROVE  Applied(s, target, key, time, left, then)
<1> DEFINE i == views[s].id
<1>1. i \in Signals /\ views[s].status = status[i]
  BY Remembers
<1>2. key \notin Store!UsedKeys
  BY <1>1, KeyIsFresh DEF Legal, RowsFit
<1>3. Store!TransitionAllowed(i, target)
  <2>1. tradeStatus[i] = Store!TradeStatusOf(status[i])
    BY <1>1 DEF RowsFit, Store!RowsAgree
  <2>2. QED BY <1>1, <2>1, Moves, SameTables DEF Legal, Store!TransitionAllowed
<1>4. Remembered(s, target) = NoView <=> Closes(target)
  BY RememberedIs DEF Legal
<1>5. QED BY <1>2, <1>3, <1>4 DEF Transition, Applied

-----------------------------------------------------------------------------
(* What the steps of the service do to the rows. *)

RowTimes == 0..(MaxTime + Lifetime)

LEMMA Facts ==
  ASSUME ServiceInvariant
  PROVE  /\ TypeOK /\ RowsFit /\ TapeFits /\ RowsInTime /\ EventsInOrder
         /\ JobFits /\ AgendaFits /\ MemoryFits
         /\ MemoryMatchesRows /\ NothingLeftBehind /\ NoIllegalTransition
  BY DEF ServiceInvariant

LEMMA ClockTyped ==
  ASSUME TypeOK
  PROVE  /\ clock \in Nat /\ clock <= MaxTime
         /\ \A s \in Symbols : Len(tape[s]) \in Nat /\ DOMAIN tape[s] = 1..Len(tape[s])
         /\ \A s \in Symbols : \A t \in 1..Len(tape[s]) : TimeOf(s, t) \in 0..MaxTime
<1>1. clock \in 0..MaxTime
      /\ tape \in [Symbols -> Seq([price : Prices \cup {FirstPrice}, time : 0..MaxTime])]
  BY DEF TypeOK
<1>2. clock \in Nat /\ clock <= MaxTime
  BY <1>1, Constants
<1>3. ASSUME NEW s \in Symbols
      PROVE  /\ Len(tape[s]) \in Nat /\ DOMAIN tape[s] = 1..Len(tape[s])
             /\ \A t \in 1..Len(tape[s]) : TimeOf(s, t) \in 0..MaxTime
  <2> DEFINE T == [price : Prices \cup {FirstPrice}, time : 0..MaxTime]
  <2>1. tape[s] \in Seq(T)
    BY <1>1
  <2>2. \A x \in T : x.time \in 0..MaxTime
    OBVIOUS
  <2> HIDE DEF T
  <2>3. QED BY <2>1, <2>2 DEF TimeOf
<1>4. QED BY <1>2, <1>3

(* The fields of a job the service is busy with. *)
LEMMA BusyTyped ==
  ASSUME TypeOK
  PROVE  /\ job.phase \in {"idle", "boot", "dead", "fetch", "live", "batch", "candles"}
         /\ job.phase = "idle" => job = IdleJob
         /\ job.phase = "boot" => job = BootJob
         /\ job.phase = "dead" => job = DeadJob
         /\ job.phase = "fetch" => job \in FetchJobs
         /\ job.phase \in {"live", "batch", "candles"} => job \in WorkJobs
<1>1. job \in {IdleJob, BootJob, DeadJob} \cup FetchJobs \cup WorkJobs
  BY DEF TypeOK
<1>2. QED BY <1>1 DEF IdleJob, BootJob, DeadJob, FetchJobs, WorkJobs

TransitionStep(s, target, key, time, left, then) ==
  /\ Known(s) /\ Legal(s, target, key)
  /\ target \in SignalStatuses /\ key \in EventKeys /\ time \in RowTimes
  /\ Applied(s, target, key, time, left, then)

LEMMA ExpiryApplies ==
  ASSUME ServiceInvariant, NEW s \in Symbols, NEW now \in 0..MaxTime, Known(s), Lapsed(s, now),
         Transition(s, "expired", <<"expired", views[s].id>>, Expires(views[s].id),
                    pending[s], IdleJob)
  PROVE  TransitionStep(s, "expired", <<"expired", views[s].id>>, Expires(views[s].id),
                        pending[s], IdleJob)
<1> DEFINE i == views[s].id
           key == <<"expired", i>>
<1>1. i \in Signals
  BY Facts, Remembers
<1>2. Legal(s, "expired", key)
  BY DEF Lapsed, Legal, KeyNames, SignalMoves
<1>3. key \in EventKeys
  BY <1>1 DEF EventKeys
<1>4. Expires(i) \in RowTimes
  <2>1. createdAt[i] <= clock /\ createdAt[i] \in 0..(MaxTime + Lifetime)
    BY <1>1, Facts, RowsTyped DEF RowsInTime
  <2>2. QED BY <2>1, Facts, ClockTyped, Constants, SMTT(20) DEF Expires, RowTimes
<1>5. "expired" \in SignalStatuses
  BY DEF SignalStatuses, TerminalStatuses
<1>6. QED BY <1>2, <1>3, <1>4, <1>5, Facts, TransitionApplies DEF TransitionStep

ActTime ==
  IF job.phase = "candles" THEN (job.at + 1) * MinuteTicks ELSE TimeOf(job.sym, job.at)

LEMMA ActApplies ==
  ASSUME ServiceInvariant, Act
  PROVE  /\ job.sym \in Symbols /\ job \in WorkJobs
         /\ TransitionStep(job.sym, job.acts[job.next], ActKey(views[job.sym].id), ActTime,
                           pending[job.sym], [job EXCEPT !.next = @ + 1])
<1> DEFINE s == job.sym
           i == views[s].id
           target == job.acts[job.next]
           key == ActKey(i)
<1>1. job \in WorkJobs /\ job.phase \in {"live", "batch", "candles"}
  BY Facts, BusyTyped DEF Act
<1>2. s \in Symbols /\ job.next \in {1, 2, 3} /\ job.at \in Nat
  BY <1>1 DEF WorkJobs
<1>3. Known(s) /\ ActsAhead(views[s].status)
  BY <1>1, Facts DEF JobFits, Busy
<1>4. /\ i \in Signals /\ SymbolOf[i] = s
  BY <1>2, <1>3, Facts, Remembers
<1>5. /\ <<views[s].status, target>> \in SignalMoves /\ target \in SignalStatuses
      /\ job.next \in {1, 2}
  BY <1>2, <1>3, NextAct DEF Act
<1>6. Legal(s, target, key)
  BY <1>5 DEF Legal, KeyNames, ActKey
<1>7. job.at \in KeyRef /\ ActTime \in RowTimes
  <2>1. /\ clock \in Nat /\ clock <= MaxTime /\ Len(tape[s]) \in Nat /\ Len(tape[s]) <= MaxTrades
        /\ \A t \in 1..Len(tape[s]) : TimeOf(s, t) \in 0..MaxTime
    BY <1>2, Facts, ClockTyped DEF TapeFits
  <2>2. CASE job.phase = "candles"
    <3>1. job.at \in 0..(MinuteOf(clock) - 1)
      BY <2>2, Facts DEF JobFits
    <3>2. job.at < clock /\ (job.at + 1) * MinuteTicks \in 0..clock
      BY <2>1, <3>1, MinuteEnds
    <3>3. QED BY <1>2, <2>1, <2>2, <3>2, Constants DEF KeyRef, ActTime, RowTimes
  <2>3. CASE job.phase # "candles"
    <3>1. job.at \in 1..Len(tape[s])
      <4>1. job.phase = "batch" /\ job.at = 0 => job.acts = <<>>
        BY Facts DEF JobFits
      <4>2. job.acts # <<>>
        BY <1>5 DEF Act
      <4>3. CASE job.phase = "batch"
        <5>1. job.at \in 0..Len(tape[s]) /\ job.at # 0
          BY <4>1, <4>2, <4>3, Facts DEF JobFits
        <5>2. QED BY <2>1, <5>1
      <4>4. CASE job.phase = "live"
        BY <4>4, Facts DEF JobFits
      <4>5. QED BY <1>1, <2>3, <4>3, <4>4
    <3>2. TimeOf(s, job.at) \in 0..MaxTime
      BY <2>1, <3>1
    <3>3. QED BY <2>1, <2>3, <3>1, <3>2, Constants DEF KeyRef, ActTime, RowTimes
  <2>4. QED BY <2>2, <2>3
<1>8. key \in EventKeys
  <2>1. target \in TerminalStatuses \cup TrackingStatuses
    <3>1. \A from, to : <<from, to>> \in SignalMoves
                         => to \in (TrackingStatuses \cup TerminalStatuses) \ {"preparing"}
      BY Moves
    <3>2. QED BY <1>5, <3>1
  <2>2. job.next - 1 \in {0, 1}
    BY <1>5
  <2>3. QED BY <1>4, <1>7, <2>1, <2>2 DEF EventKeys, ActKey
<1>9. Transition(s, target, key, ActTime, pending[s], [job EXCEPT !.next = @ + 1])
  BY DEF Act, ActTime
<1>10. QED
  BY <1>1, <1>2, <1>3, <1>5, <1>6, <1>7, <1>8, <1>9, Facts, TransitionApplies DEF TransitionStep

(* _establish_coverage in the terms of its four outcomes. *)
ReplayJob(rest) ==
  WorkJob("batch", job.sym, job.anchor,
          Merged(job.sym, rest, Buffered(job.sym, job.anchor), job.anchor), 0, <<>>)

Proven(rest) ==
  CoverageProven(job.sym, rest, Buffered(job.sym, job.anchor), job.anchor)

CandleJob ==
  WorkJob("candles", job.sym, job.anchor, MinuteOf(job.anchor)..(MinuteOf(clock) - 1), 0, <<>>)

EstablishedBy(rest) ==
  LET s   == job.sym
      key == <<"coverage", views[s].id, job.anchor>>
  IN \/ /\ Proven(rest)
        /\ TransitionStep(s, "active", key, job.anchor, NoAnchor, ReplayJob(rest))
     \/ /\ Proven(rest) /\ views[s].status # "preparing"
        /\ pending' = [pending EXCEPT ![s] = NoAnchor]
        /\ job' = ReplayJob(rest)
        /\ UNCHANGED <<storeVars, views, streamReady, streamVars>>
     \/ TransitionStep(s, "coverage_failed", key, clock, NoAnchor, IdleJob)
     \/ /\ views[s].status # "preparing"
        /\ \/ job' = IdleJob
           \/ MinuteOf(job.anchor)..(MinuteOf(clock) - 1) # {} /\ job' = CandleJob
        /\ UNCHANGED <<storeVars, memoryVars, streamVars>>

(* The answer leaves a doubt, or none. *)
Doubted(rest) ==
  doubtful' = IF Proven(rest) /\ Uncertain(job.sym, rest, Buffered(job.sym, job.anchor), job.anchor)
              THEN doubtful \cup {views[job.sym].id} ELSE doubtful

LEMMA EstablishApplies ==
  ASSUME ServiceInvariant, Establish
  PROVE  /\ job.sym \in Symbols /\ job.phase = "fetch" /\ Known(job.sym)
         /\ job.anchor = pending[job.sym] /\ job.anchor \in 0..clock
         /\ \E rest \in RestHistory(job.sym) : EstablishedBy(rest) /\ Doubted(rest)
         /\ UNCHANGED <<agenda, seen, worldVars, queue>>
<1> DEFINE s == job.sym
           i == views[s].id
           key == <<"coverage", i, job.anchor>>
<1>1. job \in FetchJobs /\ job.phase = "fetch"
  BY Facts, BusyTyped DEF Establish
<1>2. s \in Symbols /\ Known(s) /\ job.anchor = pending[s] /\ job.anchor \in Nat
  BY <1>1, Facts DEF FetchJobs, JobFits, Busy
<1>3. job.anchor <= clock
  BY <1>2, Facts DEF MemoryFits
<1>4. clock \in Nat /\ clock <= MaxTime
  BY Facts, ClockTyped
<1>5. i \in Signals
  BY <1>2, Facts, Remembers
<1>6. job.anchor \in KeyRef /\ job.anchor \in RowTimes /\ clock \in RowTimes
  BY <1>2, <1>3, <1>4, Constants DEF KeyRef, RowTimes
<1>7. key \in EventKeys
  BY <1>5, <1>6 DEF EventKeys
<1>8. ASSUME NEW target \in {"active", "coverage_failed"}, views[s].status = "preparing"
      PROVE  target \in SignalStatuses /\ Legal(s, target, key)
  BY <1>8 DEF Legal, KeyNames, SignalMoves, SignalStatuses, TrackingStatuses, TerminalStatuses
<1>9. PICK rest \in RestHistory(s) :
        /\ Doubted(rest)
        /\ \/ /\ Proven(rest) /\ views[s].status = "preparing"
              /\ Transition(s, "active", key, job.anchor, NoAnchor, ReplayJob(rest))
           \/ /\ Proven(rest) /\ views[s].status # "preparing"
              /\ pending' = [pending EXCEPT ![s] = NoAnchor]
              /\ job' = ReplayJob(rest)
              /\ UNCHANGED <<storeVars, views, streamReady, streamVars>>
           \/ /\ views[s].status = "preparing"
              /\ Transition(s, "coverage_failed", key, clock, NoAnchor, IdleJob)
           \/ /\ views[s].status # "preparing"
              /\ \/ job' = IdleJob
                 \/ MinuteOf(job.anchor)..(MinuteOf(clock) - 1) # {} /\ job' = CandleJob
              /\ UNCHANGED <<storeVars, memoryVars, streamVars>>
  BY DEF Establish, Proven, ReplayJob, CandleJob, Doubted
<1>10. ASSUME Proven(rest), views[s].status = "preparing",
              Transition(s, "active", key, job.anchor, NoAnchor, ReplayJob(rest))
       PROVE  EstablishedBy(rest)
  <2>1. TransitionStep(s, "active", key, job.anchor, NoAnchor, ReplayJob(rest))
    BY <1>2, <1>6, <1>7, <1>8, <1>10, Facts, TransitionApplies DEF TransitionStep
  <2>2. QED BY <1>10, <2>1 DEF EstablishedBy
<1>11. ASSUME views[s].status = "preparing",
              Transition(s, "coverage_failed", key, clock, NoAnchor, IdleJob)
       PROVE  EstablishedBy(rest)
  <2>1. TransitionStep(s, "coverage_failed", key, clock, NoAnchor, IdleJob)
    BY <1>2, <1>6, <1>7, <1>8, <1>11, Facts, TransitionApplies DEF TransitionStep
  <2>2. QED BY <2>1 DEF EstablishedBy
<1>12. \E r \in RestHistory(s) : EstablishedBy(r) /\ Doubted(r)
  BY <1>9, <1>10, <1>11 DEF EstablishedBy
<1>13. QED BY <1>1, <1>2, <1>3, <1>4, <1>12 DEF Establish, UnchangedByService

(* One symbol of the loop of _reconcile. *)
LEMMA ReconcileApplies ==
  ASSUME ServiceInvariant, NEW s \in Symbols, NEW now \in 0..MaxTime, ReconcileSymbol(s, now)
  PROVE  /\ Known(s) /\ job = IdleJob /\ <<s, now>> \in agenda
         /\ agenda' = agenda \ {<<s, now>>}
         /\ UNCHANGED <<seen, worldVars, queue>>
         /\ \/ TransitionStep(s, "expired", <<"expired", views[s].id>>, Expires(views[s].id),
                              pending[s], IdleJob)
            \/ /\ link[s] = "off"
               /\ link' = [link EXCEPT ![s] = "down"]
               /\ pending' = [pending EXCEPT ![s] = Anchor(s)]
               /\ UNCHANGED <<storeVars, received, opened, buffer, outgoing, views, streamReady, job>>
            \/ /\ link[s] # "off"
               /\ job' = IF pending[s] # NoAnchor /\ s \in streamReady THEN FetchJob(s) ELSE job
               /\ UNCHANGED <<storeVars, streamVars, memoryVars>>
<1>1. <<s, now>>[1] = s
  OBVIOUS
<1>2. Known(s)
  BY <1>1, Facts DEF ReconcileSymbol, AgendaFits
<1>3. QED BY <1>2, ExpiryApplies DEF ReconcileSymbol, UnchangedByService

-----------------------------------------------------------------------------
(* The rows keep what SignalStoreProofs proves of them, whoever asks for   *)
(* their transactions.                                                     *)
Rows == INSTANCE SignalStoreProofs WITH
          Keys <- EventKeys, Positions <- 1..MaxTrades, Times <- 0..(MaxTime + Lifetime)

LEMMA RowsAssumption == Rows!StoreAssumption
  BY Constants DEF Rows!StoreAssumption

LEMMA SameRows ==
  /\ Rows!TrackingStatuses = TrackingStatuses /\ Rows!TerminalStatuses = TerminalStatuses
  /\ Rows!SignalStatuses = SignalStatuses /\ Rows!TradeStatuses = TradeStatuses
  /\ Rows!SignalMoves = SignalMoves /\ Rows!VirtualTradeMoves = VirtualTradeMoves
  /\ Rows!EventRows = Store!EventRows /\ Rows!UsedKeys = Store!UsedKeys
  /\ \A t : /\ Rows!VirtualTradeTarget(t) = VirtualTradeTarget(t)
            /\ Rows!NotificationType(t) = Store!NotificationType(t)
            /\ Rows!TradeStatusOf(t) = Store!TradeStatusOf(t)
  /\ \A s : Rows!Tracked(s) = Store!Tracked(s)
<1>1. /\ Rows!TrackingStatuses = TrackingStatuses /\ Rows!TerminalStatuses = TerminalStatuses
      /\ Rows!SignalStatuses = SignalStatuses /\ Rows!TradeStatuses = TradeStatuses
      /\ Rows!SignalMoves = SignalMoves /\ Rows!VirtualTradeMoves = VirtualTradeMoves
  BY DEF Rows!TrackingStatuses, TrackingStatuses, Rows!TerminalStatuses, TerminalStatuses,
         Rows!SignalStatuses, SignalStatuses, Rows!TradeStatuses, TradeStatuses,
         Rows!SignalMoves, SignalMoves, Rows!VirtualTradeMoves, VirtualTradeMoves
<1>2. Rows!EventRows = Store!EventRows /\ Rows!UsedKeys = Store!UsedKeys
  BY <1>1, SameTables DEF Rows!EventRows, Store!EventRows, Rows!UsedKeys, Store!UsedKeys,
                          Rows!Rows, Store!Rows
<1>3. \A t : /\ Rows!VirtualTradeTarget(t) = VirtualTradeTarget(t)
             /\ Rows!NotificationType(t) = Store!NotificationType(t)
             /\ Rows!TradeStatusOf(t) = Store!TradeStatusOf(t)
  BY DEF Rows!VirtualTradeTarget, VirtualTradeTarget, Rows!NotificationType,
         Store!NotificationType, Rows!TradeStatusOf, Store!TradeStatusOf
<1>4. \A s : Rows!Tracked(s) = Store!Tracked(s)
  BY <1>1, SameTables DEF Rows!Tracked, Store!Tracked
<1>5. QED BY <1>1, <1>2, <1>3, <1>4

LEMMA SameInvariants ==
  /\ Rows!StoreTypeOK <=> Store!StoreTypeOK
  /\ Rows!RowsAgree <=> Store!RowsAgree
  /\ Rows!OneTrackedPerSymbol <=> Store!OneTrackedPerSymbol
<1>1. Rows!StoreTypeOK <=> Store!StoreTypeOK
  BY SameRows, SameTables, SMTT(30) DEF Rows!StoreTypeOK, Store!StoreTypeOK, Rows!Stops, Store!Stops,
                              Rows!Quantities, Store!Quantities
<1>2. Rows!RowsAgree <=> Store!RowsAgree
  BY SameRows DEF Rows!RowsAgree, Store!RowsAgree
<1>3. Rows!OneTrackedPerSymbol <=> Store!OneTrackedPerSymbol
  BY SameRows, SameTables DEF Rows!OneTrackedPerSymbol, Store!OneTrackedPerSymbol
<1>4. QED BY <1>1, <1>2, <1>3

(* What a step may do to the rows. *)
StoreMove ==
  \/ UNCHANGED storeVars
  \/ \E i \in Signals : Store!Publish(i, <<"candidate", i>>, TRUE, clock)
  \/ \E s \in Symbols, target \in SignalStatuses, key \in EventKeys, time \in RowTimes :
       /\ Known(s) /\ Legal(s, target, key)
       /\ Store!ApplyTransition(views[s].id, target, key, time,
                                ActionStop(target), ActionQuantity(target))
  \/ \E s \in Symbols : \E t \in 1..Len(tape[s]) :
       Known(s) /\ Store!CheckpointTrade(views[s].id, t)
  \/ \E s \in Symbols, key \in EventKeys, time \in RowTimes :
       /\ Known(s) /\ key = <<"recovered", views[s].id, job.anchor>>
       /\ Store!RecordTrackingEvent(views[s].id, key, time, status[views[s].id])

LEMMA SameTransactions ==
  ASSUME NEW i \in Signals, NEW key
  PROVE  /\ \A allowed, time : Store!Publish(i, key, allowed, time)
                                 => Rows!Publish(i, key, allowed, time)
         /\ \A target, time, stop, quantity :
              Store!ApplyTransition(i, target, key, time, stop, quantity)
                => Rows!ApplyTransition(i, target, key, time, stop, quantity)
         /\ \A t : Store!CheckpointTrade(i, t) => Rows!CheckpointTrade(i, t)
         /\ \A time, read : Store!RecordTrackingEvent(i, key, time, read)
                              => Rows!RecordTrackingEvent(i, key, time, read)
<1>1. \A allowed, time : Store!Publish(i, key, allowed, time)
                           => Rows!Publish(i, key, allowed, time)
  BY SameRows DEF Store!Publish, Rows!Publish, Store!EventRow, Rows!EventRow
<1>2. \A target, time, stop, quantity :
        Store!ApplyTransition(i, target, key, time, stop, quantity)
          => Rows!ApplyTransition(i, target, key, time, stop, quantity)
  <2>1. \A target : Rows!TransitionAllowed(i, target) <=> Store!TransitionAllowed(i, target)
    BY SameRows, SameTables DEF Store!TransitionAllowed, Rows!TransitionAllowed
  <2>2. \A target, time : /\ Rows!EventRow(i, key, target, time) = Store!EventRow(i, key, target, time)
                          /\ Rows!Notified(i, key, target) = Store!Notified(i, key, target)
    BY SameRows, SameTables DEF Store!EventRow, Rows!EventRow, Store!Notified, Rows!Notified
  <2>3. \A column, value : Rows!Updated(column, i, value) = Store!Updated(column, i, value)
    BY DEF Store!Updated, Rows!Updated
  <2>4. QED
    BY <2>1, <2>2, <2>3, SameRows, SameTables DEF Store!ApplyTransition, Rows!ApplyTransition
<1>3. \A t : Store!CheckpointTrade(i, t) => Rows!CheckpointTrade(i, t)
  BY DEF Store!CheckpointTrade, Rows!CheckpointTrade
<1>4. \A time, read : Store!RecordTrackingEvent(i, key, time, read)
                        => Rows!RecordTrackingEvent(i, key, time, read)
  BY SameRows DEF Store!RecordTrackingEvent, Rows!RecordTrackingEvent, Store!TrackingRow,
                  Rows!TrackingRow, Store!Rows, Rows!Rows
<1>5. QED BY <1>1, <1>2, <1>3, <1>4

LEMMA FinishChecks ==
  ASSUME ServiceInvariant, FinishLive \/ FinishBatch
  PROVE  /\ job.sym \in Symbols /\ Known(job.sym) /\ job.at \in 1..Len(tape[job.sym])
         /\ job \in WorkJobs
<1>1. job \in WorkJobs /\ job.sym \in Symbols /\ job.phase \in {"live", "batch"}
  BY Facts, BusyTyped DEF FinishLive, FinishBatch, JobDone, WorkJobs
<1>2. Known(job.sym)
  BY <1>1, Facts DEF JobFits, Busy
<1>3. CASE job.phase = "live"
  BY <1>1, <1>2, <1>3, Facts DEF JobFits
<1>4. CASE job.phase = "batch"
  <2>1. job.todo = {}
    BY <1>4 DEF FinishLive, FinishBatch, JobDone
  <2>2. job.at \in 0..Len(tape[job.sym]) /\ job.at # 0
    BY <1>4, <2>1, Facts DEF JobFits
  <2>3. QED BY <1>1, <1>2, <2>2, Facts, ClockTyped
<1>5. QED BY <1>1, <1>3, <1>4

LEMMA FinishCandlesRecords ==
  ASSUME ServiceInvariant, FinishCandles
  PROVE  /\ job.sym \in Symbols /\ Known(job.sym) /\ job \in WorkJobs
         /\ job.anchor = pending[job.sym] /\ job.anchor \in 0..clock
         /\ (job.at + 1) * MinuteTicks \in 0..clock
         /\ <<"recovered", views[job.sym].id, job.anchor>> \in EventKeys
<1>1. job \in WorkJobs /\ job.sym \in Symbols /\ job.phase = "candles"
      /\ job.anchor \in Nat \cup {NoAnchor}
  BY Facts, BusyTyped DEF FinishCandles, JobDone, WorkJobs
<1>2. Known(job.sym) /\ job.anchor = pending[job.sym] /\ job.anchor >= 0
  BY <1>1, Facts DEF JobFits, Busy
<1>3. clock \in Nat /\ clock <= MaxTime
  BY Facts, ClockTyped
<1>4. job.anchor \in 0..clock
  BY <1>1, <1>2, <1>3, Facts DEF MemoryFits, NoAnchor
<1>5. (job.at + 1) * MinuteTicks \in 0..clock
  BY <1>1, <1>3, Facts, MinuteEnds DEF JobFits
<1>6. <<"recovered", views[job.sym].id, job.anchor>> \in EventKeys
  BY <1>1, <1>2, <1>3, <1>4, Facts, Remembers, Constants DEF EventKeys, KeyRef
<1>7. QED BY <1>1, <1>2, <1>4, <1>5, <1>6

LEMMA StoreMoves == ASSUME ServiceInvariant, [Next]_vars PROVE StoreMove
<1>1. CASE Tick \/ (\E s \in Symbols : ExecuteTrade(s)) \/ UNCHANGED vars \/ Restart
  BY <1>1 DEF Tick, ExecuteTrade, Restart, vars, StoreMove
<1>2. ASSUME NEW i \in Signals, PublishSignal(i) PROVE StoreMove
  BY <1>2 DEF PublishSignal, StoreMove
<1>3. CASE Stream
  BY <1>3 DEF Stream, PutWaiting, Connect, Receive, MarkReady, Disconnect, UnchangedByStream,
              StoreMove
<1>4. ASSUME NEW s \in Symbols, NEW target, NEW key, NEW time, NEW left, NEW then,
             TransitionStep(s, target, key, time, left, then)
      PROVE  StoreMove
  BY <1>4 DEF TransitionStep, Applied, StoreMove
<1>5. ASSUME NEW s \in Symbols, NEW now \in 0..MaxTime, ReconcileSymbol(s, now) PROVE StoreMove
  BY <1>4, <1>5, ReconcileApplies DEF StoreMove
<1>6. CASE Act
  BY <1>4, <1>6, ActApplies
<1>7. CASE Establish
  BY <1>4, <1>7, EstablishApplies DEF EstablishedBy, StoreMove
<1>8. CASE FinishLive \/ FinishBatch
  BY <1>8, FinishChecks DEF FinishLive, FinishBatch, Checkpoint, StoreMove
<1>9. CASE FinishCandles
  <2>1. (job.at + 1) * MinuteTicks \in RowTimes
    BY <1>9, FinishCandlesRecords, Facts, ClockTyped, Constants DEF RowTimes
  <2>2. QED BY <1>9, <2>1, FinishCandlesRecords DEF FinishCandles, StoreMove
<1>10. CASE BeginReconcile \/ HandleDisconnected \/ HandleReady \/ HandleTrade
            \/ ReplayTrade \/ ReplayCandle
  BY <1>10 DEF BeginReconcile, HandleDisconnected, HandleReady, HandleTrade, ReplayTrade,
               ReplayCandle, StoreMove
<1>11. QED
  BY <1>1, <1>2, <1>3, <1>5, <1>6, <1>7, <1>8, <1>9, <1>10 DEF Next, World, Service

(* Whatever happens, the rows take a step of SignalStore. *)
LEMMA MovesAreTransactions ==
  ASSUME ServiceInvariant, StoreMove
  PROVE  [Rows!StoreNext]_(Rows!storeVars)
<1> USE Facts, Remembers, SameTransactions
<1>1. CASE UNCHANGED storeVars
  BY <1>1 DEF storeVars, Rows!storeVars
<1>2. ASSUME NEW i \in Signals, Store!Publish(i, <<"candidate", i>>, TRUE, clock)
      PROVE  Rows!StoreNext
  <2>1. <<"candidate", i>> \in EventKeys /\ clock \in 0..(MaxTime + Lifetime)
    BY ClockTyped, Constants DEF EventKeys
  <2>2. QED BY <1>2, <2>1 DEF Rows!StoreNext
<1>3. ASSUME NEW s \in Symbols, NEW target \in SignalStatuses, NEW key \in EventKeys,
             NEW time \in RowTimes, Known(s),
             Store!ApplyTransition(views[s].id, target, key, time,
                                   ActionStop(target), ActionQuantity(target))
      PROVE  Rows!StoreNext
  <2>1. /\ ActionStop(target) \in Rows!Stops \cup {"keep"}
        /\ ActionQuantity(target) \in Rows!Quantities \cup {"keep"}
    BY DEF ActionStop, ActionQuantity, Rows!Stops, Rows!Quantities
  <2>2. target \in Rows!SignalStatuses /\ time \in 0..(MaxTime + Lifetime)
    BY SameRows DEF RowTimes
  <2>3. Rows!ApplyTransition(views[s].id, target, key, time,
                             ActionStop(target), ActionQuantity(target))
    BY <1>3
  <2>4. views[s].id \in Signals
    BY <1>3
  <2> HIDE Facts, Remembers, SameTransactions
  <2>5. QED BY <2>1, <2>2, <2>3, <2>4 DEF Rows!StoreNext
<1>4. ASSUME NEW s \in Symbols, NEW t \in 1..Len(tape[s]), Known(s),
             Store!CheckpointTrade(views[s].id, t)
      PROVE  Rows!StoreNext
  <2>1. t \in 1..MaxTrades
    BY ClockTyped, Constants DEF TapeFits
  <2>2. QED BY <1>4, <2>1 DEF Rows!StoreNext
<1>5. ASSUME NEW s \in Symbols, NEW key \in EventKeys, NEW time \in RowTimes, Known(s),
             Store!RecordTrackingEvent(views[s].id, key, time, status[views[s].id])
      PROVE  Rows!StoreNext
  <2> DEFINE read == status[views[s].id]
  <2>1. views[s].id \in Signals /\ Rows!RecordTrackingEvent(views[s].id, key, time, read)
    BY <1>5
  <2>0. read \in Rows!SignalStatuses
    <3>1. views[s].status \in TrackingStatuses /\ views[s].status = status[views[s].id]
      BY <1>5, Facts, Remembers
    <3>2. QED BY <3>1, SameRows DEF SignalStatuses
  <2>2. time \in 0..(MaxTime + Lifetime)
    BY DEF RowTimes
  <2> HIDE Facts, Remembers, SameTransactions
  <2> HIDE DEF read
  <2>3. QED BY <2>0, <2>1, <2>2 DEF Rows!StoreNext
<1>6. QED BY <1>1, <1>2, <1>3, <1>4, <1>5 DEF StoreMove

LEMMA RowsTypedStep ==
  ASSUME ServiceInvariant, StoreMove
  PROVE  Store!StoreTypeOK' /\ Store!RowsAgree' /\ Store!OneTrackedPerSymbol'
<1>1. [Rows!StoreNext]_(Rows!storeVars)
  BY MovesAreTransactions
<1>2. Rows!StoreTypeOK /\ Rows!RowsAgree /\ Rows!OneTrackedPerSymbol
  BY Facts, SameInvariants DEF TypeOK, RowsFit
<1>3. Rows!StoreTypeOK' /\ Rows!RowsAgree' /\ Rows!OneTrackedPerSymbol'
  BY <1>1, <1>2, Rows!TypedStep, Rows!RowsAgreeStep, Rows!OneTrackedStep, RowsAssumption
<1>4. /\ Rows!StoreTypeOK' <=> Store!StoreTypeOK'
      /\ Rows!RowsAgree' <=> Store!RowsAgree'
      /\ Rows!OneTrackedPerSymbol' <=> Store!OneTrackedPerSymbol'
  BY SameInvariants, PTL
<1>5. QED BY <1>3, <1>4

(* A row that was appended, and what it says. *)
LEMMA Appended ==
  ASSUME TypeOK, NEW i \in Signals, NEW row,
         events' = [events EXCEPT ![i] = Append(@, row)]
  PROVE  \A j \in Signals : \A k \in DOMAIN events'[j] :
           \/ k \in DOMAIN events[j] /\ events'[j][k] = events[j][k]
           \/ j = i /\ events'[j][k] = row
<1> SUFFICES ASSUME NEW j \in Signals, NEW k \in DOMAIN events'[j]
             PROVE  \/ k \in DOMAIN events[j] /\ events'[j][k] = events[j][k]
                    \/ j = i /\ events'[j][k] = row
  OBVIOUS
<1>1. events \in [Signals -> Seq(Store!EventRows)]
  BY RowsTyped
<1>2. CASE j # i
  BY <1>1, <1>2
<1>3. CASE j = i
  <2>1. events'[i] = Append(events[i], row) /\ events[i] \in Seq(Store!EventRows)
    BY <1>1
  <2>2. /\ DOMAIN events[i] = 1..Len(events[i]) /\ Len(events[i]) \in Nat
        /\ DOMAIN Append(events[i], row) = 1..(Len(events[i]) + 1)
        /\ \A l \in 1..Len(events[i]) : Append(events[i], row)[l] = events[i][l]
        /\ Append(events[i], row)[Len(events[i]) + 1] = row
    BY <2>1, SMTT(30)
  <2>3. QED BY <1>3, <2>1, <2>2, SMTT(30)
<1>4. QED BY <1>2, <1>3

LEMMA KeysStep == ASSUME ServiceInvariant, StoreMove PROVE KeysTellTargets'
<1>1. TypeOK /\ KeysTellTargets
  BY Facts DEF RowsFit
<1>2. ASSUME NEW i \in Signals, NEW row, NEW new,
             events' = [events EXCEPT ![i] = Append(@, row)],
             status' = [status EXCEPT ![i] = new],
             KeyNames(row.key, i, row.to), row.to = new, Rank(status[i]) <= Rank(new)
      PROVE  KeysTellTargets'
  <2> SUFFICES ASSUME NEW j \in Signals, NEW k \in DOMAIN events'[j]
               PROVE  /\ KeyNames(events'[j][k].key, j, events'[j][k].to)
                      /\ Rank(events'[j][k].to) <= Rank(status'[j])
    BY DEF KeysTellTargets, KeyNames, Rank
  <2>1. Rank(status[j]) <= Rank(status'[j])
    <3>1. Rank(status[j]) \in Nat
      BY RankTyped
    <3>2. status'[j] = status[j] \/ (j = i /\ status'[j] = new)
      BY <1>1, <1>2, RowsTyped
    <3>3. QED BY <1>2, <3>1, <3>2
  <2>2. CASE k \in DOMAIN events[j] /\ events'[j][k] = events[j][k]
    <3>1. /\ KeyNames(events[j][k].key, j, events[j][k].to)
          /\ Rank(events[j][k].to) <= Rank(status[j])
      BY <1>1, <2>2 DEF KeysTellTargets
    <3>2. /\ Rank(events[j][k].to) \in Nat /\ Rank(status[j]) \in Nat
          /\ Rank(status'[j]) \in Nat
      BY RankTyped
    <3>3. QED BY <2>1, <2>2, <3>1, <3>2
  <2>3. CASE j = i /\ events'[j][k] = row
    <3>1. status'[i] = new
      BY <1>1, <1>2, RowsTyped
    <3>2. Rank(new) \in Nat
      BY RankTyped
    <3>3. events'[j][k].to = new /\ status'[j] = new
      BY <1>2, <2>3, <3>1
    <3>4. Rank(new) <= Rank(new)
      BY <3>2
    <3>5. KeyNames(events'[j][k].key, j, events'[j][k].to)
      BY <1>2, <2>3
    <3>6. QED BY <3>3, <3>4, <3>5
  <2>4. QED BY <1>1, <1>2, <2>2, <2>3, Appended, SMTT(30)
<1>3. CASE UNCHANGED <<status, events>>
  BY <1>1, <1>3 DEF KeysTellTargets, KeyNames, Rank
<1>4. ASSUME NEW i \in Signals, Store!Publish(i, <<"candidate", i>>, TRUE, clock)
      PROVE  KeysTellTargets'
  <2> DEFINE row == [key |-> <<"candidate", i>>, from |-> status[i], to |-> "preparing",
                     time |-> clock]
  <2>1. /\ events' = [events EXCEPT ![i] = Append(@, row)]
        /\ status' = [status EXCEPT ![i] = "preparing"] /\ status[i] = "absent"
    BY <1>4 DEF Store!Publish, Store!EventRow
  <2>2. KeyNames(row.key, i, row.to)
    BY DEF KeyNames
  <2>3. Rank("absent") <= Rank("preparing")
    BY DEF Rank
  <2>4. QED BY <1>2, <2>1, <2>2, <2>3
<1>5. ASSUME NEW s \in Symbols, NEW target \in SignalStatuses, NEW key \in EventKeys,
             NEW time \in RowTimes, Known(s), Legal(s, target, key),
             Store!ApplyTransition(views[s].id, target, key, time,
                                   ActionStop(target), ActionQuantity(target))
      PROVE  KeysTellTargets'
  <2> DEFINE i == views[s].id
             row == [key |-> key, from |-> status[i], to |-> target, time |-> time]
  <2>1. i \in Signals /\ views[s].status = status[i]
    BY <1>5, Facts, Remembers
  <2>2. /\ events' = [events EXCEPT ![i] = Append(@, row)]
        /\ status' = [status EXCEPT ![i] = target]
    BY <1>5 DEF Store!ApplyTransition, Store!EventRow
  <2>3. KeyNames(row.key, i, row.to) /\ <<status[i], target>> \in SignalMoves
    BY <1>5, <2>1 DEF Legal
  <2>4. Rank(status[i]) <= Rank(target)
    <3>1. Rank(status[i]) < Rank(target) /\ Rank(status[i]) \in Nat /\ Rank(target) \in Nat
      BY <2>3, Moves
    <3>2. QED BY <3>1
  <2>5. QED BY <1>2, <2>1, <2>2, <2>3, <2>4
<1>6. ASSUME NEW s \in Symbols, NEW key \in EventKeys, NEW time \in RowTimes, Known(s),
             key = <<"recovered", views[s].id, job.anchor>>,
             Store!RecordTrackingEvent(views[s].id, key, time, status[views[s].id])
      PROVE  KeysTellTargets'
  <2> DEFINE i == views[s].id
             row == [key |-> key, from |-> status[i], to |-> status[i], time |-> time]
  <2>1. i \in Signals
    BY <1>6, Facts, Remembers
  <2>2. CASE key \in Store!UsedKeys
    BY <1>3, <1>6, <2>2 DEF Store!RecordTrackingEvent
  <2>3. CASE key \notin Store!UsedKeys
    <3>1. /\ events' = [events EXCEPT ![i] = Append(@, row)]
          /\ status' = [status EXCEPT ![i] = status[i]]
      BY <1>1, <1>6, <2>1, <2>3, RowsTyped DEF Store!RecordTrackingEvent, Store!TrackingRow
    <3>2. KeyNames(row.key, i, row.to)
      BY <1>6 DEF KeyNames
    <3>3. Rank(status[i]) <= Rank(status[i])
      BY RankTyped
    <3>4. QED BY <1>2, <2>1, <3>1, <3>2, <3>3
  <2>4. QED BY <2>2, <2>3
<1>7. CASE \E s \in Symbols : \E t \in 1..Len(tape[s]) :
             Known(s) /\ Store!CheckpointTrade(views[s].id, t)
  BY <1>3, <1>7 DEF Store!CheckpointTrade
<1>8. CASE UNCHANGED storeVars
  BY <1>3, <1>8 DEF storeVars
<1>9. QED BY <1>4, <1>5, <1>6, <1>7, <1>8 DEF StoreMove

LEMMA PositionStep == ASSUME ServiceInvariant, StoreMove PROVE PositionFollows'
<1>1. TypeOK /\ PositionFollows
  BY Facts DEF RowsFit
<1>2. CASE UNCHANGED <<status, currentStop, remaining>>
  BY <1>1, <1>2 DEF PositionFollows
<1>3. ASSUME NEW i \in Signals, Store!Publish(i, <<"candidate", i>>, TRUE, clock)
      PROVE  PositionFollows'
  BY <1>1, <1>3, RowsTyped DEF Store!Publish, PositionFollows
<1>4. ASSUME NEW s \in Symbols, NEW target \in SignalStatuses, NEW key \in EventKeys,
             NEW time \in RowTimes, Known(s), Legal(s, target, key),
             Store!ApplyTransition(views[s].id, target, key, time,
                                   ActionStop(target), ActionQuantity(target))
      PROVE  PositionFollows'
  <2> DEFINE i == views[s].id
  <2>1. i \in Signals /\ <<status[i], target>> \in SignalMoves
    BY <1>4, Facts, Remembers DEF Legal
  <2>2. /\ status' = [status EXCEPT ![i] = target]
        /\ currentStop' = Store!Updated(currentStop, i, ActionStop(target))
        /\ remaining' = Store!Updated(remaining, i, ActionQuantity(target))
    BY <1>4 DEF Store!ApplyTransition
  <2>3. \A j \in Signals : j # i =>
          /\ status'[j] = status[j] /\ currentStop'[j] = currentStop[j]
          /\ remaining'[j] = remaining[j]
    BY <1>1, <2>1, <2>2, RowsTyped DEF Store!Updated
  <2>4. /\ status'[i] = target
        /\ currentStop'[i] = IF target = "tp1_reached" THEN "breakeven" ELSE currentStop[i]
        /\ ActionQuantity(target) = "keep" => remaining'[i] = remaining[i]
        /\ ActionQuantity(target) # "keep" => remaining'[i] = ActionQuantity(target)
    BY <1>1, <2>1, <2>2, RowsTyped DEF Store!Updated, ActionStop
  <2>5. /\ target \in {"active", "entered"} =>
             status[i] \in {"preparing", "active"} /\ ActionQuantity(target) = "keep"
        /\ target = "tp1_reached" => ActionQuantity(target) = "half"
        /\ target \notin {"absent", "preparing"}
    BY <2>1 DEF SignalMoves, ActionQuantity
  <2>6. QED BY <1>1, <2>1, <2>3, <2>4, <2>5 DEF PositionFollows
<1>5. QED
  BY <1>2, <1>3, <1>4 DEF StoreMove, storeVars, Store!CheckpointTrade, Store!RecordTrackingEvent

LEMMA RowsStep == ASSUME ServiceInvariant, StoreMove PROVE RowsFit'
  BY RowsTypedStep, KeysStep, PositionStep DEF RowsFit

-----------------------------------------------------------------------------
(* The exchange and the clock. *)

LEMMA WorldMoves ==
  ASSUME [Next]_vars
  PROVE  \/ Tick
         \/ \E s \in Symbols : ExecuteTrade(s)
         \/ UNCHANGED <<clock, tape>>
<1> USE DEF UnchangedByService, worldVars
<1>1. CASE Stream \/ Restart \/ UNCHANGED vars \/ \E i \in Signals : PublishSignal(i)
  BY <1>1 DEF Stream, PutWaiting, Connect, Receive, MarkReady, Disconnect, UnchangedByStream,
              Restart, vars, PublishSignal
<1>2. CASE Service
  BY <1>2 DEF Service, BeginReconcile, ReconcileSymbol, HandleDisconnected, HandleReady,
              HandleTrade, Act, FinishLive, Establish, ReplayTrade, FinishBatch, ReplayCandle,
              FinishCandles
<1>3. QED BY <1>1, <1>2 DEF Next, World

Trades == [price : Prices \cup {FirstPrice}, time : 0..MaxTime]

(* The tape with one more trade at its end. *)
LEMMA Executed ==
  ASSUME TypeOK, NEW s \in Symbols, ExecuteTrade(s)
  PROVE  /\ clock' = clock /\ Len(tape[s]) < MaxTrades
         /\ tape' \in [Symbols -> Seq(Trades)]
         /\ Len(tape[s]) \in Nat /\ Len(tape'[s]) = Len(tape[s]) + 1
         /\ \A t \in 1..Len(tape[s]) : tape'[s][t] = tape[s][t]
         /\ tape'[s][Len(tape[s]) + 1].time = clock
         /\ \A x \in Symbols : x # s => tape'[x] = tape[x]
<1>1. PICK price \in Prices :
        tape' = [tape EXCEPT ![s] = Append(@, [price |-> price, time |-> clock])]
  BY DEF ExecuteTrade
<1> DEFINE new == [price |-> price, time |-> clock]
<1>2. new \in Trades /\ new.time = clock
  BY DEF TypeOK, Trades
<1>3. tape \in [Symbols -> Seq(Trades)]
  BY DEF TypeOK, Trades
<1> HIDE DEF new
<1>4. tape[s] \in Seq(Trades) /\ tape'[s] = Append(tape[s], new)
  BY <1>1, <1>3 DEF new
<1>5. /\ Append(tape[s], new) \in Seq(Trades) /\ Len(tape[s]) \in Nat
      /\ Len(Append(tape[s], new)) = Len(tape[s]) + 1
      /\ \A t \in 1..Len(tape[s]) : Append(tape[s], new)[t] = tape[s][t]
      /\ Append(tape[s], new)[Len(tape[s]) + 1] = new
  BY <1>2, <1>4, SMTT(30)
<1>6. \A x \in Symbols : x # s => tape'[x] = tape[x]
  BY <1>1, <1>3
<1>7. tape' \in [Symbols -> Seq(Trades)]
  BY <1>1, <1>3, <1>4, <1>5 DEF new
<1>8. QED BY <1>2, <1>4, <1>5, <1>6, <1>7 DEF ExecuteTrade

LEMMA TapeTyped == ASSUME TypeOK, [Next]_vars PROVE
  /\ clock' \in 0..MaxTime /\ tape' \in [Symbols -> Seq(Trades)]
  /\ clock <= clock' /\ \A s \in Symbols : Len(tape[s]) <= Len(tape'[s]) /\ Len(tape'[s]) \in Nat
  /\ \A s \in Symbols : \A t \in 1..Len(tape[s]) : tape'[s][t] = tape[s][t]
<1>1. clock \in 0..MaxTime /\ tape \in [Symbols -> Seq(Trades)]
  BY DEF TypeOK, Trades
<1>2. \A s \in Symbols : Len(tape[s]) \in Nat
  BY <1>1
<1>3. CASE Tick
  BY <1>1, <1>2, <1>3, Constants DEF Tick
<1>4. ASSUME NEW s \in Symbols, ExecuteTrade(s)
      PROVE  /\ clock' \in 0..MaxTime /\ tape' \in [Symbols -> Seq(Trades)]
             /\ clock <= clock'
             /\ \A x \in Symbols : Len(tape[x]) <= Len(tape'[x]) /\ Len(tape'[x]) \in Nat
             /\ \A x \in Symbols : \A t \in 1..Len(tape[x]) : tape'[x][t] = tape[x][t]
  <2>1. ASSUME NEW x \in Symbols
        PROVE  /\ Len(tape[x]) <= Len(tape'[x]) /\ Len(tape'[x]) \in Nat
               /\ \A t \in 1..Len(tape[x]) : tape'[x][t] = tape[x][t]
    <3>1. CASE x = s
      BY <1>2, <1>4, <3>1, Executed, SMTT(20)
    <3>2. CASE x # s
      <4>1. tape'[x] = tape[x] /\ Len(tape[x]) \in Nat
        BY <1>2, <1>4, <3>2, Executed
      <4>2. QED BY <4>1
    <3>3. QED BY <3>1, <3>2
  <2>2. clock' = clock /\ clock \in Int /\ tape' \in [Symbols -> Seq(Trades)]
    BY <1>1, <1>4, Executed, Constants
  <2>3. clock' \in 0..MaxTime /\ clock <= clock'
    BY <1>1, <2>2
  <2>4. /\ \A x \in Symbols : Len(tape[x]) <= Len(tape'[x]) /\ Len(tape'[x]) \in Nat
        /\ \A x \in Symbols : \A t \in 1..Len(tape[x]) : tape'[x][t] = tape[x][t]
    BY <2>1
  <2>5. QED BY <2>2, <2>3, <2>4
<1>5. CASE UNCHANGED <<clock, tape>>
  BY <1>1, <1>2, <1>5
<1>6. QED BY <1>3, <1>4, <1>5, WorldMoves

LEMMA TapeStep == ASSUME TypeOK, TapeFits, [Next]_vars PROVE TapeFits'
<1> USE Constants
<1>1. /\ clock \in Nat /\ \A s \in Symbols : Len(tape[s]) \in 1..MaxTrades
      /\ \A s \in Symbols : \A t \in 1..Len(tape[s]) : TimeOf(s, t) \in 0..MaxTime
  BY ClockTyped DEF TapeFits
<1>2. CASE Tick
  BY <1>1, <1>2 DEF Tick, TapeFits, TimeOf
<1>3. ASSUME NEW s \in Symbols, ExecuteTrade(s), NEW x \in Symbols
      PROVE  /\ Len(tape'[x]) \in 1..MaxTrades
             /\ \A t, u \in 1..Len(tape'[x]) : t <= u => tape'[x][t].time <= tape'[x][u].time
             /\ \A t \in 1..Len(tape'[x]) : tape'[x][t].time <= clock'
  <2>1. CASE x # s
    BY <1>3, <2>1, Executed DEF TapeFits, TimeOf
  <2>2. CASE x = s
    <3>1. /\ Len(tape[s]) \in Nat /\ Len(tape'[s]) = Len(tape[s]) + 1
          /\ Len(tape[s]) < MaxTrades /\ clock' = clock
          /\ \A t \in 1..Len(tape[s]) : tape'[s][t] = tape[s][t]
          /\ tape'[s][Len(tape[s]) + 1].time = clock
      BY <1>3, Executed
    <3>2. \A t, u \in 1..Len(tape[s]) : t <= u => tape[s][t].time <= tape[s][u].time
      BY DEF TapeFits, TimeOf
    <3>3. \A t \in 1..Len(tape[s]) : tape[s][t].time <= clock /\ tape[s][t].time \in Nat
      BY <1>1 DEF TapeFits, TimeOf
    <3>4. Len(tape'[s]) \in 1..MaxTrades
      BY <3>1
    <3>5. \A t \in 1..Len(tape'[s]) : t = Len(tape[s]) + 1 \/ t \in 1..Len(tape[s])
      BY <3>1
    <3>6. \A t \in 1..Len(tape'[s]) : tape'[s][t].time <= clock
      BY <1>1, <3>1, <3>3, <3>5, SMTT(30)
    <3>7. ASSUME NEW t \in 1..Len(tape'[s]), NEW u \in 1..Len(tape'[s]), t <= u
          PROVE  tape'[s][t].time <= tape'[s][u].time
      <4>1. CASE u = Len(tape[s]) + 1
        BY <3>1, <3>6, <4>1
      <4>2. CASE u \in 1..Len(tape[s])
        <5>1. t \in 1..Len(tape[s])
          BY <3>1, <3>7, <4>2
        <5>2. QED BY <3>1, <3>2, <3>7, <4>2, <5>1
      <4>3. QED BY <3>5, <4>1, <4>2
    <3>8. QED BY <2>2, <3>1, <3>4, <3>6, <3>7
  <2>3. QED BY <2>1, <2>2
<1>4. CASE \E s \in Symbols : ExecuteTrade(s)
  BY <1>3, <1>4 DEF TapeFits, TimeOf
<1>5. CASE UNCHANGED <<clock, tape>>
  BY <1>5 DEF TapeFits, TimeOf
<1>6. QED BY <1>2, <1>4, <1>5, WorldMoves

(* Times and positions in the rows are of the past. *)
LEMMA RowsInTimeStep ==
  ASSUME ServiceInvariant, StoreMove, [Next]_vars PROVE RowsInTime'
<1> SUFFICES ASSUME NEW i \in Signals
             PROVE  createdAt'[i] <= clock' /\ checkpoint'[i] <= Len(tape'[SymbolOf[i]])
  BY DEF RowsInTime
<1>1. /\ clock <= clock' /\ clock \in Int /\ clock' \in Int
      /\ \A s \in Symbols : /\ Len(tape[s]) <= Len(tape'[s])
                            /\ Len(tape[s]) \in Int /\ Len(tape'[s]) \in Int
  BY Facts, TapeTyped, ClockTyped
<1>2. /\ SymbolOf[i] \in Symbols /\ createdAt[i] \in Int /\ checkpoint[i] \in Int
      /\ createdAt[i] <= clock /\ checkpoint[i] <= Len(tape[SymbolOf[i]])
  BY Facts, RowsTyped, Constants DEF RowsInTime
<1> DEFINE m == Len(tape[SymbolOf[i]])
           n == Len(tape'[SymbolOf[i]])
<1>9. m \in Int /\ n \in Int /\ m <= n
  BY <1>1, <1>2
<1> HIDE DEF m, n
<1>3. CASE UNCHANGED <<createdAt, checkpoint>>
  <2>1. createdAt'[i] = createdAt[i] /\ checkpoint'[i] = checkpoint[i]
    BY <1>3
  <2>2. createdAt'[i] <= clock' /\ checkpoint'[i] <= n
    BY <1>1, <1>2, <1>9, <2>1, SMTT(30) DEF m
  <2>3. QED BY <2>2 DEF n
<1>4. ASSUME NEW j \in Signals, Store!Publish(j, <<"candidate", j>>, TRUE, clock)
      PROVE  createdAt'[i] <= clock' /\ checkpoint'[i] <= Len(tape'[SymbolOf[i]])
  <2>1. createdAt'[i] = createdAt[i] \/ createdAt'[i] = clock
    BY <1>4, Facts, RowsTyped DEF Store!Publish
  <2>2. checkpoint'[i] = checkpoint[i]
    BY <1>4 DEF Store!Publish
  <2>3. createdAt'[i] <= clock' /\ checkpoint'[i] <= n
    BY <1>1, <1>2, <1>9, <2>1, <2>2, SMTT(30) DEF m
  <2>4. QED BY <2>3 DEF n
<1>5. ASSUME NEW s \in Symbols, NEW t \in 1..Len(tape[s]), Known(s),
             Store!CheckpointTrade(views[s].id, t)
      PROVE  createdAt'[i] <= clock' /\ checkpoint'[i] <= Len(tape'[SymbolOf[i]])
  <2>1. \/ checkpoint'[i] = checkpoint[i]
        \/ (checkpoint'[i] = t /\ SymbolOf[i] = s)
    BY <1>5, Facts, Remembers, RowsTyped DEF Store!CheckpointTrade
  <2>2. createdAt'[i] = createdAt[i]
    BY <1>5 DEF Store!CheckpointTrade
  <2>3. SymbolOf[i] = s => t \in 1..m
    BY DEF m
  <2>4. t \in 1..m => t <= n
    BY <1>9
  <2>5. checkpoint[i] <= n
    BY <1>2, <1>9 DEF m
  <2>6. checkpoint'[i] <= n
    BY <2>1, <2>3, <2>4, <2>5
  <2>7. createdAt'[i] <= clock'
    BY <1>1, <1>2, <2>2
  <2>8. QED BY <2>6, <2>7 DEF n
<1>6. QED
  BY <1>3, <1>4, <1>5
     DEF StoreMove, storeVars, Store!ApplyTransition, Store!RecordTrackingEvent

-----------------------------------------------------------------------------
(* The streams. *)

(* A step of the service or the world takes an event from the queue at     *)
(* most, and ends or begins subscriptions.                                 *)
Subscribes(s) ==
  /\ link[s] = "off" /\ Known(s)
  /\ link' = [link EXCEPT ![s] = "down"]
  /\ pending' = [pending EXCEPT ![s] = Anchor(s)]
  /\ UNCHANGED <<storeVars, received, opened, buffer, outgoing, queue, views, streamReady, job, seen>>

QuietStreams ==
  \/ UNCHANGED streamVars
  \/ \E S \in SUBSET Symbols : Unsubscribed(S)
  \/ \E s \in Symbols : Subscribes(s)

LEMMA StreamsAreQuiet ==
  ASSUME ServiceInvariant, [Next]_vars, ~Stream
  PROVE  /\ QuietStreams /\ UNCHANGED disconnects
         /\ \/ UNCHANGED queue
            \/ (queue # <<>> /\ queue' = Tail(queue))
            \/ queue' = <<>>
<1> DEFINE Goal == /\ QuietStreams /\ UNCHANGED disconnects
                   /\ \/ UNCHANGED queue
                      \/ (queue # <<>> /\ queue' = Tail(queue))
                      \/ queue' = <<>>
<1> USE DEF UnchangedByService, worldVars
<1>1. CASE World \/ UNCHANGED vars \/ FinishLive \/ ReplayTrade \/ FinishBatch \/ ReplayCandle
           \/ FinishCandles
  BY <1>1 DEF World, Tick, ExecuteTrade, PublishSignal, vars, FinishLive, ReplayTrade,
              FinishBatch, ReplayCandle, FinishCandles, QuietStreams
<1>2. CASE Restart
  <2>1. Symbols \in SUBSET Symbols
    OBVIOUS
  <2>2. QED BY <1>2, <2>1 DEF Restart, QuietStreams
<1>3. CASE HandleDisconnected \/ HandleReady \/ HandleTrade
  BY <1>3 DEF HandleDisconnected, HandleReady, HandleTrade, NextEvent, QuietStreams
<1>4. CASE BeginReconcile
  <2> DEFINE S == {s \in Symbols : Known(s) /\ StoredView(s) = NoView}
  <2>1. Unsubscribed(S) /\ S \in SUBSET Symbols
    BY <1>4 DEF BeginReconcile
  <2>2. QED BY <1>4, <2>1 DEF BeginReconcile, QuietStreams
<1>5. ASSUME NEW s \in Symbols, NEW target, NEW key, NEW time, NEW left, NEW then,
             TransitionStep(s, target, key, time, left, then)
      PROVE  QuietStreams
  <2>1. {s} \in SUBSET Symbols
    OBVIOUS
  <2>2. QED BY <1>5, <2>1 DEF TransitionStep, Applied, QuietStreams
<1>6. ASSUME NEW s \in Symbols, NEW now \in 0..MaxTime, ReconcileSymbol(s, now) PROVE Goal
  <2>1. CASE TransitionStep(s, "expired", <<"expired", views[s].id>>, Expires(views[s].id),
                            pending[s], IdleJob)
    BY <1>5, <1>6, <2>1, ReconcileApplies
  <2>2. CASE /\ link[s] = "off"
             /\ link' = [link EXCEPT ![s] = "down"]
             /\ pending' = [pending EXCEPT ![s] = Anchor(s)]
             /\ UNCHANGED <<storeVars, received, opened, buffer, outgoing, views, streamReady, job>>
    BY <1>6, <2>2, ReconcileApplies DEF QuietStreams, Subscribes
  <2>3. QED BY <1>6, <2>1, <2>2, ReconcileApplies DEF QuietStreams
<1>7. CASE Act
  BY <1>5, <1>7, ActApplies DEF Act
<1>8. CASE Establish
  BY <1>5, <1>8, EstablishApplies DEF EstablishedBy, QuietStreams
<1>9. QED
  BY <1>1, <1>2, <1>3, <1>4, <1>6, <1>7, <1>8 DEF Next, Service

StreamsTyped ==
  /\ link \in [Symbols -> {"off", "down", "open", "buffered", "ready"}]
  /\ received \in [Symbols -> 0..MaxTrades]
  /\ buffer \in [Symbols -> SUBSET (1..MaxTrades)]
  /\ \A s \in Symbols : buffer[s] \subseteq 1..Len(tape[s]) /\ Cardinality(buffer[s]) <= BufferSize
  /\ outgoing \in [Symbols -> Seq(StreamEvents)]
  /\ queue \in Seq(StreamEvents) /\ Len(queue) <= QueueSize
  /\ disconnects \in 0..MaxDisconnects

LEMMA QueueTail ==
  ASSUME NEW Q, NEW q \in Seq(Q), q # <<>>
  PROVE  /\ Tail(q) \in Seq(Q) /\ Len(q) \in Nat /\ Len(Tail(q)) = Len(q) - 1
         /\ DOMAIN q = 1..Len(q) /\ DOMAIN Tail(q) = 1..(Len(q) - 1)
         /\ \A k \in DOMAIN Tail(q) : k + 1 \in DOMAIN q /\ Tail(q)[k] = q[k + 1]
         /\ Head(q) \in Q /\ Head(q) = q[1] /\ 1 \in DOMAIN q
  OBVIOUS

LEMMA QueueAppend ==
  ASSUME NEW Q, NEW q \in Seq(Q), NEW e \in Q
  PROVE  /\ Append(q, e) \in Seq(Q) /\ Len(q) \in Nat /\ Len(Append(q, e)) = Len(q) + 1
         /\ DOMAIN q = 1..Len(q) /\ DOMAIN Append(q, e) = 1..(Len(q) + 1)
         /\ \A k \in 1..Len(q) : Append(q, e)[k] = q[k]
         /\ Append(q, e)[Len(q) + 1] = e
  OBVIOUS

LEMMA QuietStreamsFit ==
  ASSUME ServiceInvariant, [Next]_vars, ~Stream
  PROVE  StreamsTyped' /\ EventsInOrder'
<1>1. StreamsTyped
  BY Facts DEF TypeOK, StreamsTyped
<1>2. QuietStreams /\ disconnects' = disconnects
      /\ \/ UNCHANGED queue
         \/ (queue # <<>> /\ queue' = Tail(queue))
         \/ queue' = <<>>
  BY StreamsAreQuiet
<1>3. \A s \in Symbols : /\ Len(tape[s]) <= Len(tape'[s]) /\ Len(tape[s]) \in Nat
                         /\ Len(tape'[s]) \in Nat
  BY Facts, TapeTyped, ClockTyped
<1>4. /\ link' \in [Symbols -> {"off", "down", "open", "buffered", "ready"}]
      /\ received' = received
      /\ buffer' \in [Symbols -> SUBSET (1..MaxTrades)]
      /\ outgoing' \in [Symbols -> Seq(StreamEvents)]
      /\ \A s \in Symbols : /\ buffer'[s] = buffer[s] \/ buffer'[s] = {}
                            /\ outgoing'[s] = outgoing[s] \/ outgoing'[s] = <<>>
  <2> DEFINE L == {"off", "down", "open", "buffered", "ready"}
  <2>1. /\ link \in [Symbols -> L]
        /\ buffer \in [Symbols -> SUBSET (1..MaxTrades)]
        /\ outgoing \in [Symbols -> Seq(StreamEvents)]
    BY <1>1 DEF StreamsTyped
  <2>2. <<>> \in Seq(StreamEvents) /\ "off" \in L /\ "down" \in L
    OBVIOUS
  <2>3. CASE UNCHANGED streamVars
    BY <2>1, <2>3 DEF streamVars
  <2>4. ASSUME NEW S \in SUBSET Symbols, Unsubscribed(S)
        PROVE  /\ link' \in [Symbols -> L] /\ received' = received
               /\ buffer' \in [Symbols -> SUBSET (1..MaxTrades)]
               /\ outgoing' \in [Symbols -> Seq(StreamEvents)]
               /\ \A s \in Symbols : /\ buffer'[s] = buffer[s] \/ buffer'[s] = {}
                                     /\ outgoing'[s] = outgoing[s] \/ outgoing'[s] = <<>>
    <3> HIDE DEF L
    <3>1. QED BY <2>1, <2>2, <2>4 DEF Unsubscribed
  <2>5. CASE \E s \in Symbols : Subscribes(s)
    BY <2>1, <2>2, <2>5 DEF Subscribes
  <2>6. QED BY <1>2, <2>3, <2>4, <2>5 DEF QuietStreams
<1>5. ASSUME NEW s \in Symbols
      PROVE  buffer'[s] \subseteq 1..Len(tape'[s]) /\ Cardinality(buffer'[s]) <= BufferSize
  <2>1. CASE buffer'[s] = {}
    BY <2>1, FS_EmptySet, Constants
  <2>2. CASE buffer'[s] = buffer[s]
    BY <1>1, <1>3, <2>2, SMTT(30) DEF StreamsTyped
  <2>3. QED BY <1>4, <2>1, <2>2
<1>6. queue' \in Seq(StreamEvents) /\ Len(queue') <= QueueSize
  <2>1. CASE queue' = <<>>
    BY <2>1, Constants
  <2>2. CASE queue # <<>> /\ queue' = Tail(queue)
    BY <1>1, <2>2, QueueTail, Constants DEF StreamsTyped
  <2>3. QED BY <1>1, <1>2, <2>1, <2>2 DEF StreamsTyped
<1>7. StreamsTyped'
  BY <1>1, <1>2, <1>4, <1>5, <1>6 DEF StreamsTyped
<1>8. \E d \in {0, 1} : \A k \in DOMAIN queue' : /\ k + d \in DOMAIN queue /\ k \in Int
                                                 /\ queue'[k] = queue[k + d]
  <2>1. CASE queue' = <<>>
    BY <2>1
  <2>2. CASE queue # <<>> /\ queue' = Tail(queue)
    BY <1>1, <2>2, QueueTail DEF StreamsTyped
  <2>3. CASE queue' = queue
    BY <1>1, <2>3 DEF StreamsTyped
  <2>4. QED BY <1>2, <2>1, <2>2, <2>3
<1>9. PICK d \in {0, 1} : \A k \in DOMAIN queue' : /\ k + d \in DOMAIN queue /\ k \in Int
                                                   /\ queue'[k] = queue[k + d]
  BY <1>8
<1>10. EventsInOrder
  BY Facts
<1>11. \A s \in Symbols : received'[s] <= Len(tape'[s])
  <2> TAKE s \in Symbols
  <2>1. received[s] \in Nat /\ received[s] <= Len(tape[s])
    BY <1>1, <1>10, Constants DEF StreamsTyped, EventsInOrder
  <2>2. /\ received'[s] = received[s]
        /\ Len(tape[s]) \in Nat /\ Len(tape'[s]) \in Nat /\ Len(tape[s]) <= Len(tape'[s])
    BY <1>3, <1>4
  <2>3. QED BY <2>1, <2>2, SMTT(30)
<1>12. \A k \in DOMAIN queue' :
         queue'[k].type = "trade" => queue'[k].trade \in 1..received'[queue'[k].sym]
  BY <1>4, <1>9, <1>10 DEF EventsInOrder
<1>13. \A k, l \in DOMAIN queue' :
         /\ k < l /\ queue'[k].sym = queue'[l].sym
         /\ queue'[k].type = "trade" /\ queue'[l].type = "trade"
         => queue'[k].trade < queue'[l].trade
  <2> TAKE k, l \in DOMAIN queue'
  <2>1. k < l => k + d < l + d
    BY <1>9
  <2>2. QED BY <1>9, <1>10, <2>1, SMTT(30) DEF EventsInOrder
<1>14. ASSUME NEW s \in Symbols, outgoing'[s] # <<>>
       PROVE  /\ outgoing'[s] = outgoing[s] /\ Len(outgoing[s]) <= 1 /\ outgoing[s][1].sym = s
              /\ outgoing[s][1].type = "trade" =>
                   /\ outgoing[s][1].trade \in 1..received'[s]
                   /\ \A k \in DOMAIN queue' :
                        queue'[k].sym = s /\ queue'[k].type = "trade"
                          => queue'[k].trade < outgoing[s][1].trade
  BY <1>4, <1>9, <1>10, <1>14 DEF EventsInOrder
<1>15. ASSUME NEW s \in Symbols, outgoing'[s] = <<>> PROVE Len(outgoing'[s]) <= 1
  BY <1>15
<1>16. EventsInOrder'
  BY <1>11, <1>12, <1>13, <1>14, <1>15 DEF EventsInOrder
<1>17. QED BY <1>7, <1>16

(* The bounded buffer keeps its bound and the newest trade.                *)
LEMMA PushedFits ==
  ASSUME NEW n \in Nat, NEW B, B \subseteq 1..n, NEW t \in 1..n, Cardinality(B) <= BufferSize
  PROVE  /\ Pushed(B, t) \subseteq 1..n /\ Cardinality(Pushed(B, t)) <= BufferSize
         /\ t \in Pushed(B, t)
<1>1. IsFiniteSet(B) /\ Cardinality(B) \in Nat
  <2>1. IsFiniteSet(1..n)
    <3>1. 1 \in Int /\ n \in Int
      OBVIOUS
    <3>2. QED BY ONLY <3>1, FS_Interval
  <2>2. IsFiniteSet(B)
    BY ONLY <2>1, B \subseteq 1..n, FS_Subset
  <2>3. QED BY <2>2, FS_CardinalityType
<1>2. CASE Cardinality(B) < BufferSize
  <2>1. Pushed(B, t) = B \cup {t}
    BY <1>2 DEF Pushed
  <2>2. /\ Cardinality(B \cup {t}) = Cardinality(B) \/ Cardinality(B \cup {t}) = Cardinality(B) + 1
    <3>1. Cardinality(B \cup {t}) =
            IF t \in B THEN Cardinality(B) ELSE Cardinality(B) + 1
      BY <1>1, FS_AddElement
    <3>2. QED BY <3>1
  <2>3. QED BY <1>1, <1>2, <2>1, <2>2, Constants
<1>3. CASE ~(Cardinality(B) < BufferSize)
  <2>1. B # {}
    BY <1>3, FS_EmptySet, Constants
  <2>2. Least(B) \in B
    <3>1. B \subseteq Nat
      OBVIOUS
    <3>2. QED BY <2>1, <3>1, LeastIsIn
  <2> DEFINE C == B \ {Least(B)}
  <2>3. IsFiniteSet(C) /\ Cardinality(C) = Cardinality(B) - 1
    BY <1>1, <2>2, FS_RemoveElement
  <2>4. Pushed(B, t) = C \cup {t}
    BY <1>3 DEF Pushed
  <2> HIDE DEF C
  <2>5. Cardinality(C \cup {t}) = Cardinality(C) \/ Cardinality(C \cup {t}) = Cardinality(C) + 1
    <3>1. Cardinality(C \cup {t}) =
            IF t \in C THEN Cardinality(C) ELSE Cardinality(C) + 1
      BY <2>3, FS_AddElement
    <3>2. QED BY <3>1
  <2>6. Cardinality(Pushed(B, t)) <= BufferSize
    BY <1>1, <2>3, <2>4, <2>5, Constants
  <2>7. QED BY <2>4, <2>6 DEF C
<1>4. QED BY <1>2, <1>3

(* An event that comes after those that are queued. *)
LEMMA QueueGrows ==
  ASSUME StreamsTyped, EventsInOrder, NEW s \in Symbols, NEW e \in StreamEvents, e.sym = s,
         \A x \in Symbols : received'[x] \in Nat /\ received[x] <= received'[x],
         e.type = "trade" =>
           /\ e.trade \in 1..received'[s]
           /\ \A k \in DOMAIN queue :
                queue[k].sym = s /\ queue[k].type = "trade" => queue[k].trade < e.trade,
         Len(queue) < QueueSize, queue' = Append(queue, e)
  PROVE  /\ queue' \in Seq(StreamEvents) /\ Len(queue') <= QueueSize
         /\ \A k \in DOMAIN queue' : \/ k \in DOMAIN queue /\ queue'[k] = queue[k]
                                     \/ queue'[k] = e
         /\ \A k \in DOMAIN queue' :
              queue'[k].type = "trade" => queue'[k].trade \in 1..received'[queue'[k].sym]
         /\ \A k, l \in DOMAIN queue' :
              /\ k < l /\ queue'[k].sym = queue'[l].sym
              /\ queue'[k].type = "trade" /\ queue'[l].type = "trade"
              => queue'[k].trade < queue'[l].trade
<1>1. queue \in Seq(StreamEvents) /\ \A x \in Symbols : received[x] \in Nat
  BY Constants DEF StreamsTyped
<1>2. /\ queue' \in Seq(StreamEvents) /\ Len(queue) \in Nat /\ Len(queue') = Len(queue) + 1
      /\ DOMAIN queue = 1..Len(queue) /\ DOMAIN queue' = 1..(Len(queue) + 1)
      /\ \A k \in 1..Len(queue) : queue'[k] = queue[k]
      /\ queue'[Len(queue) + 1] = e
  BY <1>1, QueueAppend
<1>3. Len(queue') <= QueueSize
  BY <1>2, Constants
<1>4. \A k \in DOMAIN queue' : \/ k \in DOMAIN queue /\ queue'[k] = queue[k]
                               \/ (k = Len(queue) + 1 /\ queue'[k] = e)
  BY <1>2
<1>5. \A k \in DOMAIN queue : queue[k] \in StreamEvents
  BY <1>1
<1>6. \A k \in DOMAIN queue : queue[k].sym \in Symbols /\ queue[k].trade \in 0..MaxTrades
  BY <1>5 DEF StreamEvents
<1>7. ASSUME NEW k \in DOMAIN queue', queue'[k].type = "trade"
      PROVE  queue'[k].trade \in 1..received'[queue'[k].sym]
  <2>1. CASE k \in DOMAIN queue /\ queue'[k] = queue[k]
    <3>1. queue[k].trade \in 1..received[queue[k].sym]
      BY <1>7, <2>1 DEF EventsInOrder
    <3>2. /\ received[queue[k].sym] \in Nat /\ received'[queue[k].sym] \in Nat
          /\ received[queue[k].sym] <= received'[queue[k].sym]
      BY <1>1, <1>6, <2>1
    <3>3. QED BY <2>1, <3>1, <3>2, SMTT(30)
  <2>2. CASE queue'[k] = e
    BY <1>7, <2>2
  <2>3. QED BY <1>4, <2>1, <2>2
<1>8. ASSUME NEW k \in DOMAIN queue', NEW l \in DOMAIN queue', k < l,
             queue'[k].sym = queue'[l].sym, queue'[k].type = "trade", queue'[l].type = "trade"
      PROVE  queue'[k].trade < queue'[l].trade
  <2>1. k \in DOMAIN queue /\ queue'[k] = queue[k]
    BY <1>2, <1>8
  <2>2. CASE l \in DOMAIN queue /\ queue'[l] = queue[l]
    BY <1>8, <2>1, <2>2 DEF EventsInOrder
  <2>3. CASE queue'[l] = e
    BY <1>8, <2>1, <2>3
  <2>4. QED BY <1>4, <2>2, <2>3
<1>9. QED BY <1>2, <1>3, <1>4, <1>7, <1>8

(* A stream that is free puts its event into the queue or waits with it.   *)
LEMMA Emitted ==
  ASSUME StreamsTyped, EventsInOrder, NEW s \in Symbols, NEW e \in StreamEvents, e.sym = s,
         \A x \in Symbols : received'[x] \in Nat /\ received[x] <= received'[x],
         e.type = "trade" => received[s] < e.trade /\ e.trade <= received'[s],
         outgoing[s] = <<>>, Emit(s, e)
  PROVE  /\ queue' \in Seq(StreamEvents) /\ Len(queue') <= QueueSize
         /\ outgoing' \in [Symbols -> Seq(StreamEvents)]
         /\ (\A x \in Symbols : received'[x] <= Len(tape'[x])) => EventsInOrder'
<1>1. /\ queue \in Seq(StreamEvents) /\ \A x \in Symbols : received[x] \in Nat
      /\ outgoing \in [Symbols -> Seq(StreamEvents)]
      /\ \A k \in DOMAIN queue : queue[k] \in StreamEvents
  BY Constants DEF StreamsTyped
<1>2. e.trade \in Nat
  BY Constants DEF StreamEvents
<1>3. e.type = "trade" =>
        /\ e.trade \in 1..received'[s]
        /\ \A k \in DOMAIN queue :
             queue[k].sym = s /\ queue[k].type = "trade" => queue[k].trade < e.trade
  <2>1. \A k \in DOMAIN queue : queue[k].sym = s /\ queue[k].type = "trade" =>
          queue[k].trade \in Nat /\ queue[k].trade <= received[s]
    BY <1>1, SMTT(30) DEF EventsInOrder
  <2>2. received[s] \in Nat /\ received'[s] \in Nat
    BY <1>1
  <2>3. QED BY <1>2, <2>1, <2>2
<1>4. \A x \in Symbols, k \in Nat : k \in 1..received[x] => k \in 1..received'[x]
  BY <1>1, SMTT(30)
<1>5. CASE Len(queue) < QueueSize
  <2>1. queue' = Append(queue, e) /\ outgoing' = outgoing
    BY <1>5 DEF Emit
  <2>2. /\ queue' \in Seq(StreamEvents) /\ Len(queue') <= QueueSize
        /\ \A k \in DOMAIN queue' : \/ k \in DOMAIN queue /\ queue'[k] = queue[k]
                                    \/ queue'[k] = e
        /\ \A k \in DOMAIN queue' :
             queue'[k].type = "trade" => queue'[k].trade \in 1..received'[queue'[k].sym]
        /\ \A k, l \in DOMAIN queue' :
             /\ k < l /\ queue'[k].sym = queue'[l].sym
             /\ queue'[k].type = "trade" /\ queue'[l].type = "trade"
             => queue'[k].trade < queue'[l].trade
    BY <1>3, <1>5, <2>1, QueueGrows
  <2>3. ASSUME NEW x \in Symbols
        PROVE  /\ Len(outgoing[x]) <= 1
               /\ outgoing[x] # <<>> => outgoing[x][1].sym = x
               /\ outgoing[x] # <<>> /\ outgoing[x][1].type = "trade" =>
                    /\ outgoing[x][1].trade \in 1..received'[x]
                    /\ \A k \in DOMAIN queue' :
                         queue'[k].sym = x /\ queue'[k].type = "trade"
                           => queue'[k].trade < outgoing[x][1].trade
    <3>1. outgoing[x] # <<>> => x # s
      OBVIOUS
    <3>2. \A k \in DOMAIN queue' : queue'[k].sym = x /\ x # s =>
            k \in DOMAIN queue /\ queue'[k] = queue[k]
      BY <2>2
    <3>3. /\ Len(outgoing[x]) <= 1
          /\ outgoing[x] # <<>> => outgoing[x][1].sym = x
          /\ outgoing[x] # <<>> /\ outgoing[x][1].type = "trade" =>
               /\ outgoing[x][1].trade \in 1..received[x]
               /\ \A k \in DOMAIN queue :
                    queue[k].sym = x /\ queue[k].type = "trade"
                      => queue[k].trade < outgoing[x][1].trade
      BY DEF EventsInOrder
    <3>4. \A n : n \in 1..received[x] => n \in 1..received'[x]
      <4>1. received[x] \in Nat /\ received'[x] \in Nat /\ received[x] <= received'[x]
        BY <1>1
      <4>2. QED BY <4>1
    <3>5. QED BY <3>1, <3>2, <3>3, <3>4
  <2>4. QED BY <1>1, <2>1, <2>2, <2>3 DEF EventsInOrder
<1>6. CASE ~(Len(queue) < QueueSize)
  <2>1. queue' = queue /\ outgoing' = [outgoing EXCEPT ![s] = <<e>>]
    BY <1>6 DEF Emit
  <2>2. outgoing' \in [Symbols -> Seq(StreamEvents)]
    BY <1>1, <2>1
  <2>3. \A k \in DOMAIN queue :
          queue[k].type = "trade" => queue[k].trade \in 1..received'[queue[k].sym]
    <3>1. \A k \in DOMAIN queue : queue[k].sym \in Symbols
      BY <1>1 DEF StreamEvents
    <3>2. \A k \in DOMAIN queue :
            queue[k].type = "trade" => queue[k].trade \in 1..received[queue[k].sym]
      BY DEF EventsInOrder
    <3>3. QED BY <1>4, <3>1, <3>2, SMTT(20)
  <2>4. ASSUME NEW x \in Symbols
        PROVE  /\ Len(outgoing'[x]) <= 1
               /\ outgoing'[x] # <<>> => outgoing'[x][1].sym = x
               /\ outgoing'[x] # <<>> /\ outgoing'[x][1].type = "trade" =>
                    /\ outgoing'[x][1].trade \in 1..received'[x]
                    /\ \A k \in DOMAIN queue :
                         queue[k].sym = x /\ queue[k].type = "trade"
                           => queue[k].trade < outgoing'[x][1].trade
    <3>1. CASE x = s
      <4>1. outgoing'[s] = <<e>>
        BY <1>1, <2>1
      <4>2. Len(<<e>>) = 1 /\ <<e>>[1] = e
        OBVIOUS
      <4>3. QED BY <1>3, <3>1, <4>1, <4>2
    <3>2. CASE x # s
      <4>1. outgoing'[x] = outgoing[x]
        BY <1>1, <2>1, <3>2
      <4>2. QED BY <1>4, <4>1, SMTT(30) DEF EventsInOrder
    <3>3. QED BY <3>1, <3>2
  <2>5. QED BY <1>1, <2>1, <2>2, <2>3, <2>4 DEF EventsInOrder, StreamsTyped
<1>7. QED BY <1>5, <1>6

(* The receive position and the link of a stream that takes a step.        *)
LEMMA ReceivedGrows ==
  ASSUME ServiceInvariant, NEW s \in Symbols,
         UNCHANGED tape,
         \/ UNCHANGED received
         \/ received' = [received EXCEPT ![s] = Len(tape[s])]
         \/ received[s] < Len(tape[s]) /\ received' = [received EXCEPT ![s] = received[s] + 1]
  PROVE  /\ received' \in [Symbols -> 0..MaxTrades]
         /\ \A x \in Symbols : received'[x] \in Nat /\ received[x] <= received'[x]
         /\ \A x \in Symbols : received'[x] <= Len(tape'[x])
<1>1. received \in [Symbols -> 0..MaxTrades]
  BY Facts DEF TypeOK
<1>2. \A x \in Symbols : received[x] \in Nat /\ received[x] <= Len(tape[x])
  BY <1>1, Facts, Constants DEF EventsInOrder
<1>3. Len(tape[s]) \in Nat /\ Len(tape[s]) <= MaxTrades
  BY Facts, ClockTyped, Constants DEF TapeFits
<1>4. \E n \in 0..MaxTrades :
        /\ received' = [received EXCEPT ![s] = n]
        /\ received[s] <= n /\ n <= Len(tape[s])
  <2>1. CASE UNCHANGED received
    <3>1. received' = [received EXCEPT ![s] = received[s]] /\ received[s] \in 0..MaxTrades
      BY <1>1, <2>1
    <3>2. received[s] <= received[s] /\ received[s] <= Len(tape[s])
      BY <1>2
    <3>3. QED BY <3>1, <3>2
  <2>2. CASE received' = [received EXCEPT ![s] = Len(tape[s])]
    <3>1. Len(tape[s]) \in 0..MaxTrades /\ Len(tape[s]) <= Len(tape[s])
      BY <1>3, Constants
    <3>2. received[s] <= Len(tape[s])
      BY <1>2
    <3>3. QED BY <2>2, <3>1, <3>2
  <2>3. CASE received[s] < Len(tape[s]) /\ received' = [received EXCEPT ![s] = received[s] + 1]
    <3>1. received[s] \in Nat /\ received[s] + 1 \in 0..MaxTrades
      BY <1>2, <1>3, <2>3, Constants
    <3>2. received[s] <= received[s] + 1 /\ received[s] + 1 <= Len(tape[s])
      BY <1>2, <1>3, <2>3
    <3>3. QED BY <2>3, <3>1, <3>2
  <2>4. QED BY <2>1, <2>2, <2>3
<1>5. PICK n \in 0..MaxTrades : /\ received' = [received EXCEPT ![s] = n]
                                /\ received[s] <= n /\ n <= Len(tape[s])
  BY <1>4
<1>6. \A x \in Symbols : received'[x] = IF x = s THEN n ELSE received[x]
  BY <1>1, <1>5
<1>7. n \in Nat
  BY Constants
<1>8. received' \in [Symbols -> 0..MaxTrades]
  BY <1>1, <1>5
<1>9. QED BY <1>2, <1>5, <1>6, <1>7, <1>8, SMTT(30)

LEMMA StreamStep ==
  ASSUME ServiceInvariant, Stream
  PROVE  StreamsTyped' /\ EventsInOrder'
<1> DEFINE L == {"off", "down", "open", "buffered", "ready"}
<1>1. StreamsTyped /\ EventsInOrder
  BY Facts DEF TypeOK, StreamsTyped
<1>2. PICK s \in Symbols :
        PutWaiting(s) \/ Connect(s) \/ Receive(s) \/ MarkReady(s) \/ Disconnect(s)
  BY DEF Stream
<1>3. UNCHANGED tape
  BY <1>2 DEF PutWaiting, Connect, Receive, MarkReady, Disconnect, UnchangedByStream
<1>4. /\ link \in [Symbols -> L] /\ received \in [Symbols -> 0..MaxTrades]
      /\ buffer \in [Symbols -> SUBSET (1..MaxTrades)]
      /\ outgoing \in [Symbols -> Seq(StreamEvents)]
      /\ queue \in Seq(StreamEvents) /\ Len(queue) <= QueueSize
      /\ disconnects \in 0..MaxDisconnects
      /\ \A x \in Symbols : buffer[x] \subseteq 1..Len(tape[x]) /\ Cardinality(buffer[x]) <= BufferSize
  BY <1>1 DEF StreamsTyped
<1>5. link' \in [Symbols -> L] /\ disconnects' \in 0..MaxDisconnects
  <2>1. \/ link' = link
        \/ \E l \in L : link' = [link EXCEPT ![s] = l]
        \/ link' = [link EXCEPT ![s] = IF link[s] = "open" THEN "buffered" ELSE link[s]]
    BY <1>2 DEF PutWaiting, Connect, Receive, MarkReady, Disconnect
  <2>2. link[s] \in L /\ (IF link[s] = "open" THEN "buffered" ELSE link[s]) \in L
    BY <1>4
  <2>3. link' \in [Symbols -> L]
    <3> HIDE DEF L
    <3>1. QED BY <1>4, <2>1, <2>2
  <2>4. \/ disconnects' = disconnects
        \/ disconnects < MaxDisconnects /\ disconnects' = disconnects + 1
    BY <1>2 DEF PutWaiting, Connect, Receive, MarkReady, Disconnect
  <2>5. disconnects' \in 0..MaxDisconnects
    BY <1>4, <2>4, Constants
  <2>6. QED BY <2>3, <2>5
<1>6. /\ received' \in [Symbols -> 0..MaxTrades]
      /\ \A x \in Symbols : received'[x] \in Nat /\ received[x] <= received'[x]
      /\ \A x \in Symbols : received'[x] <= Len(tape'[x])
  BY <1>2, <1>3, ReceivedGrows DEF PutWaiting, Connect, Receive, MarkReady, Disconnect
<1>7. /\ buffer' \in [Symbols -> SUBSET (1..MaxTrades)]
      /\ \A x \in Symbols : buffer'[x] \subseteq 1..Len(tape[x]) /\ Cardinality(buffer'[x]) <= BufferSize
  <2>1. CASE UNCHANGED buffer
    BY <1>4, <2>1
  <2>2. CASE Receive(s)
    <3> DEFINE t == received[s] + 1
               b == Pushed(buffer[s], t)
    <3>1. /\ buffer' = [buffer EXCEPT ![s] = b]
          /\ received[s] < Len(tape[s])
      BY <2>2 DEF Receive
    <3>2. /\ received[s] \in Nat /\ Len(tape[s]) \in Nat /\ Len(tape[s]) <= MaxTrades
      BY <1>4, Facts, ClockTyped, Constants DEF TapeFits
    <3>3. t \in 1..Len(tape[s])
      BY <3>1, <3>2, SMTT(30)
    <3> HIDE DEF t
    <3>4. b \subseteq 1..Len(tape[s]) /\ Cardinality(b) <= BufferSize
      BY <1>4, <3>2, <3>3, PushedFits
    <3>5. b \subseteq 1..MaxTrades
      BY <3>2, <3>4, Constants
    <3> HIDE DEF b
    <3>6. QED BY <1>4, <3>1, <3>4, <3>5
  <2>3. QED BY <1>2, <2>1, <2>2 DEF PutWaiting, Connect, MarkReady, Disconnect
<1>8. ASSUME NEW e \in StreamEvents, e.sym = s, outgoing[s] = <<>>, Emit(s, e),
             e.type = "trade" => received[s] < e.trade /\ e.trade <= received'[s]
      PROVE  /\ queue' \in Seq(StreamEvents) /\ Len(queue') <= QueueSize
             /\ outgoing' \in [Symbols -> Seq(StreamEvents)] /\ EventsInOrder'
  BY <1>1, <1>6, <1>8, Emitted
<1>9. /\ queue' \in Seq(StreamEvents) /\ Len(queue') <= QueueSize
      /\ outgoing' \in [Symbols -> Seq(StreamEvents)] /\ EventsInOrder'
  <2>1. CASE PutWaiting(s)
    <3> DEFINE e == outgoing[s][1]
    <3>1. /\ outgoing[s] # <<>> /\ Len(queue) < QueueSize /\ queue' = Append(queue, e)
          /\ outgoing' = [outgoing EXCEPT ![s] = <<>>]
      BY <2>1 DEF PutWaiting
    <3>2. e \in StreamEvents
      BY <1>4, <3>1, SMTT(20)
    <3>3. /\ e.sym = s
          /\ e.type = "trade" =>
               /\ e.trade \in 1..received[s]
               /\ \A k \in DOMAIN queue :
                    queue[k].sym = s /\ queue[k].type = "trade" => queue[k].trade < e.trade
      BY <1>1, <3>1 DEF EventsInOrder
    <3> HIDE DEF e
    <3>4. e.trade \in 1..received[s] => e.trade \in 1..received'[s]
      BY <1>4, <1>6, SMTT(30)
    <3>5. /\ queue' \in Seq(StreamEvents) /\ Len(queue') <= QueueSize
          /\ \A k \in DOMAIN queue' : \/ k \in DOMAIN queue /\ queue'[k] = queue[k]
                                      \/ queue'[k] = e
          /\ \A k \in DOMAIN queue' :
               queue'[k].type = "trade" => queue'[k].trade \in 1..received'[queue'[k].sym]
          /\ \A k, l \in DOMAIN queue' :
               /\ k < l /\ queue'[k].sym = queue'[l].sym
               /\ queue'[k].type = "trade" /\ queue'[l].type = "trade"
               => queue'[k].trade < queue'[l].trade
      BY <1>1, <1>6, <3>1, <3>2, <3>3, <3>4, QueueGrows
    <3>6. ASSUME NEW x \in Symbols
          PROVE  /\ Len(outgoing'[x]) <= 1
                 /\ outgoing'[x] # <<>> => outgoing'[x][1].sym = x
                 /\ outgoing'[x] # <<>> /\ outgoing'[x][1].type = "trade" =>
                      /\ outgoing'[x][1].trade \in 1..received'[x]
                      /\ \A k \in DOMAIN queue' :
                           queue'[k].sym = x /\ queue'[k].type = "trade"
                             => queue'[k].trade < outgoing'[x][1].trade
      <4>1. CASE x = s
        BY <1>4, <3>1, <4>1
      <4>2. CASE x # s
        <5>1. outgoing'[x] = outgoing[x]
          BY <1>4, <3>1, <4>2
        <5>2. \A k \in DOMAIN queue' : queue'[k].sym = x =>
                k \in DOMAIN queue /\ queue'[k] = queue[k]
          BY <3>3, <3>5, <4>2
        <5>3. /\ Len(outgoing[x]) <= 1
              /\ outgoing[x] # <<>> => outgoing[x][1].sym = x
              /\ outgoing[x] # <<>> /\ outgoing[x][1].type = "trade" =>
                   /\ outgoing[x][1].trade \in 1..received[x]
                   /\ \A k \in DOMAIN queue :
                        queue[k].sym = x /\ queue[k].type = "trade"
                          => queue[k].trade < outgoing[x][1].trade
          BY <1>1 DEF EventsInOrder
        <5>4. \A n : n \in 1..received[x] => n \in 1..received'[x]
          <6>1. received[x] \in Nat /\ received'[x] \in Nat /\ received[x] <= received'[x]
            BY <1>4, <1>6, Constants
          <6>2. QED BY <6>1
        <5>5. QED BY <5>1, <5>2, <5>3, <5>4
      <4>3. QED BY <4>1, <4>2
    <3>7. outgoing' \in [Symbols -> Seq(StreamEvents)]
      BY <1>4, <3>1
    <3>8. QED BY <1>6, <3>5, <3>6, <3>7 DEF EventsInOrder
  <2>2. CASE Connect(s)
    <3>1. UNCHANGED <<outgoing, queue>>
      BY <2>2 DEF Connect
    <3>2. ASSUME NEW x \in Symbols, NEW n \in 1..received[x] PROVE n \in 1..received'[x]
      BY <1>4, <1>6, SMTT(30)
    <3>3. \A k \in DOMAIN queue : queue[k].sym \in Symbols
      <4>1. \A k \in DOMAIN queue : queue[k] \in StreamEvents
        BY <1>4
      <4>2. QED BY <4>1 DEF StreamEvents
    <3>4. QED BY <1>1, <1>4, <1>6, <3>1, <3>2, <3>3 DEF EventsInOrder
  <2>3. CASE Receive(s)
    <3> DEFINE t == received[s] + 1
               e == Event("trade", s, t)
    <3>1. Emit(s, e) /\ outgoing[s] = <<>> /\ received' = [received EXCEPT ![s] = t]
      BY <2>3 DEF Receive, StreamTask
    <3>2. received'[s] = t /\ t \in 0..MaxTrades /\ received[s] < t
      BY <1>4, <1>6, <3>1
    <3> HIDE DEF t
    <3>3. e \in StreamEvents /\ e.sym = s /\ e.trade = t
      BY <3>2 DEF Event, StreamEvents
    <3> HIDE DEF e
    <3>4. t <= received'[s]
      BY <1>6, <3>2
    <3>5. QED BY <1>8, <3>1, <3>2, <3>3, <3>4
  <2>4. CASE MarkReady(s) \/ Disconnect(s)
    <3>1. \E type \in {"ready", "disconnected"} :
            Emit(s, Event(type, s, 0)) /\ outgoing[s] = <<>>
      BY <2>4 DEF MarkReady, Disconnect, StreamTask
    <3>2. PICK type \in {"ready", "disconnected"} :
            Emit(s, Event(type, s, 0)) /\ outgoing[s] = <<>>
      BY <3>1
    <3> DEFINE e == Event(type, s, 0)
    <3>3. e \in StreamEvents /\ e.sym = s /\ e.type # "trade"
      BY Constants DEF Event, StreamEvents
    <3> HIDE DEF e
    <3>4. Emit(s, e) /\ outgoing[s] = <<>>
      BY <3>2 DEF e
    <3>5. QED BY <1>8, <3>3, <3>4
  <2>5. QED BY <1>2, <2>1, <2>2, <2>3, <2>4
<1>10. QED BY <1>3, <1>5, <1>6, <1>7, <1>9 DEF StreamsTyped

-----------------------------------------------------------------------------
(* The memory of the service and its work. *)

WorkTyped ==
  /\ crashes \in 0..MaxCrashes
  /\ views \in [Symbols -> ViewRecords \cup {NoView}]
  /\ pending \in [Symbols -> 0..MaxTime \cup {NoAnchor}]
  /\ streamReady \subseteq Symbols /\ agenda \subseteq Symbols \X (0..MaxTime)
  /\ job \in {IdleJob, BootJob} \cup FetchJobs \cup WorkJobs
  /\ seen \in [Signals -> SUBSET (1..MaxTrades)]

ViewFits(s) ==
  /\ pending[s] <= clock
  /\ Known(s) => /\ views[s].id \in Store!Tracked(s)
                 /\ views[s].status = status[views[s].id]
                 /\ views[s].stop = currentStop[views[s].id]
                 /\ views[s].last <= checkpoint[views[s].id]
                 /\ link[s] = "off" => OnAgenda(s)
  /\ link[s] # "off" \/ pending[s] # NoAnchor => Known(s)

AgendaHolds ==
  /\ \A e \in agenda : Known(e[1])
  /\ \A e, f \in agenda : e[1] = f[1] => e = f
  /\ job.phase = "boot" => agenda = {}

MemoryHolds == WorkTyped /\ (\A s \in Symbols : ViewFits(s)) /\ AgendaHolds /\ JobFits

LEMMA MemoryIsSound ==
  ASSUME ServiceInvariant
  PROVE  MemoryHolds
<1>1. WorkTyped
  BY DEF ServiceInvariant, TypeOK, WorkTyped, NoIllegalTransition
<1>2. \A s \in Symbols : ViewFits(s)
  BY DEF ServiceInvariant, ViewFits, MemoryFits, MemoryMatchesRows, NothingLeftBehind, AgendaFits
<1>3. AgendaHolds /\ JobFits
  BY DEF ServiceInvariant, AgendaHolds, AgendaFits
<1>4. QED BY <1>1, <1>2, <1>3 DEF MemoryHolds

(* Only an answer of REST leaves a doubt, and none is taken back.          *)
LEMMA DoubtsGrow ==
  ASSUME [Next]_vars
  PROVE  UNCHANGED doubtful \/ Establish
<1>1. CASE World \/ Stream \/ Restart \/ UNCHANGED vars
  BY <1>1 DEF World, Tick, ExecuteTrade, PublishSignal, Stream, PutWaiting, Connect, Receive,
              MarkReady, Disconnect, UnchangedByStream, Restart, vars
<1>2. CASE Service
  BY <1>2 DEF Service, BeginReconcile, ReconcileSymbol, HandleDisconnected, HandleReady,
              HandleTrade, Act, FinishLive, ReplayTrade, FinishBatch, ReplayCandle, FinishCandles
<1>3. QED BY <1>1, <1>2 DEF Next

LEMMA HistoriesTyped ==
  ASSUME ServiceInvariant, [Next]_vars
  PROVE  opened' \in [Symbols -> 0..MaxTrades] /\ doubtful' \subseteq Signals
<1>1. opened \in [Symbols -> 0..MaxTrades] /\ doubtful \subseteq Signals
  BY Facts DEF TypeOK
<1>2. doubtful' \subseteq Signals
  <2>1. CASE Establish
    <3>1. PICK rest \in RestHistory(job.sym) : Doubted(rest)
      BY <2>1, EstablishApplies
    <3>2. job.sym \in Symbols /\ Known(job.sym)
      BY <2>1, EstablishApplies
    <3>3. views[job.sym].id \in Signals
      BY <3>2, Facts, Remembers
    <3>4. QED BY <1>1, <3>1, <3>3 DEF Doubted
  <2>2. QED BY <1>1, <2>1, DoubtsGrow
<1>3. opened' \in [Symbols -> 0..MaxTrades]
  <2>1. CASE Stream
    <3>1. PICK s \in Symbols :
            PutWaiting(s) \/ Connect(s) \/ Receive(s) \/ MarkReady(s) \/ Disconnect(s)
      BY <2>1 DEF Stream
    <3>2. CASE Connect(s)
      <4>1. Len(tape[s]) \in 0..MaxTrades
        BY Facts, Constants DEF TapeFits
      <4>2. QED BY <1>1, <3>2, <4>1 DEF Connect
    <3>3. CASE UNCHANGED opened
      BY <1>1, <3>3
    <3>4. QED BY <3>1, <3>2, <3>3 DEF PutWaiting, Receive, MarkReady, Disconnect
  <2>2. ASSUME NEW S \in SUBSET Symbols, Unsubscribed(S)
        PROVE  opened' \in [Symbols -> 0..MaxTrades]
    <3>1. 0 \in 0..MaxTrades
      BY Constants
    <3>2. opened' = [s \in Symbols |-> IF s \in S THEN 0 ELSE opened[s]]
      BY <2>2 DEF Unsubscribed
    <3>3. QED BY <1>1, <3>1, <3>2
  <2>3. CASE ~Stream
    BY <1>1, <2>2, <2>3, StreamsAreQuiet DEF QuietStreams, Subscribes, streamVars
  <2>4. QED BY <2>1, <2>3
<1>4. QED BY <1>2, <1>3

(* The rows, the world and the streams keep their part of the invariant;   *)
(* what is left of a step is what it does to the memory.                   *)
LEMMA Assembled ==
  ASSUME ServiceInvariant, [Next]_vars, MemoryHolds'
  PROVE  ServiceInvariant'
<1>1. StoreMove
  BY StoreMoves
<1>2. Store!StoreTypeOK' /\ RowsFit' /\ RowsInTime'
  BY <1>1, RowsTypedStep, RowsStep, RowsInTimeStep
<1>3. TapeFits' /\ clock' \in 0..MaxTime /\ tape' \in [Symbols -> Seq(Trades)]
  BY Facts, TapeStep, TapeTyped
<1>4. StreamsTyped' /\ EventsInOrder'
  BY StreamStep, QuietStreamsFit
<1>5. TypeOK'
  BY <1>2, <1>3, <1>4, HistoriesTyped DEF TypeOK, MemoryHolds, WorkTyped, StreamsTyped, Trades
<1>6. AgendaFits' /\ MemoryFits' /\ MemoryMatchesRows' /\ NothingLeftBehind'
  BY DEF MemoryHolds, AgendaHolds, ViewFits, AgendaFits, MemoryFits, MemoryMatchesRows,
         NothingLeftBehind
<1>7. NoIllegalTransition'
  <2>1. job' \in {IdleJob, BootJob} \cup FetchJobs \cup WorkJobs
    BY DEF MemoryHolds, WorkTyped
  <2>2. job'.phase # "dead"
    BY <2>1 DEF IdleJob, BootJob, FetchJobs, WorkJobs
  <2>3. QED BY <2>2 DEF NoIllegalTransition, DeadJob
<1>8. QED BY <1>2, <1>3, <1>4, <1>5, <1>6, <1>7 DEF ServiceInvariant, MemoryHolds

LEMMA AnchorTyped ==
  ASSUME ServiceInvariant, NEW s \in Symbols, Known(s)
  PROVE  Anchor(s) \in 0..MaxTime /\ Anchor(s) <= clock /\ Anchor(s) # NoAnchor
<1> DEFINE i == views[s].id
<1>1. i \in Signals /\ SymbolOf[i] = s /\ views[s].last \in 0..MaxTrades
  BY Facts, Remembers
<1>2. clock \in Nat /\ clock <= MaxTime /\ MaxTime \in Nat /\ Len(tape[s]) \in Nat
  BY Facts, ClockTyped, Constants
<1>3. CASE views[s].last = 0
  <2>1. createdAt[i] <= clock /\ createdAt[i] \in Nat
    BY <1>1, Facts, RowsTyped, Constants DEF RowsInTime
  <2>2. Anchor(s) = createdAt[i]
    BY <1>3 DEF Anchor
  <2>3. QED BY <1>2, <2>1, <2>2, SMTT(30) DEF NoAnchor
<1>4. CASE views[s].last # 0
  <2>1. /\ views[s].last <= checkpoint[i] /\ checkpoint[i] <= Len(tape[s])
        /\ checkpoint[i] \in Nat /\ views[s].last \in Nat
    BY <1>1, Facts, RowsTyped, Constants DEF RowsInTime, MemoryFits
  <2>2. views[s].last \in 1..Len(tape[s])
    BY <1>2, <1>4, <2>1, SMTT(30)
  <2>3. TimeOf(s, views[s].last) <= clock /\ TimeOf(s, views[s].last) \in 0..MaxTime
    BY <2>2, Facts, ClockTyped DEF TapeFits
  <2>4. Anchor(s) = TimeOf(s, views[s].last)
    BY <1>4 DEF Anchor
  <2>5. QED BY <1>2, <2>3, <2>4 DEF NoAnchor
<1>5. QED BY <1>3, <1>4

LEMMA MinutesGrow ==
  ASSUME NEW a \in Nat, NEW b \in Nat, a <= b
  PROVE  MinuteOf(a) \in Nat /\ MinuteOf(b) \in Nat /\ MinuteOf(a) <= MinuteOf(b)
<1>1. MinuteTicks \in Nat \ {0}
  BY Constants
<1> DEFINE q == a \div MinuteTicks
           r == b \div MinuteTicks
<1>2. /\ q \in Int /\ r \in Int /\ q * MinuteTicks <= a /\ b < (r + 1) * MinuteTicks
      /\ q >= 0 /\ r >= 0
  BY <1>1
<1>3. MinuteOf(a) = q /\ MinuteOf(b) = r
  BY DEF MinuteOf
<1> HIDE DEF q, r
<1>4. ASSUME r < q PROVE FALSE
  <2>1. (r + 1) * MinuteTicks <= q * MinuteTicks
    BY <1>1, <1>2, <1>4
  <2>2. (r + 1) * MinuteTicks \in Int /\ q * MinuteTicks \in Int
    BY <1>1, <1>2
  <2>3. QED BY <1>2, <2>1, <2>2
<1>5. QED BY <1>2, <1>3, <1>4

(* A symbol whose signal a step does not touch.                            *)
LEMMA Unaffected ==
  ASSUME ServiceInvariant, NEW s \in Symbols, clock' \in Int, clock <= clock',
         views'[s] = views[s], pending'[s] = pending[s], (link'[s] = "off") = (link[s] = "off"),
         OnAgenda(s) => OnAgenda(s)',
         Known(s) =>
           /\ status'[views[s].id] = status[views[s].id]
           /\ currentStop'[views[s].id] = currentStop[views[s].id]
           /\ checkpoint'[views[s].id] \in Int
           /\ checkpoint[views[s].id] <= checkpoint'[views[s].id]
  PROVE  ViewFits(s)'
<1>1. /\ pending[s] \in Int /\ clock \in Int
      /\ Known(s) => /\ views[s].last \in Int /\ checkpoint[views[s].id] \in Int
                     /\ views[s].id \in Signals
  <2>1. pending[s] \in Int
    BY Facts, Constants DEF TypeOK, NoAnchor
  <2>2. clock \in Int
    BY Facts, ClockTyped
  <2>3. QED BY <2>1, <2>2, Facts, Remembers, RowsTyped, Constants
<1>2. ViewFits(s)
  BY MemoryIsSound DEF MemoryHolds
<1>3. pending'[s] <= clock'
  BY <1>1, <1>2 DEF ViewFits
<1>4. Known(s)' <=> Known(s)
  BY DEF Known
<1>5. ASSUME Known(s)
      PROVE  /\ views'[s].id \in Store!Tracked(s)'
             /\ views'[s].status = status'[views'[s].id]
             /\ views'[s].stop = currentStop'[views'[s].id]
             /\ views'[s].last <= checkpoint'[views'[s].id]
             /\ link'[s] = "off" => OnAgenda(s)'
  <2>1. views'[s].id \in Store!Tracked(s)'
    BY <1>1, <1>2, <1>5 DEF ViewFits, Store!Tracked
  <2>2. views[s].last <= checkpoint[views[s].id]
    BY <1>2, <1>5 DEF ViewFits
  <2>3. views'[s].last <= checkpoint'[views'[s].id]
    BY <1>1, <1>5, <2>2
  <2>4. QED BY <1>2, <1>5, <2>1, <2>3 DEF ViewFits
<1>6. QED BY <1>2, <1>3, <1>4, <1>5 DEF ViewFits

LEMMA IdleFits ==
  ASSUME job' = IdleJob
  PROVE  JobFits' /\ job'.phase # "boot" /\ job' \in {IdleJob, BootJob} \cup FetchJobs \cup WorkJobs
  BY DEF IdleJob, JobFits, Busy

LEMMA FetchFits ==
  ASSUME NEW s \in Symbols, job' = [phase |-> "fetch", sym |-> s, anchor |-> pending'[s]],
         pending'[s] \in Nat, views'[s] # NoView, ~OnAgenda(s)'
  PROVE  JobFits' /\ job'.phase # "boot" /\ job' \in {IdleJob, BootJob} \cup FetchJobs \cup WorkJobs
<1>1. job' \in FetchJobs /\ job'.phase = "fetch" /\ job'.sym = s /\ job'.anchor = pending'[s]
  BY DEF FetchJobs
<1>2. QED BY <1>1 DEF JobFits, Busy, Known

(* The exchange, the clock, publication and the streams leave the memory   *)
(* alone, and never change the rows of a signal that is remembered.        *)
LEMMA OutsideFits ==
  ASSUME ServiceInvariant, World \/ Stream \/ UNCHANGED vars
  PROVE  MemoryHolds'
<1>1. [Next]_vars
  BY DEF Next
<1>2. UNCHANGED <<crashes, memoryVars, agenda, job, seen>>
  BY DEF World, Tick, ExecuteTrade, PublishSignal, Stream, PutWaiting, Connect, Receive,
         MarkReady, Disconnect, UnchangedByStream, vars, worldVars
<1>3. MemoryHolds
  BY MemoryIsSound
<1>4. /\ clock \in Nat /\ clock' \in Int /\ clock <= clock'
      /\ \A s \in Symbols : /\ Len(tape[s]) \in Nat /\ Len(tape'[s]) \in Nat
                            /\ Len(tape[s]) <= Len(tape'[s])
  BY <1>1, Facts, TapeTyped, ClockTyped
<1>5. WorkTyped' /\ AgendaHolds'
  BY <1>2, <1>3 DEF MemoryHolds, WorkTyped, AgendaHolds, memoryVars, Known
<1>6. ASSUME NEW s \in Symbols PROVE ViewFits(s)'
  <2>1. (link'[s] = "off") = (link[s] = "off")
    <3>1. link \in [Symbols -> {"off", "down", "open", "buffered", "ready"}]
      BY Facts DEF TypeOK
    <3>2. CASE World \/ UNCHANGED vars
      BY <3>2 DEF World, Tick, ExecuteTrade, PublishSignal, vars, streamVars
    <3>3. CASE Stream
      BY <3>1, <3>3 DEF Stream, PutWaiting, Connect, Receive, MarkReady, Disconnect, StreamTask
    <3>4. QED BY <3>2, <3>3
  <2>2. ASSUME Known(s)
        PROVE  /\ status'[views[s].id] = status[views[s].id]
               /\ currentStop'[views[s].id] = currentStop[views[s].id]
               /\ checkpoint'[views[s].id] \in Int
               /\ checkpoint[views[s].id] <= checkpoint'[views[s].id]
    <3>1. /\ views[s].id \in Signals /\ status[views[s].id] # "absent"
          /\ checkpoint[views[s].id] \in Int
      <4>1. views[s].id \in Signals /\ status[views[s].id] \in TrackingStatuses
        BY <2>2, Facts, Remembers
      <4>2. checkpoint[views[s].id] \in 0..MaxTrades
        BY <4>1, Facts, RowsTyped
      <4>3. QED BY <4>1, <4>2, Constants DEF TrackingStatuses
    <3>2. CASE UNCHANGED storeVars
      BY <3>1, <3>2 DEF storeVars
    <3>3. CASE \E i \in Signals : PublishSignal(i)
      <4>1. PICK i \in Signals : PublishSignal(i)
        BY <3>3
      <4>2. /\ status[i] = "absent" /\ status' = [status EXCEPT ![i] = "preparing"]
            /\ UNCHANGED <<currentStop, checkpoint>>
        BY <4>1 DEF PublishSignal, Store!Publish
      <4>3. status'[views[s].id] = status[views[s].id]
        BY <3>1, <4>2, Facts, RowsTyped
      <4>4. QED BY <3>1, <4>2, <4>3
    <3>4. QED
      BY <3>2, <3>3 DEF World, Tick, ExecuteTrade, Stream, PutWaiting, Connect, Receive,
                        MarkReady, Disconnect, UnchangedByStream, vars
  <2>3. views'[s] = views[s] /\ pending'[s] = pending[s] /\ (OnAgenda(s) => OnAgenda(s)')
    BY <1>2 DEF memoryVars, OnAgenda
  <2>4. QED BY <1>4, <2>1, <2>2, <2>3, Unaffected
<1>7. JobFits'
  <2>1. JobFits /\ UNCHANGED <<job, views, pending, agenda>>
    BY <1>2, <1>3 DEF MemoryHolds, memoryVars
  <2>2. /\ Busy' = Busy /\ Known(job.sym)' = Known(job.sym)
        /\ OnAgenda(job.sym)' = OnAgenda(job.sym)
        /\ \A st : ActsAhead(st)' = ActsAhead(st)
    BY <2>1 DEF Busy, Known, OnAgenda, ActsAhead, PathFrom
  <2>3. job.phase \in {"live", "batch", "candles"} => job.sym \in Symbols
    BY Facts, BusyTyped DEF WorkJobs
  <2>4. ASSUME job.phase \in {"live", "batch"}
        PROVE  /\ Len(tape[job.sym]) \in Nat /\ Len(tape'[job.sym]) \in Nat
               /\ Len(tape[job.sym]) <= Len(tape'[job.sym])
    BY <1>4, <2>3, <2>4
  <2>5. /\ 0..(MinuteOf(clock) - 1) \subseteq 0..(MinuteOf(clock') - 1)
        /\ clock' \in Nat
    <3>1. clock' \in Nat
      BY <1>4
    <3>2. /\ MinuteOf(clock) \in Nat /\ MinuteOf(clock') \in Nat
          /\ MinuteOf(clock) <= MinuteOf(clock')
      BY <1>4, <3>1, MinutesGrow
    <3>3. QED BY <3>1, <3>2
  <2>6. job'.phase = "live" => job'.at \in 1..Len(tape'[job'.sym]) /\ job'.todo = {}
    BY <2>1, <2>4, SMTT(30) DEF JobFits
  <2>7. job'.phase = "batch" =>
          /\ job'.todo \subseteq 1..Len(tape'[job'.sym])
          /\ job'.at \in 0..Len(tape'[job'.sym])
          /\ \A t \in job'.todo : job'.at < t
          /\ job'.at = 0 => job'.todo # {} /\ job'.acts = <<>>
    <3> DEFINE m == Len(tape[job.sym])
               n == Len(tape'[job.sym])
    <3>1. job.phase = "batch" => m \in Nat /\ n \in Nat /\ m <= n
      BY <2>4
    <3>2. job.phase = "batch" =>
            /\ job.todo \subseteq 1..m /\ job.at \in 0..m
            /\ \A t \in job.todo : job.at < t
            /\ job.at = 0 => job.todo # {} /\ job.acts = <<>>
      BY <2>1 DEF JobFits
    <3> HIDE DEF m, n
    <3>3. job.phase = "batch" => 1..m \subseteq 1..n /\ 0..m \subseteq 0..n
      BY <3>1
    <3>4. job.phase = "batch" => job.todo \subseteq 1..n /\ job.at \in 0..n
      BY <3>2, <3>3
    <3>5. QED BY <2>1, <3>2, <3>4 DEF n
  <2>8. job'.phase = "candles" =>
          /\ job'.todo \subseteq 0..(MinuteOf(clock') - 1)
          /\ job'.at \in 0..(MinuteOf(clock') - 1)
    BY <2>1, <2>5 DEF JobFits
  <2>9. /\ Busy' => Known(job.sym)' /\ ~OnAgenda(job.sym)'
        /\ job'.phase \in {"fetch", "candles"}
             => job'.anchor = pending'[job'.sym] /\ job'.anchor >= 0
        /\ job'.phase \in {"live", "batch", "candles"} => ActsAhead(views[job.sym].status)'
    BY <2>1, <2>2 DEF JobFits
  <2>10. QED BY <2>1, <2>6, <2>7, <2>8, <2>9 DEF JobFits, Known, OnAgenda, MinuteOf
<1>8. QED BY <1>5, <1>6, <1>7 DEF MemoryHolds

(* What a transition does to the memory: it forgets a signal that closes,  *)
(* with its stream and its anchor, and else remembers its new status.      *)
LEMMA TransitionFits ==
  ASSUME ServiceInvariant, NEW s \in Symbols, NEW target, NEW key, NEW time, NEW left, NEW then,
         TransitionStep(s, target, key, time, left, then),
         left \in {pending[s], NoAnchor}, UNCHANGED <<clock, crashes, seen>>,
         agenda' \subseteq agenda, \A e \in agenda : e[1] # s => e \in agenda',
         Closes(target) => ~OnAgenda(s)', ~Closes(target) => agenda' = agenda
  PROVE  /\ \A x \in Symbols : ViewFits(x)'
         /\ \A e \in agenda' : Known(e[1])'
         /\ views' \in [Symbols -> ViewRecords \cup {NoView}]
         /\ pending' \in [Symbols -> 0..MaxTime \cup {NoAnchor}]
         /\ streamReady' \subseteq Symbols
         /\ Closes(target) => job' = IdleJob
         /\ ~Closes(target) =>
              /\ Known(s)' /\ views'[s].status = target /\ pending'[s] = left
              /\ job' = then /\ views'[s].id = views[s].id
<1> DEFINE i == views[s].id
<1>1. /\ Known(s) /\ Legal(s, target, key)
      /\ Store!ApplyTransition(i, target, key, time, ActionStop(target), ActionQuantity(target))
      /\ views' = [views EXCEPT ![s] = Remembered(s, target)]
      /\ pending' = [pending EXCEPT ![s] = IF Closes(target) THEN NoAnchor ELSE left]
      /\ job' = IF Closes(target) THEN IdleJob ELSE then
      /\ Closes(target) => streamReady' = streamReady \ {s} /\ Unsubscribed({s})
      /\ ~Closes(target) => UNCHANGED <<streamReady, streamVars>>
  BY DEF TransitionStep, Applied
<1>2. /\ i \in Signals /\ SymbolOf[i] = s /\ views[s].stop = currentStop[i]
      /\ views[s].status = status[i]
  BY <1>1, Facts, Remembers
<1>3. /\ Closes(target) => Remembered(s, target) = NoView
      /\ ~Closes(target) =>
           /\ Remembered(s, target) # NoView
           /\ target \in TrackingStatuses
           /\ Remembered(s, target) \in ViewRecords
           /\ Remembered(s, target) =
                [id |-> i, status |-> target,
                 stop |-> IF target = "tp1_reached" THEN "breakeven" ELSE views[s].stop,
                 last |-> views[s].last]
  BY <1>1, Facts, RememberedIs DEF Legal
<1>4. WorkTyped /\ AgendaHolds /\ (\A x \in Symbols : ViewFits(x))
  BY MemoryIsSound DEF MemoryHolds
<1>5. /\ views' \in [Symbols -> ViewRecords \cup {NoView}]
      /\ views'[s] = Remembered(s, target)
      /\ \A x \in Symbols : x # s => views'[x] = views[x]
  BY <1>1, <1>3, <1>4 DEF WorkTyped
<1>6. /\ pending' \in [Symbols -> 0..MaxTime \cup {NoAnchor}]
      /\ pending'[s] = IF Closes(target) THEN NoAnchor ELSE left
      /\ \A x \in Symbols : x # s => pending'[x] = pending[x]
  <2> DEFINE P == 0..MaxTime \cup {NoAnchor}
  <2>1. pending \in [Symbols -> P] /\ NoAnchor \in P
    BY <1>4 DEF WorkTyped
  <2> HIDE DEF P
  <2>2. left \in P
    BY <2>1
  <2>3. pending' \in [Symbols -> P] /\ \A x \in Symbols : x # s => pending'[x] = pending[x]
    BY <1>1, <2>1, <2>2
  <2>4. pending'[s] = IF Closes(target) THEN NoAnchor ELSE left
    BY <1>1, <2>1
  <2>5. QED BY <2>3, <2>4 DEF P
<1>7. link \in [Symbols -> {"off", "down", "open", "buffered", "ready"}]
  BY Facts DEF TypeOK
<1>8. /\ \A x \in Symbols : x # s => link'[x] = link[x]
      /\ Closes(target) => link'[s] = "off"
      /\ ~Closes(target) => link'[s] = link[s]
  BY <1>1, <1>7 DEF Unsubscribed, streamVars
<1>9. /\ status' = [status EXCEPT ![i] = target]
      /\ currentStop' = Store!Updated(currentStop, i, ActionStop(target))
      /\ UNCHANGED checkpoint
  BY <1>1 DEF Store!ApplyTransition
<1>10. /\ status \in [Signals -> SignalStatuses \cup {"absent"}]
       /\ currentStop \in [Signals -> {"initial", "breakeven"}]
       /\ checkpoint \in [Signals -> 0..MaxTrades]
  BY Facts, RowsTyped
<1>11. clock \in Int /\ clock' \in Int /\ clock <= clock' /\ clock >= 0
  BY Facts, ClockTyped
<1>12. ASSUME NEW x \in Symbols, x # s PROVE ViewFits(x)'
  <2>1. ASSUME Known(x)
        PROVE  /\ status'[views[x].id] = status[views[x].id]
               /\ currentStop'[views[x].id] = currentStop[views[x].id]
               /\ checkpoint'[views[x].id] \in Int
               /\ checkpoint[views[x].id] <= checkpoint'[views[x].id]
    <3>1. views[x].id \in Signals /\ SymbolOf[views[x].id] = x
      BY <2>1, Facts, Remembers
    <3>2. views[x].id # i
      BY <1>2, <1>12, <3>1
    <3>3. checkpoint[views[x].id] \in Int
      BY <1>10, <3>1, Constants
    <3>4. QED BY <1>9, <1>10, <3>1, <3>2, <3>3 DEF Store!Updated
  <2>2. OnAgenda(x) => OnAgenda(x)'
    BY <1>12 DEF OnAgenda
  <2>3. QED BY <1>5, <1>6, <1>8, <1>11, <1>12, <2>1, <2>2, Unaffected
<1>13. ViewFits(s)'
  <2>1. CASE Closes(target)
    <3>1. views'[s] = NoView /\ pending'[s] = NoAnchor /\ link'[s] = "off"
      BY <1>3, <1>5, <1>6, <1>8, <2>1
    <3>2. pending'[s] <= clock'
      BY <1>11, <3>1 DEF NoAnchor
    <3>3. QED BY <3>1, <3>2 DEF ViewFits, Known
  <2>2. CASE ~Closes(target)
    <3>1. /\ views'[s].id = i /\ views'[s].status = target /\ Known(s)'
          /\ views'[s].stop = IF target = "tp1_reached" THEN "breakeven" ELSE views[s].stop
          /\ views'[s].last = views[s].last
      BY <1>3, <1>5, <2>2 DEF Known
    <3>2. status'[i] = target /\ i \in Store!Tracked(s)'
      BY <1>2, <1>3, <1>9, <1>10, <2>2, SameTables DEF Store!Tracked
    <3>3. views'[s].stop = currentStop'[i]
      BY <1>2, <1>9, <1>10, <3>1 DEF Store!Updated, ActionStop
    <3>4. views'[s].last <= checkpoint'[i]
      BY <1>1, <1>4, <1>9, <3>1 DEF ViewFits
    <3>5. link'[s] = "off" => OnAgenda(s)'
      <4>1. link[s] = "off" => OnAgenda(s)
        BY <1>1, <1>4 DEF ViewFits
      <4>2. agenda' = agenda
        BY <2>2
      <4>3. QED BY <1>8, <2>2, <4>1, <4>2 DEF OnAgenda
    <3>6. pending'[s] <= clock'
      <4>1. pending[s] <= clock
        BY <1>4 DEF ViewFits
      <4>2. NoAnchor <= clock
        BY <1>11 DEF NoAnchor
      <4>3. pending'[s] = left /\ clock' = clock
        BY <1>6, <2>2
      <4>4. QED BY <4>1, <4>2, <4>3
    <3>7. QED BY <3>1, <3>2, <3>3, <3>4, <3>5, <3>6 DEF ViewFits
  <2>3. QED BY <2>1, <2>2
<1>14. ASSUME NEW e \in agenda' PROVE Known(e[1])'
  <2>1. e \in agenda /\ Known(e[1]) /\ e[1] \in Symbols
    BY <1>4 DEF AgendaHolds, WorkTyped
  <2>2. CASE e[1] # s
    BY <1>5, <2>1, <2>2 DEF Known
  <2>3. CASE e[1] = s
    <3>1. ~Closes(target)
      BY <2>3 DEF OnAgenda
    <3>2. QED BY <1>3, <1>5, <2>3, <3>1 DEF Known
  <2>4. QED BY <2>2, <2>3
<1>15. streamReady' \subseteq Symbols
  BY <1>1, <1>4 DEF WorkTyped
<1>16. ~Closes(target) => /\ Known(s)' /\ views'[s].status = target /\ views'[s].id = i
  BY <1>3, <1>5 DEF Known
<1>17. QED BY <1>1, <1>5, <1>6, <1>12, <1>13, <1>14, <1>15, <1>16

LEMMA RestartFits ==
  ASSUME ServiceInvariant, Restart
  PROVE  MemoryHolds'
<1>1. MemoryHolds
  BY MemoryIsSound
<1>2. /\ views' = [s \in Symbols |-> NoView] /\ pending' = [s \in Symbols |-> NoAnchor]
      /\ streamReady' = {} /\ agenda' = {} /\ job' = BootJob /\ UNCHANGED <<seen, clock>>
      /\ crashes < MaxCrashes /\ crashes' = crashes + 1
      /\ link' = [s \in Symbols |-> "off"]
  BY DEF Restart, Unsubscribed
<1>3. crashes' \in 0..MaxCrashes
  BY <1>1, <1>2, Constants DEF MemoryHolds, WorkTyped
<1>4. clock \in Int /\ clock >= 0
  BY Facts, ClockTyped
<1>5. WorkTyped'
  <2>1. NoView \in ViewRecords \cup {NoView} /\ NoAnchor \in 0..MaxTime \cup {NoAnchor}
    OBVIOUS
  <2>2. /\ views' \in [Symbols -> ViewRecords \cup {NoView}]
        /\ pending' \in [Symbols -> 0..MaxTime \cup {NoAnchor}]
    BY <1>2, <2>1
  <2>3. QED BY <1>1, <1>2, <1>3, <2>2 DEF MemoryHolds, WorkTyped
<1>6. \A s \in Symbols : ViewFits(s)'
  BY <1>2, <1>4 DEF ViewFits, Known, NoAnchor
<1>7. AgendaHolds' /\ JobFits'
  BY <1>2 DEF AgendaHolds, JobFits, Busy, BootJob
<1>8. QED BY <1>5, <1>6, <1>7 DEF MemoryHolds

LEMMA BeginReconcileFits ==
  ASSUME ServiceInvariant, BeginReconcile
  PROVE  MemoryHolds'
<1> DEFINE released == {s \in Symbols : Known(s) /\ StoredView(s) = NoView}
<1>1. MemoryHolds
  BY MemoryIsSound
<1>2. /\ views' = [s \in Symbols |-> StoredView(s)]
      /\ pending' = [s \in Symbols |-> IF s \in released THEN NoAnchor ELSE pending[s]]
      /\ streamReady' = streamReady \ released
      /\ link' = [s \in Symbols |-> IF s \in released THEN "off" ELSE link[s]]
      /\ agenda' = {s \in Symbols : StoredView(s) # NoView} \X {clock}
      /\ job' = IdleJob /\ UNCHANGED <<storeVars, seen, clock, crashes>>
  BY DEF BeginReconcile, Unsubscribed, UnchangedByService, worldVars
<1>3. clock \in 0..MaxTime /\ clock \in Int /\ clock >= 0
  BY Facts, ClockTyped DEF TypeOK
<1>4. \A s \in Symbols : StoredView(s) \in ViewRecords \cup {NoView}
  BY Facts, Reads
<1>5. pending' \in [Symbols -> 0..MaxTime \cup {NoAnchor}]
  <2> DEFINE P == 0..MaxTime \cup {NoAnchor}
  <2>1. pending \in [Symbols -> P] /\ NoAnchor \in P
    BY <1>1 DEF MemoryHolds, WorkTyped
  <2> HIDE DEF P
  <2>2. \A s \in Symbols : (IF s \in released THEN NoAnchor ELSE pending[s]) \in P
    BY <2>1
  <2>3. pending' \in [Symbols -> P]
    BY <1>2, <2>2
  <2>4. QED BY <2>3 DEF P
<1>6. WorkTyped'
  <2>1. views' \in [Symbols -> ViewRecords \cup {NoView}]
    BY <1>2, <1>4
  <2>2. streamReady' \subseteq Symbols /\ agenda' \subseteq Symbols \X (0..MaxTime)
    BY <1>1, <1>2, <1>3 DEF MemoryHolds, WorkTyped
  <2>3. crashes' \in 0..MaxCrashes /\ seen' \in [Signals -> SUBSET (1..MaxTrades)]
    BY <1>1, <1>2 DEF MemoryHolds, WorkTyped
  <2>4. QED BY <1>2, <1>5, <2>1, <2>2, <2>3, IdleFits DEF WorkTyped
<1>7. ASSUME NEW s \in Symbols PROVE ViewFits(s)'
  <2>1. ViewFits(s) /\ pending[s] <= clock
    BY <1>1 DEF MemoryHolds, ViewFits
  <2>2. pending'[s] <= clock'
    <3>1. pending'[s] = NoAnchor \/ pending'[s] = pending[s]
      BY <1>2
    <3>2. NoAnchor <= clock /\ clock' = clock
      BY <1>2, <1>3 DEF NoAnchor
    <3>3. QED BY <2>1, <3>1, <3>2
  <2>3. Known(s)' <=> StoredView(s) # NoView
    BY <1>2 DEF Known
  <2>4. ASSUME StoredView(s) # NoView
        PROVE  /\ views'[s].id \in Store!Tracked(s)'
               /\ views'[s].status = status'[views'[s].id]
               /\ views'[s].stop = currentStop'[views'[s].id]
               /\ views'[s].last <= checkpoint'[views'[s].id]
               /\ OnAgenda(s)'
    <3>1. PICK i \in Store!Tracked(s) :
            StoredView(s) = [id |-> i, status |-> status[i], stop |-> currentStop[i],
                             last |-> checkpoint[i]]
      BY <2>4, Facts, Reads
    <3>2. checkpoint[i] \in Int
      BY <3>1, Facts, RowsTyped, Constants DEF Store!Tracked
    <3>3. /\ views'[s] = StoredView(s)
          /\ UNCHANGED <<status, currentStop, checkpoint>>
      BY <1>2 DEF storeVars
    <3>4. Store!Tracked(s)' = Store!Tracked(s)
      BY <3>3 DEF Store!Tracked
    <3>5. checkpoint[i] <= checkpoint[i]
      BY <3>2
    <3>6. OnAgenda(s)'
      <4>1. <<s, clock>> \in agenda' /\ <<s, clock>>[1] = s
        BY <1>2, <2>4
      <4>2. QED BY <4>1 DEF OnAgenda
    <3>7. QED BY <3>1, <3>3, <3>4, <3>5, <3>6
  <2>5. link'[s] # "off" \/ pending'[s] # NoAnchor => Known(s)'
    <3>1. s \notin released => link'[s] = link[s] /\ pending'[s] = pending[s]
      BY <1>2
    <3>2. s \in released => link'[s] = "off" /\ pending'[s] = NoAnchor
      BY <1>2
    <3>3. QED BY <2>1, <2>3, <3>1, <3>2 DEF ViewFits
  <2>6. QED BY <2>2, <2>3, <2>4, <2>5 DEF ViewFits
<1>8. AgendaHolds'
  <2>1. \A e \in agenda' : e[1] \in Symbols /\ StoredView(e[1]) # NoView /\ e = <<e[1], clock>>
    BY <1>2
  <2>2. \A e \in agenda' : Known(e[1])'
    BY <1>2, <2>1 DEF Known
  <2>3. \A e, f \in agenda' : e[1] = f[1] => e = f
    BY <2>1
  <2>4. QED BY <1>2, <2>2, <2>3, IdleFits DEF AgendaHolds
<1>9. QED BY <1>2, <1>6, <1>7, <1>8, IdleFits DEF MemoryHolds

(* The agenda without the entry that is being worked on.                   *)
LEMMA AgendaShrinks ==
  ASSUME WorkTyped, AgendaHolds, NEW s \in Symbols, NEW now, <<s, now>> \in agenda,
         agenda' = agenda \ {<<s, now>>}
  PROVE  /\ agenda' \subseteq agenda /\ ~OnAgenda(s)'
         /\ \A e \in agenda : e[1] # s => e \in agenda'
         /\ \A e, f \in agenda' : e[1] = f[1] => e = f
<1>1. <<s, now>>[1] = s
  OBVIOUS
<1>2. \A e \in agenda : e[1] = s => e = <<s, now>>
  BY <1>1 DEF AgendaHolds
<1>3. ~OnAgenda(s)'
  BY <1>2 DEF OnAgenda
<1>4. QED BY <1>1, <1>3 DEF AgendaHolds

LEMMA ReconcileSymbolFits ==
  ASSUME ServiceInvariant, NEW s \in Symbols, NEW now \in 0..MaxTime, ReconcileSymbol(s, now)
  PROVE  MemoryHolds'
<1> DEFINE i == views[s].id
<1>1. WorkTyped /\ AgendaHolds /\ \A x \in Symbols : ViewFits(x)
  BY MemoryIsSound DEF MemoryHolds
<1>2. /\ Known(s) /\ job = IdleJob /\ <<s, now>> \in agenda
      /\ agenda' = agenda \ {<<s, now>>} /\ UNCHANGED <<seen, clock, crashes, tape>>
  BY ReconcileApplies DEF worldVars
<1>3. /\ agenda' \subseteq agenda /\ ~OnAgenda(s)'
      /\ \A e \in agenda : e[1] # s => e \in agenda'
      /\ \A e, f \in agenda' : e[1] = f[1] => e = f
  BY <1>1, <1>2, AgendaShrinks
<1>4. clock \in Int /\ clock' \in Int /\ clock <= clock'
  BY <1>2, Facts, ClockTyped
<1>5. agenda' \subseteq Symbols \X (0..MaxTime) /\ crashes' \in 0..MaxCrashes
      /\ seen' \in [Signals -> SUBSET (1..MaxTrades)]
  BY <1>1, <1>2, <1>3 DEF WorkTyped
<1>6. CASE TransitionStep(s, "expired", <<"expired", i>>, Expires(i), pending[s], IdleJob)
  <2>1. Closes("expired")
    BY DEF Closes, TerminalStatuses
  <2>2. /\ \A x \in Symbols : ViewFits(x)'
        /\ \A e \in agenda' : Known(e[1])'
        /\ views' \in [Symbols -> ViewRecords \cup {NoView}]
        /\ pending' \in [Symbols -> 0..MaxTime \cup {NoAnchor}]
        /\ streamReady' \subseteq Symbols /\ job' = IdleJob
    BY <1>2, <1>3, <1>6, <2>1, TransitionFits
  <2>3. WorkTyped'
    BY <1>5, <2>2, IdleFits DEF WorkTyped
  <2>4. AgendaHolds'
    BY <1>3, <2>2, IdleFits DEF AgendaHolds
  <2>5. QED BY <2>2, <2>3, <2>4, IdleFits DEF MemoryHolds
<1>7. ASSUME UNCHANGED <<storeVars, views, streamReady>>,
             \A x \in Symbols : x # s => link'[x] = link[x] /\ pending'[x] = pending[x],
             link'[s] # "off", pending'[s] <= clock,
             pending' \in [Symbols -> 0..MaxTime \cup {NoAnchor}],
             \/ job' = IdleJob
             \/ /\ job' = [phase |-> "fetch", sym |-> s, anchor |-> pending'[s]]
                /\ pending'[s] \in Nat
      PROVE  MemoryHolds'
  <2>1. \A x \in Symbols : Known(x)' = Known(x)
    BY <1>7 DEF Known
  <2>2. ASSUME NEW x \in Symbols, x # s PROVE ViewFits(x)'
    <3>1. OnAgenda(x) => OnAgenda(x)'
      BY <1>3, <2>2 DEF OnAgenda
    <3>2. Known(x) => checkpoint[views[x].id] \in Int
      BY Facts, Remembers, RowsTyped, Constants
    <3>3. /\ views'[x] = views[x] /\ link'[x] = link[x] /\ pending'[x] = pending[x]
          /\ UNCHANGED <<status, currentStop, checkpoint>>
      BY <1>7, <2>2 DEF storeVars
    <3>4. Known(x) => checkpoint[views[x].id] <= checkpoint'[views[x].id]
      BY <3>2, <3>3
    <3>5. QED BY <1>4, <3>1, <3>2, <3>3, <3>4, Unaffected
  <2>3. ViewFits(s)'
    <3>1. ViewFits(s)
      BY <1>1
    <3>2. UNCHANGED <<status, currentStop, checkpoint, views, clock>>
      BY <1>2, <1>7 DEF storeVars
    <3>3. Store!Tracked(s)' = Store!Tracked(s)
      BY <3>2 DEF Store!Tracked
    <3>4. QED BY <1>2, <1>7, <3>1, <3>2, <3>3 DEF ViewFits, Known
  <2>4. JobFits' /\ job'.phase # "boot" /\ job' \in {IdleJob, BootJob} \cup FetchJobs \cup WorkJobs
    <3>1. views'[s] # NoView
      BY <1>2, <1>7 DEF Known
    <3>2. QED BY <1>3, <1>7, <3>1, IdleFits, FetchFits
  <2>5. AgendaHolds'
    <3>1. \A e \in agenda' : e[1] \in Symbols /\ Known(e[1])
      BY <1>1, <1>3 DEF AgendaHolds, WorkTyped
    <3>2. QED BY <1>3, <2>1, <2>4, <3>1 DEF AgendaHolds
  <2>6. WorkTyped'
    BY <1>1, <1>5, <1>7, <2>4 DEF WorkTyped
  <2>7. QED BY <2>2, <2>3, <2>4, <2>5, <2>6 DEF MemoryHolds
<1>8. link \in [Symbols -> {"off", "down", "open", "buffered", "ready"}]
  BY Facts DEF TypeOK
<1>9. CASE /\ link[s] = "off"
           /\ link' = [link EXCEPT ![s] = "down"]
           /\ pending' = [pending EXCEPT ![s] = Anchor(s)]
           /\ UNCHANGED <<storeVars, received, opened, buffer, outgoing, views, streamReady, job>>
  <2>1. Anchor(s) \in 0..MaxTime /\ Anchor(s) <= clock
    BY <1>2, AnchorTyped
  <2> DEFINE P == 0..MaxTime \cup {NoAnchor}
  <2>2. pending \in [Symbols -> P] /\ Anchor(s) \in P
    BY <1>1, <2>1 DEF WorkTyped
  <2> HIDE DEF P
  <2>3. /\ pending' \in [Symbols -> P] /\ pending'[s] = Anchor(s)
        /\ \A x \in Symbols : x # s => pending'[x] = pending[x]
    BY <1>9, <2>2
  <2>4. link'[s] # "off" /\ \A x \in Symbols : x # s => link'[x] = link[x]
    BY <1>8, <1>9
  <2>5. QED BY <1>2, <1>7, <1>9, <2>1, <2>3, <2>4 DEF P
<1>10. CASE /\ link[s] # "off"
            /\ job' = IF pending[s] # NoAnchor /\ s \in streamReady THEN FetchJob(s) ELSE job
            /\ UNCHANGED <<storeVars, streamVars, memoryVars>>
  <2>1. UNCHANGED <<storeVars, views, streamReady, pending, link>>
    BY <1>10 DEF streamVars, memoryVars
  <2>2. pending[s] <= clock /\ pending[s] \in 0..MaxTime \cup {NoAnchor}
    BY <1>1 DEF ViewFits, WorkTyped
  <2>3. \/ job' = IdleJob
        \/ /\ job' = [phase |-> "fetch", sym |-> s, anchor |-> pending'[s]]
           /\ pending'[s] \in Nat
    BY <1>2, <1>10, <2>1, <2>2, Constants DEF FetchJob
  <2>4. pending' \in [Symbols -> 0..MaxTime \cup {NoAnchor}]
    BY <1>1, <2>1 DEF WorkTyped
  <2>5. QED BY <1>7, <1>10, <2>1, <2>2, <2>3, <2>4
<1>11. QED BY <1>6, <1>9, <1>10, ReconcileApplies

(* A step that leaves every signal with its status and its stream.         *)
LEMMA MemoryStep ==
  ASSUME ServiceInvariant, NEW s \in Symbols,
         UNCHANGED <<status, currentStop, link, agenda, clock, crashes>>,
         \A i \in Signals : checkpoint'[i] \in Int /\ checkpoint[i] <= checkpoint'[i],
         \/ UNCHANGED views
         \/ \E t \in 0..MaxTrades :
              /\ Known(s) /\ views' = [views EXCEPT ![s].last = t]
              /\ t <= checkpoint'[views[s].id],
         pending' \in [Symbols -> 0..MaxTime \cup {NoAnchor}],
         \A x \in Symbols : x # s => pending'[x] = pending[x],
         pending'[s] <= clock, Known(s) \/ pending'[s] \in {pending[s], NoAnchor},
         streamReady' \subseteq Symbols, seen' \in [Signals -> SUBSET (1..MaxTrades)],
         job' \in {IdleJob, BootJob} \cup FetchJobs \cup WorkJobs, job'.phase # "boot", JobFits'
  PROVE  MemoryHolds'
<1>1. WorkTyped /\ AgendaHolds /\ \A x \in Symbols : ViewFits(x)
  BY MemoryIsSound DEF MemoryHolds
<1>2. /\ views' \in [Symbols -> ViewRecords \cup {NoView}]
      /\ \A x \in Symbols : Known(x)' = Known(x)
      /\ \A x \in Symbols : x # s => views'[x] = views[x]
      /\ Known(s) => /\ views'[s].id = views[s].id /\ views'[s].status = views[s].status
                     /\ views'[s].stop = views[s].stop
                     /\ \/ views'[s].last = views[s].last
                        \/ views'[s].last <= checkpoint'[views[s].id]
  <2>1. CASE UNCHANGED views
    BY <1>1, <2>1 DEF WorkTyped, Known
  <2>2. CASE ~UNCHANGED views
    <3>1. PICK t \in 0..MaxTrades :
            /\ Known(s) /\ views' = [views EXCEPT ![s].last = t]
            /\ t <= checkpoint'[views[s].id]
      BY <2>2
    <3>2. views[s] \in ViewRecords /\ views[s].status # "none"
      BY <3>1, Facts, Remembers DEF TrackingStatuses
    <3> DEFINE v == [views[s] EXCEPT !.last = t]
    <3>3. /\ v \in ViewRecords /\ v.id = views[s].id /\ v.status = views[s].status
          /\ v.stop = views[s].stop /\ v.last = t
      BY <3>1, <3>2 DEF ViewRecords
    <3>4. v # NoView
      <4>1. v.status # "none"
        BY <3>2, <3>3
      <4>2. QED BY <4>1 DEF NoView
    <3>5. views' = [views EXCEPT ![s] = v]
      BY <3>1
    <3> HIDE DEF v
    <3>6. /\ views' \in [Symbols -> ViewRecords \cup {NoView}] /\ views'[s] = v
          /\ \A x \in Symbols : x # s => views'[x] = views[x]
      BY <1>1, <3>3, <3>5 DEF WorkTyped
    <3>7. \A x \in Symbols : Known(x)' = Known(x)
      BY <3>1, <3>4, <3>6 DEF Known
    <3>8. QED BY <3>1, <3>3, <3>6, <3>7
  <2>3. QED BY <2>1, <2>2
<1>3. clock \in Int /\ clock' \in Int /\ clock <= clock'
  BY Facts, ClockTyped
<1>4. ASSUME NEW x \in Symbols, x # s PROVE ViewFits(x)'
  <2>1. Known(x) => views[x].id \in Signals
    BY Facts, Remembers
  <2>2. OnAgenda(x) => OnAgenda(x)'
    BY DEF OnAgenda
  <2>3. QED BY <1>2, <1>3, <1>4, <2>1, <2>2, Unaffected
<1>5. ViewFits(s)'
  <2>1. ViewFits(s)
    BY <1>1
  <2>2. Store!Tracked(s)' = Store!Tracked(s)
    BY DEF Store!Tracked
  <2>3. OnAgenda(s)' = OnAgenda(s)
    BY DEF OnAgenda
  <2>4. ASSUME Known(s) PROVE views'[s].last <= checkpoint'[views[s].id]
    <3>0. views[s].id \in Signals /\ views[s].last \in Int
      BY <2>4, Facts, Remembers
    <3>1. /\ views[s].id \in Signals /\ views[s].last \in Int /\ checkpoint[views[s].id] \in Int
      BY <3>0, Facts, RowsTyped, Constants
    <3>2. views[s].last <= checkpoint[views[s].id]
      BY <2>1, <2>4 DEF ViewFits
    <3>3. /\ checkpoint'[views[s].id] \in Int
          /\ checkpoint[views[s].id] <= checkpoint'[views[s].id]
      BY <3>1
    <3>4. CASE UNCHANGED views
      BY <3>1, <3>2, <3>3, <3>4
    <3>5. ASSUME NEW t \in 0..MaxTrades, views' = [views EXCEPT ![s].last = t],
                 t <= checkpoint'[views[s].id]
          PROVE  views'[s].last <= checkpoint'[views[s].id]
      BY <1>1, <2>4, <3>5, Remembers, Facts DEF ViewRecords, WorkTyped
    <3>6. QED BY <3>4, <3>5
  <2>5. link'[s] # "off" \/ pending'[s] # NoAnchor => Known(s)
    BY <2>1 DEF ViewFits
  <2>6. QED BY <1>2, <2>1, <2>2, <2>3, <2>4, <2>5 DEF ViewFits
<1>6. WorkTyped'
  BY <1>1, <1>2 DEF WorkTyped
<1>7. AgendaHolds'
  <2>1. \A e \in agenda : e[1] \in Symbols
    BY <1>1 DEF WorkTyped
  <2>2. QED BY <1>1, <1>2, <2>1 DEF AgendaHolds
<1>8. QED BY <1>4, <1>5, <1>6, <1>7 DEF MemoryHolds

(* A job for a remembered signal that has just been taken up.              *)
LEMMA WorkFits ==
  ASSUME NEW s \in Symbols, NEW phase \in {"live", "batch", "candles"}, NEW anchor, NEW todo,
         NEW at, NEW acts,
         job' = WorkJob(phase, s, anchor, todo, at, acts),
         anchor \in Nat \cup {NoAnchor}, todo \subseteq Nat, at \in Nat,
         Known(s)', ~OnAgenda(s)', PathFrom(views'[s].status, acts),
         phase = "live" => at \in 1..Len(tape'[s]) /\ todo = {},
         phase = "batch" =>
           /\ todo \subseteq 1..Len(tape'[s]) /\ at \in 0..Len(tape'[s])
           /\ \A t \in todo : at < t
           /\ at = 0 => todo # {} /\ acts = <<>>,
         phase = "candles" =>
           /\ anchor = pending'[s] /\ anchor \in Nat
           /\ todo \subseteq 0..(MinuteOf(clock') - 1) /\ at \in 0..(MinuteOf(clock') - 1)
  PROVE  JobFits' /\ job'.phase # "boot" /\ job' \in {IdleJob, BootJob} \cup FetchJobs \cup WorkJobs
<1>1. acts \in Seq(TerminalStatuses \cup TrackingStatuses)
  <2>1. CASE acts = <<>>
    BY <2>1
  <2>2. CASE acts = <<"tp1_reached", "tp2_completed">>
    BY <2>2 DEF TerminalStatuses, TrackingStatuses
  <2>3. ASSUME NEW target, acts = <<target>>, <<views'[s].status, target>> \in SignalMoves
        PROVE  acts \in Seq(TerminalStatuses \cup TrackingStatuses)
    <3>1. target \in TerminalStatuses \cup TrackingStatuses
      BY <2>3, Moves
    <3>2. QED BY <2>3, <3>1
  <2>4. QED BY <2>1, <2>2, <2>3 DEF PathFrom
<1>2. /\ job'.phase = phase /\ job'.sym = s /\ job'.anchor = anchor /\ job'.todo = todo
      /\ job'.at = at /\ job'.acts = acts /\ job'.next = 1
  BY DEF WorkJob
<1>3. job' \in WorkJobs
  BY <1>1 DEF WorkJob, WorkJobs
<1>4. ActsAhead(views[s].status)'
  BY <1>2 DEF ActsAhead, PathFrom
<1>5. JobFits'
  <2>1. Busy' => Known(s)' /\ ~OnAgenda(s)'
    OBVIOUS
  <2>2. anchor \in Nat => anchor >= 0
    OBVIOUS
  <2>3. QED BY <1>2, <1>4, <2>1, <2>2 DEF JobFits, Known, OnAgenda
<1>6. QED BY <1>2, <1>3, <1>5

LEMMA HandleDisconnectedFits ==
  ASSUME ServiceInvariant, HandleDisconnected
  PROVE  MemoryHolds'
<1> DEFINE s == Head(queue).sym
<1>1. WorkTyped /\ AgendaHolds /\ \A x \in Symbols : ViewFits(x)
  BY MemoryIsSound DEF MemoryHolds
<1>2. /\ job = IdleJob /\ queue # <<>> /\ streamReady' = streamReady \ {s}
      /\ pending' = Reanchored(s)
      /\ UNCHANGED <<storeVars, worldVars, streamVars, views, agenda, job, seen>>
  BY DEF HandleDisconnected, NextEvent
<1>3. s \in Symbols
  <2>1. queue \in Seq(StreamEvents)
    BY Facts DEF TypeOK
  <2>2. Head(queue) \in StreamEvents
    BY <1>2, <2>1, QueueTail
  <2>3. QED BY <2>2 DEF StreamEvents
<1>4. Known(s) => Anchor(s) \in 0..MaxTime /\ Anchor(s) <= clock
  BY <1>3, AnchorTyped
<1> DEFINE P == 0..MaxTime \cup {NoAnchor}
<1>5. pending \in [Symbols -> P] /\ pending[s] <= clock /\ (Known(s) => Anchor(s) \in P)
  BY <1>1, <1>3, <1>4 DEF WorkTyped, ViewFits
<1> HIDE DEF P, s
<1>7. /\ pending' \in [Symbols -> P] /\ \A x \in Symbols : x # s => pending'[x] = pending[x]
      /\ pending'[s] <= clock /\ (Known(s) \/ pending'[s] = pending[s])
  BY <1>2, <1>3, <1>4, <1>5 DEF Reanchored
<1>8. /\ UNCHANGED <<status, currentStop, link, agenda, clock, crashes, checkpoint, views>>
      /\ streamReady' \subseteq Symbols /\ seen' \in [Signals -> SUBSET (1..MaxTrades)]
      /\ job' = IdleJob
  BY <1>1, <1>2 DEF storeVars, worldVars, streamVars, WorkTyped
<1>9. \A i \in Signals : checkpoint'[i] \in Int /\ checkpoint[i] <= checkpoint'[i]
  BY <1>8, Facts, RowsTyped, Constants
<1>10. QED BY <1>3, <1>7, <1>8, <1>9, MemoryStep, IdleFits DEF P

(* The event at the head of the queue. *)
LEMMA HeadEvent ==
  ASSUME ServiceInvariant, queue # <<>>
  PROVE  /\ Head(queue) \in StreamEvents /\ Head(queue).sym \in Symbols
         /\ Head(queue) = queue[1] /\ 1 \in DOMAIN queue
         /\ Head(queue).type = "trade" =>
              Head(queue).trade \in 1..Len(tape[Head(queue).sym])
<1>1. /\ queue \in Seq(StreamEvents)
      /\ received \in [Symbols -> 0..MaxTrades]
  BY Facts DEF TypeOK
<1>2. Head(queue) \in StreamEvents /\ Head(queue) = queue[1] /\ 1 \in DOMAIN queue
  BY <1>1, QueueTail
<1>3. Head(queue).sym \in Symbols
  BY <1>2 DEF StreamEvents
<1>4. ASSUME Head(queue).type = "trade"
      PROVE  Head(queue).trade \in 1..Len(tape[Head(queue).sym])
  <2>1. Head(queue).trade \in 1..received[Head(queue).sym]
    BY <1>2, <1>4, Facts DEF EventsInOrder
  <2>2. /\ received[Head(queue).sym] <= Len(tape[Head(queue).sym])
        /\ received[Head(queue).sym] \in Nat /\ Len(tape[Head(queue).sym]) \in Nat
    BY <1>1, <1>3, Facts, ClockTyped, Constants DEF EventsInOrder
  <2>3. QED BY <2>1, <2>2, SMTT(20)
<1>5. QED BY <1>2, <1>3, <1>4

(* What holds of the memory whenever a step leaves the rows alone.         *)
LEMMA Calm ==
  ASSUME ServiceInvariant, UNCHANGED <<storeVars, worldVars>>
  PROVE  /\ UNCHANGED <<status, currentStop, clock, crashes, checkpoint, tape>>
         /\ \A i \in Signals : checkpoint'[i] \in Int /\ checkpoint[i] <= checkpoint'[i]
<1>1. UNCHANGED <<status, currentStop, clock, crashes, checkpoint, tape>>
  BY DEF storeVars, worldVars
<1>2. QED BY <1>1, Facts, RowsTyped, Constants

LEMMA HandleReadyFits ==
  ASSUME ServiceInvariant, HandleReady
  PROVE  MemoryHolds'
<1>3. PICK s \in Symbols : s = Head(queue).sym
  BY HeadEvent DEF HandleReady, NextEvent
<1>1. WorkTyped /\ AgendaHolds /\ \A x \in Symbols : ViewFits(x)
  BY MemoryIsSound DEF MemoryHolds
<1>2. /\ job = IdleJob /\ queue # <<>> /\ agenda = {} /\ streamReady' = streamReady \cup {s}
      /\ job' = IF Known(s) /\ pending[s] # NoAnchor THEN FetchJob(s) ELSE job
      /\ UNCHANGED <<storeVars, worldVars, streamVars, views, pending, agenda, seen>>
  BY <1>3 DEF HandleReady, NextEvent
<1>4. pending[s] \in 0..MaxTime \cup {NoAnchor} /\ pending[s] <= clock
  BY <1>1, <1>3 DEF WorkTyped, ViewFits
<1>5. JobFits' /\ job'.phase # "boot" /\ job' \in {IdleJob, BootJob} \cup FetchJobs \cup WorkJobs
  <2>1. CASE Known(s) /\ pending[s] # NoAnchor
    <3>1. /\ job' = [phase |-> "fetch", sym |-> s, anchor |-> pending'[s]]
          /\ pending'[s] \in Nat /\ views'[s] # NoView
      BY <1>2, <1>4, <2>1, Constants DEF FetchJob, Known
    <3>2. ~OnAgenda(s)'
      BY <1>2 DEF OnAgenda
    <3>3. QED BY <1>3, <3>1, <3>2, FetchFits
  <2>2. CASE ~(Known(s) /\ pending[s] # NoAnchor)
    BY <1>2, <2>2, IdleFits
  <2>3. QED BY <2>1, <2>2
<1>6. /\ pending' \in [Symbols -> 0..MaxTime \cup {NoAnchor}]
      /\ streamReady' \subseteq Symbols /\ seen' \in [Signals -> SUBSET (1..MaxTrades)]
      /\ UNCHANGED <<link, views, pending, agenda>>
  BY <1>1, <1>2, <1>3 DEF WorkTyped, streamVars
<1>7. /\ UNCHANGED <<status, currentStop, clock, crashes>>
      /\ \A i \in Signals : checkpoint'[i] \in Int /\ checkpoint[i] <= checkpoint'[i]
  BY <1>2, Calm
<1>8. QED BY <1>3, <1>4, <1>5, <1>6, <1>7, MemoryStep

(* Evaluating a trade or a candle only adds to the history.                *)
LEMMA SeenGrows ==
  ASSUME WorkTyped, NEW i \in Signals, NEW T, T \subseteq 1..MaxTrades,
         seen' = [seen EXCEPT ![i] = @ \cup T]
  PROVE  seen' \in [Signals -> SUBSET (1..MaxTrades)]
<1>1. seen \in [Signals -> SUBSET (1..MaxTrades)]
  BY DEF WorkTyped
<1>2. QED BY <1>1

LEMMA HandleTradeFits ==
  ASSUME ServiceInvariant, HandleTrade
  PROVE  MemoryHolds'
<1>0. PICK s \in Symbols : s = Head(queue).sym
  BY HeadEvent DEF HandleTrade, NextEvent
<1>3. PICK t \in 1..Len(tape[s]) : t = Head(queue).trade
  BY <1>0, HeadEvent DEF HandleTrade, NextEvent
<1>1. WorkTyped /\ AgendaHolds /\ \A x \in Symbols : ViewFits(x)
  BY MemoryIsSound DEF MemoryHolds
<1>2. /\ job = IdleJob /\ queue # <<>> /\ agenda = {} /\ Head(queue).type = "trade"
      /\ IF Known(s) /\ pending[s] = NoAnchor
         THEN /\ job' = WorkJob("live", s, NoAnchor, {}, t, ActsOnTrade(s, t))
              /\ seen' = [seen EXCEPT ![views[s].id] = @ \cup {t}]
         ELSE UNCHANGED <<job, seen>>
      /\ UNCHANGED <<storeVars, worldVars, streamVars, memoryVars, agenda>>
  BY <1>0, <1>3 DEF HandleTrade, NextEvent
<1>4. t \in 1..MaxTrades /\ t \in Nat
  BY <1>3, Facts, ClockTyped, Constants DEF TapeFits
<1>5. /\ UNCHANGED <<status, currentStop, clock, crashes, tape>>
      /\ \A i \in Signals : checkpoint'[i] \in Int /\ checkpoint[i] <= checkpoint'[i]
  BY <1>2, Calm
<1>6. UNCHANGED <<link, views, pending, streamReady, agenda>>
  BY <1>2 DEF streamVars, memoryVars
<1>7. /\ JobFits' /\ job'.phase # "boot"
      /\ job' \in {IdleJob, BootJob} \cup FetchJobs \cup WorkJobs
      /\ seen' \in [Signals -> SUBSET (1..MaxTrades)]
  <2>1. CASE Known(s) /\ pending[s] = NoAnchor
    <3>1. views[s].id \in Signals
      BY <1>3, <2>1, Facts, Remembers
    <3>2. {t} \subseteq 1..MaxTrades /\ seen' = [seen EXCEPT ![views[s].id] = @ \cup {t}]
      BY <1>2, <1>4, <2>1
    <3>3. seen' \in [Signals -> SUBSET (1..MaxTrades)]
      BY <1>1, <3>1, <3>2, SeenGrows
    <3>4. PathFrom(views'[s].status, ActsOnTrade(s, t))
      BY <1>6, TradeActs DEF ActsOnTrade
    <3>5. Known(s)' /\ ~OnAgenda(s)' /\ t \in 1..Len(tape'[s])
      BY <1>2, <1>3, <1>5, <1>6, <2>1 DEF OnAgenda, Known
    <3>6. job' = WorkJob("live", s, NoAnchor, {}, t, ActsOnTrade(s, t))
      BY <1>2, <2>1
    <3> DEFINE acts == ActsOnTrade(s, t)
    <3> HIDE DEF acts
    <3>7. /\ JobFits' /\ job'.phase # "boot"
          /\ job' \in {IdleJob, BootJob} \cup FetchJobs \cup WorkJobs
      <4>1. job' = WorkJob("live", s, NoAnchor, {}, t, acts) /\ PathFrom(views'[s].status, acts)
        BY <3>4, <3>6 DEF acts
      <4>2. QED BY <1>3, <1>4, <3>5, <4>1, WorkFits, SMTT(20)
    <3>8. QED BY <3>3, <3>7
  <2>2. CASE ~(Known(s) /\ pending[s] = NoAnchor)
    <3>1. job' = IdleJob /\ seen' = seen
      BY <1>2, <2>2
    <3>2. QED BY <1>1, <3>1, IdleFits DEF WorkTyped
  <2>3. QED BY <2>1, <2>2
<1>8. /\ pending' \in [Symbols -> 0..MaxTime \cup {NoAnchor}] /\ pending'[s] <= clock
      /\ streamReady' \subseteq Symbols /\ pending'[s] = pending[s]
  BY <1>1, <1>3, <1>6 DEF WorkTyped, ViewFits
<1>9. QED BY <1>3, <1>5, <1>6, <1>7, <1>8, MemoryStep

LEMMA FinishFits ==
  ASSUME ServiceInvariant, FinishLive \/ FinishBatch
  PROVE  MemoryHolds'
<1> DEFINE s == job.sym
           t == job.at
<1>1. WorkTyped /\ \A x \in Symbols : ViewFits(x)
  BY MemoryIsSound DEF MemoryHolds
<1>2. s \in Symbols /\ Known(s) /\ t \in 1..Len(tape[s])
  BY FinishChecks
<1>3. /\ job' = IdleJob
      /\ Checkpoint(s, t) \/ UNCHANGED <<storeVars, views>>
      /\ UNCHANGED <<pending, streamReady, streamVars, agenda, seen>>
      /\ UnchangedByService
  BY DEF FinishLive, FinishBatch
<1> HIDE DEF s, t
<1>4. t \in 0..MaxTrades /\ t \in Int
  BY <1>2, Facts, ClockTyped, Constants DEF TapeFits
<1>5. /\ checkpoint \in [Signals -> 0..MaxTrades] /\ views[s].id \in Signals
      /\ \A i \in Signals : checkpoint[i] \in Int
  BY <1>2, Facts, RowsTyped, Remembers, Constants
<1>6. /\ UNCHANGED <<status, currentStop, link, agenda, clock, crashes>>
      /\ pending' = pending /\ streamReady' = streamReady /\ seen' = seen
  BY <1>3 DEF Checkpoint, Store!CheckpointTrade, storeVars, streamVars, UnchangedByService,
              worldVars
<1>7. /\ \A i \in Signals : checkpoint'[i] \in Int /\ checkpoint[i] <= checkpoint'[i]
      /\ \/ UNCHANGED views
         \/ /\ views' = [views EXCEPT ![s].last = t]
            /\ t <= checkpoint'[views[s].id]
  <2>1. CASE Checkpoint(s, t)
    <3>1. /\ views' = [views EXCEPT ![s].last = t]
          /\ checkpoint' = IF t <= checkpoint[views[s].id] THEN checkpoint
                           ELSE [checkpoint EXCEPT ![views[s].id] = t]
      BY <2>1 DEF Checkpoint, Store!CheckpointTrade
    <3>2. CASE t <= checkpoint[views[s].id]
      BY <1>5, <3>1, <3>2
    <3>3. CASE ~(t <= checkpoint[views[s].id])
      <4>1. \A i \in Signals :
              checkpoint'[i] = IF i = views[s].id THEN t ELSE checkpoint[i]
        BY <1>5, <3>1, <3>3
      <4>2. \A i \in Signals : checkpoint'[i] \in Int /\ checkpoint[i] <= checkpoint'[i]
        BY <1>4, <1>5, <3>3, <4>1
      <4>3. t <= checkpoint'[views[s].id]
        BY <1>4, <1>5, <4>1
      <4>4. QED BY <3>1, <4>2, <4>3
    <3>4. QED BY <3>2, <3>3
  <2>2. CASE UNCHANGED <<storeVars, views>>
    BY <1>5, <2>2 DEF storeVars
  <2>3. QED BY <1>3, <2>1, <2>2
<1>8. /\ pending' \in [Symbols -> 0..MaxTime \cup {NoAnchor}] /\ pending'[s] <= clock
      /\ streamReady' \subseteq Symbols /\ seen' \in [Signals -> SUBSET (1..MaxTrades)]
  BY <1>1, <1>2, <1>6 DEF WorkTyped, ViewFits
<1>9. QED BY <1>2, <1>3, <1>4, <1>6, <1>7, <1>8, MemoryStep, IdleFits

(* The job whose trades, minutes or actions are worked on.                 *)
LEMMA AtWork ==
  ASSUME ServiceInvariant, job.phase \in {"live", "batch", "candles"}
  PROVE  /\ job \in WorkJobs /\ job.sym \in Symbols /\ Known(job.sym) /\ ~OnAgenda(job.sym)
         /\ job.anchor \in Nat \cup {NoAnchor} /\ job.todo \subseteq Nat /\ job.at \in Nat
         /\ job.next \in {1, 2, 3} /\ ActsAhead(views[job.sym].status)
         /\ views[job.sym].id \in Signals /\ SymbolOf[views[job.sym].id] = job.sym
         /\ pending[job.sym] <= clock
<1>1. job \in WorkJobs
  BY Facts, BusyTyped
<1>2. /\ job.sym \in Symbols /\ job.anchor \in Nat \cup {NoAnchor} /\ job.todo \subseteq Nat
      /\ job.at \in Nat /\ job.next \in {1, 2, 3}
  BY <1>1 DEF WorkJobs
<1>3. Known(job.sym) /\ ~OnAgenda(job.sym) /\ ActsAhead(views[job.sym].status)
  BY Facts DEF JobFits, Busy
<1>4. views[job.sym].id \in Signals /\ SymbolOf[views[job.sym].id] = job.sym
      /\ pending[job.sym] <= clock
  BY <1>2, <1>3, Facts, Remembers DEF MemoryFits
<1>5. QED BY <1>1, <1>2, <1>3, <1>4

(* The next trade or minute of a replay. *)
LEMMA NextOfReplay ==
  ASSUME ServiceInvariant, ReplayTrade \/ ReplayCandle
  PROVE  LET t == Least(job.todo)
         IN /\ t \in job.todo /\ t \in Nat /\ (\A u \in job.todo \ {t} : t < u)
            /\ job.phase = "batch" => t \in 1..Len(tape[job.sym])
                                      /\ job.todo \subseteq 1..Len(tape[job.sym])
            /\ job.phase = "candles" => job.todo \subseteq 0..(MinuteOf(clock) - 1)
<1> DEFINE t == Least(job.todo)
<1>1. job.phase \in {"batch", "candles"} /\ job.todo # {}
  BY DEF ReplayTrade, ReplayCandle, JobDone
<1>2. job.todo \subseteq Nat
  BY <1>1, AtWork
<1>3. t \in job.todo /\ \A u \in job.todo : t <= u
  BY <1>1, <1>2, LeastIsIn
<1> HIDE DEF t
<1>4. \A u \in job.todo \ {t} : t < u
  BY <1>2, <1>3
<1>5. /\ job.phase = "batch" => job.todo \subseteq 1..Len(tape[job.sym])
      /\ job.phase = "candles" => job.todo \subseteq 0..(MinuteOf(clock) - 1)
  BY Facts DEF JobFits
<1>6. QED BY <1>2, <1>3, <1>4, <1>5 DEF t

LEMMA ReplayFits ==
  ASSUME ServiceInvariant, ReplayTrade \/ ReplayCandle
  PROVE  MemoryHolds'
<1>0. PICK s \in Symbols : s = job.sym
  BY AtWork DEF ReplayTrade, ReplayCandle, JobDone
<1> DEFINE t == Least(job.todo)
           v == views[s]
<1>1. WorkTyped /\ AgendaHolds /\ \A x \in Symbols : ViewFits(x)
  BY MemoryIsSound DEF MemoryHolds
<1>2. \E acts :
        /\ PathFrom(v.status, acts)
        /\ job' = WorkJob(job.phase, s, job.anchor, job.todo \ {t}, t, acts)
  <2>1. CASE ReplayTrade
    <3>1. /\ job' = WorkJob("batch", s, job.anchor, job.todo \ {t}, t, ActsOnTrade(s, t))
          /\ job.phase = "batch"
      BY <1>0, <2>1 DEF ReplayTrade, JobDone
    <3>2. PathFrom(v.status, ActsOnTrade(s, t))
      BY TradeActs DEF ActsOnTrade
    <3>3. QED BY <3>1, <3>2
  <2>2. CASE ReplayCandle
    <3> DEFINE acts == EvaluateClosedCandle(Plan[v.id], Expires(v.id), v.status, v.stop,
                                            Candle(s, t))
    <3>1. /\ job' = WorkJob("candles", s, job.anchor, job.todo \ {t}, t, acts)
          /\ job.phase = "candles"
      BY <1>0, <2>2 DEF ReplayCandle, JobDone
    <3>2. PathFrom(v.status, acts)
      BY CandleActs
    <3> HIDE DEF acts
    <3>3. QED BY <3>1, <3>2
  <2>3. QED BY <2>1, <2>2
<1>3. PICK acts : /\ PathFrom(v.status, acts)
                  /\ job' = WorkJob(job.phase, s, job.anchor, job.todo \ {t}, t, acts)
  BY <1>2
<1>4. /\ job.phase \in {"batch", "candles"}
      /\ UNCHANGED <<storeVars, worldVars, streamVars, memoryVars, agenda>>
  BY DEF ReplayTrade, ReplayCandle, JobDone, UnchangedByService
<1>5. /\ s \in Symbols /\ Known(s) /\ ~OnAgenda(s) /\ v.id \in Signals
      /\ job.anchor \in Nat \cup {NoAnchor} /\ job.todo \subseteq Nat /\ pending[s] <= clock
  BY <1>0, <1>4, AtWork
<1>6. /\ t \in Nat /\ (\A u \in job.todo \ {t} : t < u) /\ t \in job.todo
      /\ job.phase = "batch" => t \in 1..Len(tape[s]) /\ job.todo \subseteq 1..Len(tape[s])
      /\ job.phase = "candles" => job.todo \subseteq 0..(MinuteOf(clock) - 1)
  BY <1>0, NextOfReplay
<1>7. /\ UNCHANGED <<status, currentStop, clock, crashes, tape>>
      /\ \A i \in Signals : checkpoint'[i] \in Int /\ checkpoint[i] <= checkpoint'[i]
  BY <1>4, Calm
<1>8. UNCHANGED <<link, views, pending, streamReady, agenda>>
  BY <1>4 DEF streamVars, memoryVars
<1>9. seen' \in [Signals -> SUBSET (1..MaxTrades)]
  <2>1. Len(tape[s]) \in 1..MaxTrades
    BY <1>5, Facts DEF TapeFits
  <2>2. CASE ReplayTrade
    <3>1. t \in 1..Len(tape[s]) /\ seen' = [seen EXCEPT ![v.id] = @ \cup {t}]
      BY <1>0, <1>6, <2>2 DEF ReplayTrade, JobDone
    <3> HIDE DEF t
    <3>2. {t} \subseteq 1..MaxTrades
      BY <2>1, <3>1, Constants
    <3>3. QED BY <1>1, <1>5, <3>1, <3>2, SeenGrows
  <2>3. CASE ReplayCandle
    <3> DEFINE T == TradesIn(s, t)
    <3>1. seen' = [seen EXCEPT ![v.id] = @ \cup T]
      BY <1>0, <2>3 DEF ReplayCandle
    <3>2. T \subseteq 1..Len(tape[s])
      BY DEF TradesIn
    <3> HIDE DEF T
    <3>3. T \subseteq 1..MaxTrades
      BY <2>1, <3>2, Constants
    <3>4. QED BY <1>1, <1>5, <3>1, <3>3, SeenGrows
  <2>4. QED BY <2>2, <2>3
<1> HIDE DEF t
<1>10. /\ JobFits' /\ job'.phase # "boot"
       /\ job' \in {IdleJob, BootJob} \cup FetchJobs \cup WorkJobs
  <2>0. PICK left, at, anchor : left = job.todo \ {t} /\ at = t /\ anchor = job.anchor
    OBVIOUS
  <2>1. /\ Known(s)' /\ ~OnAgenda(s)' /\ PathFrom(views'[s].status, acts)
        /\ left \subseteq Nat /\ at \in Nat /\ anchor \in Nat \cup {NoAnchor}
    BY <1>3, <1>5, <1>6, <1>8, <2>0 DEF Known, OnAgenda
  <2>2. job.phase = "candles" => anchor = pending'[s] /\ anchor \in Nat
    BY <1>0, <1>5, <1>8, <2>0, Facts DEF JobFits, NoAnchor
  <2>3. ASSUME job.phase = "batch"
        PROVE  /\ left \subseteq 1..Len(tape'[s]) /\ at \in 0..Len(tape'[s])
               /\ \A u \in left : at < u
               /\ at # 0
    <3>1. /\ tape'[s] = tape[s] /\ at \in 1..Len(tape[s]) /\ job.todo \subseteq 1..Len(tape[s])
          /\ \A u \in left : at < u
      BY <1>6, <1>7, <2>0, <2>3
    <3>2. left \subseteq 1..Len(tape[s])
      BY <2>0, <3>1
    <3>3. at \in 0..Len(tape[s]) /\ at # 0
      BY <3>1
    <3>4. QED BY <3>1, <3>2, <3>3
  <2>4. ASSUME job.phase = "candles"
        PROVE  /\ left \subseteq 0..(MinuteOf(clock') - 1)
               /\ at \in 0..(MinuteOf(clock') - 1)
    BY <1>6, <1>7, <2>0, <2>4
  <2>5. CASE job.phase = "batch"
    <3>1. job' = WorkJob("batch", s, anchor, left, at, acts)
      BY <1>3, <2>0, <2>5
    <3>2. QED BY <2>1, <2>3, <2>5, <3>1, WorkFits
  <2>6. CASE job.phase = "candles"
    <3>1. job' = WorkJob("candles", s, anchor, left, at, acts)
      BY <1>3, <2>0, <2>6
    <3>2. QED BY <2>1, <2>2, <2>4, <2>6, <3>1, WorkFits
  <2>7. QED BY <1>4, <2>5, <2>6
<1>11. /\ pending' \in [Symbols -> 0..MaxTime \cup {NoAnchor}] /\ pending'[s] <= clock
       /\ streamReady' \subseteq Symbols
  BY <1>1, <1>5, <1>8 DEF WorkTyped
<1>12. QED BY <1>5, <1>7, <1>8, <1>9, <1>10, <1>11, MemoryStep

LEMMA FinishCandlesFits ==
  ASSUME ServiceInvariant, FinishCandles
  PROVE  MemoryHolds'
<1>0. PICK s \in Symbols : s = job.sym
  BY AtWork DEF FinishCandles, JobDone
<1> DEFINE rest == Buffered(s, (job.at + 1) * MinuteTicks)
<1>1. WorkTyped /\ AgendaHolds /\ \A x \in Symbols : ViewFits(x)
  BY MemoryIsSound DEF MemoryHolds
<1>2. /\ job.phase = "candles"
      /\ pending' = [pending EXCEPT ![s] = NoAnchor]
      /\ job' = IF rest = {} THEN IdleJob
                ELSE WorkJob("batch", s, job.anchor, rest, 0, <<>>)
      /\ UNCHANGED <<views, streamReady, streamVars, agenda, seen>>
      /\ UNCHANGED <<worldVars, queue>>
      /\ UNCHANGED <<status, currentStop, checkpoint>>
  BY <1>0 DEF FinishCandles, JobDone, UnchangedByService, Store!RecordTrackingEvent
<1>3. /\ s \in Symbols /\ Known(s) /\ ~OnAgenda(s) /\ job.anchor \in Nat \cup {NoAnchor}
  BY <1>0, <1>2, AtWork
<1>4. rest \subseteq 1..Len(tape[s])
  <2>1. buffer[s] \subseteq 1..Len(tape[s])
    BY <1>3, Facts DEF TypeOK
  <2>2. QED BY <2>1 DEF Buffered
<1>5. UNCHANGED <<link, views, agenda, streamReady, clock, crashes, tape>>
  BY <1>2 DEF streamVars, worldVars
<1>6. \A i \in Signals : checkpoint'[i] \in Int /\ checkpoint[i] <= checkpoint'[i]
  BY <1>2, Facts, RowsTyped, Constants
<1> HIDE DEF rest
<1>7. /\ JobFits' /\ job'.phase # "boot"
      /\ job' \in {IdleJob, BootJob} \cup FetchJobs \cup WorkJobs
  <2>1. CASE rest = {}
    BY <1>2, <2>1, IdleFits
  <2>2. CASE rest # {}
    <3>1. job' = WorkJob("batch", s, job.anchor, rest, 0, <<>>)
      BY <1>2, <2>2
    <3>2. Known(s)' /\ ~OnAgenda(s)' /\ PathFrom(views'[s].status, <<>>)
      BY <1>3, <1>5 DEF Known, OnAgenda, PathFrom
    <3>3. /\ rest \subseteq Nat /\ rest \subseteq 1..Len(tape'[s]) /\ 0 \in 0..Len(tape'[s])
          /\ \A t \in rest : 0 < t
      <4>1. Len(tape[s]) \in Nat
        BY <1>3, Facts, ClockTyped
      <4>2. Len(tape'[s]) = Len(tape[s])
        BY <1>5
      <4>3. QED BY <1>4, <4>1, <4>2
    <3>4. QED BY <1>3, <2>2, <3>1, <3>2, <3>3, WorkFits
  <2>3. QED BY <2>1, <2>2
<1>8. /\ pending' \in [Symbols -> 0..MaxTime \cup {NoAnchor}]
      /\ \A x \in Symbols : x # s => pending'[x] = pending[x]
      /\ pending'[s] <= clock /\ seen' \in [Signals -> SUBSET (1..MaxTrades)]
      /\ streamReady' \subseteq Symbols
  <2> DEFINE P == 0..MaxTime \cup {NoAnchor}
  <2>1. pending \in [Symbols -> P] /\ NoAnchor \in P
    BY <1>1 DEF WorkTyped
  <2> HIDE DEF P
  <2>2. /\ pending' \in [Symbols -> P] /\ pending'[s] = NoAnchor
        /\ \A x \in Symbols : x # s => pending'[x] = pending[x]
    BY <1>2, <1>3, <2>1
  <2>3. NoAnchor <= clock
    BY Facts, ClockTyped DEF NoAnchor
  <2>4. QED BY <1>1, <1>2, <2>2, <2>3 DEF WorkTyped, P
<1>9. QED BY <1>2, <1>3, <1>5, <1>6, <1>7, <1>8, MemoryStep

LEMMA ActFits ==
  ASSUME ServiceInvariant, Act
  PROVE  MemoryHolds'
<1>0. PICK s \in Symbols : s = job.sym
  BY ActApplies
<1> DEFINE target == job.acts[job.next]
           then == [job EXCEPT !.next = @ + 1]
<1>1. WorkTyped /\ AgendaHolds /\ JobFits
  BY MemoryIsSound DEF MemoryHolds
<1>2. /\ s \in Symbols /\ job \in WorkJobs
      /\ TransitionStep(s, target, ActKey(views[s].id), ActTime, pending[s], then)
  BY <1>0, ActApplies
<1>3. /\ job.phase \in {"live", "batch", "candles"} /\ job.next <= Len(job.acts)
      /\ UNCHANGED <<agenda, seen, clock, crashes, tape>>
  BY DEF Act, UnchangedByService, worldVars
<1>4. ~OnAgenda(s) /\ ActsAhead(views[s].status) /\ job.next \in {1, 2, 3}
  BY <1>0, <1>3, AtWork
<1>5. /\ job.next \in {1, 2}
      /\ target \notin TerminalStatuses =>
           \/ job.next + 1 = 2 /\ job.acts = <<"tp1_reached", "tp2_completed">>
                /\ target = "tp1_reached"
           \/ job.next + 1 = Len(job.acts) + 1 /\ Len(job.acts) \in 0..2
  BY <1>3, <1>4, NextAct
<1>6. ~OnAgenda(s)' /\ agenda' \subseteq agenda
  BY <1>3, <1>4 DEF OnAgenda
<1>7. /\ \A x \in Symbols : ViewFits(x)'
      /\ \A e \in agenda' : Known(e[1])'
      /\ views' \in [Symbols -> ViewRecords \cup {NoView}]
      /\ pending' \in [Symbols -> 0..MaxTime \cup {NoAnchor}]
      /\ streamReady' \subseteq Symbols
      /\ Closes(target) => job' = IdleJob
      /\ ~Closes(target) =>
           Known(s)' /\ views'[s].status = target /\ pending'[s] = pending[s] /\ job' = then
  BY <1>2, <1>3, <1>6, TransitionFits
<1>8. /\ JobFits' /\ job'.phase # "boot"
      /\ job' \in {IdleJob, BootJob} \cup FetchJobs \cup WorkJobs
  <2>1. CASE Closes(target)
    BY <1>7, <2>1, IdleFits
  <2>2. CASE ~Closes(target)
    <3>1. /\ then \in WorkJobs /\ then.phase = job.phase /\ then.sym = s
          /\ then.anchor = job.anchor /\ then.todo = job.todo /\ then.at = job.at
          /\ then.acts = job.acts /\ then.next = job.next + 1
      <4>1. job.next + 1 \in {1, 2, 3}
        BY <1>5
      <4>2. QED BY <1>0, <1>2, <4>1 DEF WorkJobs
    <3>2. job' = then /\ Known(s)' /\ views'[s].status = target /\ pending'[s] = pending[s]
      BY <1>7, <2>2
    <3> HIDE DEF then
    <3>3. ActsAhead(views[s].status)'
      BY <1>5, <2>2, <3>1, <3>2 DEF ActsAhead, Closes
    <3>4. Known(job.sym)' /\ ~OnAgenda(job.sym)'
      <4>1. job'.sym = s
        BY <3>1, <3>2
      <4>2. QED BY <1>6, <3>2, <4>1 DEF Known, OnAgenda
    <3>5. /\ job'.phase = job.phase /\ job'.sym = job.sym /\ job'.anchor = job.anchor
          /\ job'.todo = job.todo /\ job'.at = job.at /\ job'.acts = job.acts
          /\ tape' = tape /\ clock' = clock /\ pending'[job.sym] = pending[job.sym]
      BY <1>0, <1>3, <3>1, <3>2
    <3>6. ActsAhead(views[job.sym].status)'
      BY <1>0, <3>1, <3>2, <3>3
    <3>7. /\ job'.phase \in {"fetch", "candles"}
               => job'.anchor = pending'[job'.sym] /\ job'.anchor >= 0
          /\ job'.phase = "live" => job'.at \in 1..Len(tape'[job'.sym]) /\ job'.todo = {}
          /\ job'.phase = "batch" =>
               /\ job'.todo \subseteq 1..Len(tape'[job'.sym])
               /\ job'.at \in 0..Len(tape'[job'.sym])
               /\ \A t \in job'.todo : job'.at < t
               /\ job'.at = 0 => job'.todo # {} /\ job'.acts = <<>>
          /\ job'.phase = "candles" =>
               /\ job'.todo \subseteq 0..(MinuteOf(clock') - 1)
               /\ job'.at \in 0..(MinuteOf(clock') - 1)
      BY <1>1, <3>5 DEF JobFits
    <3>8. JobFits'
      BY <3>4, <3>6, <3>7 DEF JobFits, MinuteOf
    <3>9. QED BY <1>3, <3>1, <3>2, <3>8
  <2>3. QED BY <2>1, <2>2
<1>9. WorkTyped'
  BY <1>1, <1>3, <1>7, <1>8 DEF WorkTyped
<1>10. AgendaHolds'
  BY <1>1, <1>3, <1>7, <1>8 DEF AgendaHolds
<1>11. QED BY <1>7, <1>8, <1>9, <1>10 DEF MemoryHolds

(* What is merged of a REST answer that proves coverage.                   *)
LEMMA MergedFits ==
  ASSUME ServiceInvariant, job.sym \in Symbols, NEW rest \in RestHistory(job.sym)
  PROVE  LET merged == Merged(job.sym, rest, Buffered(job.sym, job.anchor), job.anchor)
         IN /\ rest \subseteq 1..Len(tape[job.sym]) /\ merged \subseteq 1..Len(tape[job.sym])
            /\ Proven(rest) => merged # {}
<1>1. rest \subseteq 1..Len(tape[job.sym])
  BY DEF RestHistory
<1>2. buffer[job.sym] \subseteq 1..Len(tape[job.sym])
  BY Facts DEF TypeOK
<1>3. Merged(job.sym, rest, Buffered(job.sym, job.anchor), job.anchor)
        \subseteq 1..Len(tape[job.sym])
  BY <1>1, <1>2 DEF Merged, Buffered
<1>4. Proven(rest) => Merged(job.sym, rest, Buffered(job.sym, job.anchor), job.anchor) # {}
  BY DEF Proven, CoverageProven, Merged, Buffered
<1>5. QED BY <1>1, <1>3, <1>4

LEMMA EstablishFits ==
  ASSUME ServiceInvariant, Establish
  PROVE  MemoryHolds'
<1>0. PICK s \in Symbols : s = job.sym
  BY EstablishApplies
<1> DEFINE key == <<"coverage", views[s].id, job.anchor>>
<1>1. WorkTyped /\ AgendaHolds /\ JobFits /\ \A x \in Symbols : ViewFits(x)
  BY MemoryIsSound DEF MemoryHolds
<1>2. /\ s \in Symbols /\ job.phase = "fetch" /\ Known(s)
      /\ job.anchor = pending[s] /\ job.anchor \in 0..clock
      /\ UNCHANGED <<agenda, seen, clock, crashes, tape>>
  BY <1>0, EstablishApplies DEF worldVars
<1>3. PICK rest \in RestHistory(s) : EstablishedBy(rest)
  BY <1>0, EstablishApplies
<1>4. ~OnAgenda(s)' /\ agenda' \subseteq agenda /\ ~OnAgenda(s)
  BY <1>0, <1>1, <1>2 DEF OnAgenda, JobFits, Busy
<1>5. clock \in Nat /\ Len(tape[s]) \in Nat /\ job.anchor \in Nat
  BY <1>2, Facts, ClockTyped
<1> DEFINE merged == Merged(s, rest, Buffered(s, job.anchor), job.anchor)
<1>6. merged \subseteq 1..Len(tape[s]) /\ (Proven(rest) => merged # {})
  BY <1>0, <1>2, MergedFits
<1>7. ReplayJob(rest) = WorkJob("batch", s, job.anchor, merged, 0, <<>>)
  BY <1>0 DEF ReplayJob
<1> HIDE DEF merged
<1>8. ASSUME job' = ReplayJob(rest), Proven(rest), Known(s)'
      PROVE  /\ JobFits' /\ job'.phase # "boot"
             /\ job' \in {IdleJob, BootJob} \cup FetchJobs \cup WorkJobs
  <2>1. job' = WorkJob("batch", s, job.anchor, merged, 0, <<>>)
    BY <1>7, <1>8
  <2>2. PathFrom(views'[s].status, <<>>)
    BY DEF PathFrom
  <2>3. /\ merged \subseteq Nat /\ merged \subseteq 1..Len(tape'[s]) /\ 0 \in 0..Len(tape'[s])
        /\ (\A t \in merged : 0 < t) /\ merged # {} /\ job.anchor \in Nat \cup {NoAnchor}
    BY <1>2, <1>5, <1>6, <1>8, SMTT(30)
  <2>4. QED BY <1>2, <1>4, <1>8, <2>1, <2>2, <2>3, WorkFits
<1>9. crashes' \in 0..MaxCrashes /\ seen' \in [Signals -> SUBSET (1..MaxTrades)]
      /\ agenda' \subseteq Symbols \X (0..MaxTime)
  BY <1>1, <1>2 DEF WorkTyped
<1>10. ASSUME NEW target, NEW time, NEW then,
              TransitionStep(s, target, key, time, NoAnchor, then),
              \/ Closes(target)
              \/ then = ReplayJob(rest) /\ Proven(rest)
       PROVE  MemoryHolds'
  <2>1. /\ \A x \in Symbols : ViewFits(x)'
        /\ \A e \in agenda' : Known(e[1])'
        /\ views' \in [Symbols -> ViewRecords \cup {NoView}]
        /\ pending' \in [Symbols -> 0..MaxTime \cup {NoAnchor}]
        /\ streamReady' \subseteq Symbols
        /\ Closes(target) => job' = IdleJob
        /\ ~Closes(target) => Known(s)' /\ job' = then
    BY <1>2, <1>4, <1>10, TransitionFits
  <2>2. /\ JobFits' /\ job'.phase # "boot"
        /\ job' \in {IdleJob, BootJob} \cup FetchJobs \cup WorkJobs
    BY <1>8, <1>10, <2>1, IdleFits
  <2>3. WorkTyped' /\ AgendaHolds'
    BY <1>1, <1>2, <1>9, <2>1, <2>2 DEF WorkTyped, AgendaHolds
  <2>4. QED BY <2>1, <2>2, <2>3 DEF MemoryHolds
<1>11. ASSUME UNCHANGED <<storeVars, views, streamReady, streamVars>>,
              pending' = pending \/ pending' = [pending EXCEPT ![s] = NoAnchor],
              JobFits', job'.phase # "boot",
              job' \in {IdleJob, BootJob} \cup FetchJobs \cup WorkJobs
       PROVE  MemoryHolds'
  <2>1. /\ UNCHANGED <<status, currentStop, link, views, checkpoint>>
        /\ streamReady' \subseteq Symbols
    BY <1>1, <1>11 DEF storeVars, streamVars, WorkTyped
  <2>2. \A i \in Signals : checkpoint'[i] \in Int /\ checkpoint[i] <= checkpoint'[i]
    BY <2>1, Facts, RowsTyped, Constants
  <2> DEFINE P == 0..MaxTime \cup {NoAnchor}
  <2>3. pending \in [Symbols -> P] /\ NoAnchor \in P /\ pending[s] <= clock
    BY <1>1, <1>2 DEF WorkTyped, ViewFits
  <2> HIDE DEF P
  <2>4. NoAnchor <= clock
    BY <1>5 DEF NoAnchor
  <2>5. /\ pending' \in [Symbols -> P] /\ pending'[s] <= clock
        /\ \A x \in Symbols : x # s => pending'[x] = pending[x]
    BY <1>2, <1>11, <2>3, <2>4
  <2>6. QED BY <1>2, <1>9, <1>11, <2>1, <2>2, <2>5, MemoryStep DEF P
<1>12. CASE TransitionStep(s, "active", key, job.anchor, NoAnchor, ReplayJob(rest))
            /\ Proven(rest)
  BY <1>10, <1>12
<1>13. CASE TransitionStep(s, "coverage_failed", key, clock, NoAnchor, IdleJob)
  BY <1>10, <1>13 DEF Closes, TerminalStatuses
<1>14. CASE /\ Proven(rest) /\ views[s].status # "preparing"
            /\ pending' = [pending EXCEPT ![s] = NoAnchor]
            /\ job' = ReplayJob(rest)
            /\ UNCHANGED <<storeVars, views, streamReady, streamVars>>
  <2>1. Known(s)'
    BY <1>2, <1>14 DEF Known
  <2>2. QED BY <1>8, <1>11, <1>14, <2>1
<1>15. CASE /\ \/ job' = IdleJob
               \/ MinuteOf(job.anchor)..(MinuteOf(clock) - 1) # {} /\ job' = CandleJob
            /\ UNCHANGED <<storeVars, memoryVars, streamVars>>
  <2>1. UNCHANGED <<views, pending, streamReady>>
    BY <1>15 DEF memoryVars
  <2>2. CASE job' = IdleJob
    BY <1>11, <1>15, <2>1, <2>2, IdleFits
  <2>3. CASE MinuteOf(job.anchor)..(MinuteOf(clock) - 1) # {} /\ job' = CandleJob
    <3> DEFINE minutes == MinuteOf(job.anchor)..(MinuteOf(clock) - 1)
    <3>1. job' = WorkJob("candles", s, job.anchor, minutes, 0, <<>>)
      BY <1>0, <2>3 DEF CandleJob
    <3>2. /\ minutes \subseteq 0..(MinuteOf(clock') - 1) /\ minutes \subseteq Nat
          /\ 0 \in 0..(MinuteOf(clock') - 1)
      <4>1. MinuteOf(job.anchor) \in Nat /\ MinuteOf(clock) \in Nat
        <5>1. job.anchor \in Nat /\ clock \in Nat /\ job.anchor <= clock
          BY <1>2, <1>5
        <5>2. QED BY <5>1, MinutesGrow
      <4>2. QED BY <1>2, <2>3, <4>1
    <3> HIDE DEF minutes
    <3>3. Known(s)' /\ PathFrom(views'[s].status, <<>>)
      BY <1>2, <2>1 DEF Known, PathFrom
    <3>4. job.anchor = pending'[s] /\ job.anchor \in Nat \cup {NoAnchor}
      BY <1>2, <1>5, <2>1
    <3>5. /\ JobFits' /\ job'.phase # "boot"
          /\ job' \in {IdleJob, BootJob} \cup FetchJobs \cup WorkJobs
      <4>1. QED BY <1>2, <1>4, <1>5, <3>1, <3>2, <3>3, <3>4, WorkFits
    <3>6. QED BY <1>11, <1>15, <2>1, <3>5
  <2>4. QED BY <1>15, <2>2, <2>3
<1>16. QED BY <1>3, <1>12, <1>13, <1>14, <1>15, <1>0 DEF EstablishedBy

LEMMA ServiceStep == ServiceInvariant /\ [Next]_vars => ServiceInvariant'
<1> SUFFICES ASSUME ServiceInvariant, [Next]_vars PROVE MemoryHolds'
  BY Assembled
<1>1. CASE World \/ Stream \/ UNCHANGED vars
  BY <1>1, OutsideFits
<1>2. CASE Service
  BY <1>2, BeginReconcileFits, ReconcileSymbolFits, HandleDisconnectedFits, HandleReadyFits,
     HandleTradeFits, ActFits, FinishFits, EstablishFits, ReplayFits, FinishCandlesFits
     DEF Service
<1>3. CASE Restart
  BY <1>3, RestartFits
<1>4. QED BY <1>1, <1>2, <1>3 DEF Next

LEMMA ServiceStart == Init => ServiceInvariant
<1> SUFFICES ASSUME Init PROVE ServiceInvariant
  OBVIOUS
<1> USE Constants
<1>1. /\ status = [i \in Signals |-> "absent"] /\ tradeStatus = [i \in Signals |-> "absent"]
      /\ currentStop = [i \in Signals |-> "initial"] /\ remaining = [i \in Signals |-> "full"]
      /\ checkpoint = [i \in Signals |-> 0] /\ createdAt = [i \in Signals |-> 0]
      /\ events = [i \in Signals |-> <<>>] /\ outbox = {}
  BY DEF Init, Store!StoreInit
<1>2. /\ clock = 0 /\ disconnects = 0 /\ crashes = 0
      /\ tape = [s \in Symbols |-> <<[price |-> FirstPrice, time |-> 0]>>]
      /\ link = [s \in Symbols |-> "off"] /\ received = [s \in Symbols |-> 0]
      /\ buffer = [s \in Symbols |-> {}] /\ outgoing = [s \in Symbols |-> <<>>]
      /\ queue = <<>> /\ views = [s \in Symbols |-> NoView]
      /\ pending = [s \in Symbols |-> NoAnchor] /\ streamReady = {} /\ agenda = {}
      /\ job = BootJob /\ seen = [i \in Signals |-> {}]
      /\ opened = [s \in Symbols |-> 0] /\ doubtful = {}
  BY DEF Init
<1>3. Store!StoreTypeOK
  BY <1>1 DEF Store!StoreTypeOK, Store!Stops, Store!Quantities
<1>4. RowsFit
  <2>1. Store!RowsAgree /\ Store!OneTrackedPerSymbol
    BY <1>1 DEF Store!RowsAgree, Store!TradeStatusOf, Store!OneTrackedPerSymbol,
                Store!TrackingStatuses
  <2>2. KeysTellTargets
    <3>1. \A i \in Signals : DOMAIN events[i] = {}
      BY <1>1
    <3>2. QED BY <3>1 DEF KeysTellTargets
  <2>3. PositionFollows
    BY <1>1 DEF PositionFollows
  <2>4. QED BY <2>1, <2>2, <2>3 DEF RowsFit
<1>5. ASSUME NEW s \in Symbols
      PROVE  /\ tape[s] \in Seq(Trades) /\ Len(tape[s]) = 1
             /\ \A t \in 1..Len(tape[s]) : TimeOf(s, t) = 0
  <2> DEFINE first == [price |-> FirstPrice, time |-> 0]
  <2>1. first \in Trades /\ first.time = 0
    BY DEF Trades
  <2>2. tape[s] = <<first>>
    BY <1>2
  <2> HIDE DEF first
  <2>3. <<first>> \in Seq(Trades) /\ Len(<<first>>) = 1 /\ <<first>>[1] = first
    BY <2>1
  <2>4. QED BY <2>1, <2>2, <2>3 DEF TimeOf
<1>6. tape \in [Symbols -> Seq(Trades)]
  BY <1>2, <1>5
<1>7. TapeFits
  <2>1. ASSUME NEW s \in Symbols PROVE Len(tape[s]) \in 1..MaxTrades
    <3>1. 1 \in 1..MaxTrades
      OBVIOUS
    <3>2. QED BY <1>5, <3>1
  <2>2. \A s \in Symbols : \A t \in 1..Len(tape[s]) : TimeOf(s, t) = 0
    BY <1>5
  <2>3. QED BY <1>2, <2>1, <2>2 DEF TapeFits
<1>8. RowsInTime
  <2>1. ASSUME NEW i \in Signals PROVE createdAt[i] <= clock /\ checkpoint[i] <= Len(tape[SymbolOf[i]])
    <3>1. Len(tape[SymbolOf[i]]) = 1
      BY <1>5
    <3>2. QED BY <1>1, <1>2, <3>1
  <2>2. QED BY <2>1 DEF RowsInTime
<1>9. EventsInOrder
  <2>1. \A s \in Symbols : received[s] <= Len(tape[s])
    <3>1. \A s \in Symbols : Len(tape[s]) = 1 /\ received[s] = 0
      BY <1>2, <1>5
    <3>2. QED BY <3>1
  <2>2. DOMAIN queue = {}
    BY <1>2
  <2>3. \A s \in Symbols : outgoing[s] = <<>> /\ Len(outgoing[s]) <= 1
    BY <1>2
  <2>4. QED BY <2>1, <2>2, <2>3 DEF EventsInOrder
<1>10. JobFits /\ AgendaFits /\ MemoryFits /\ MemoryMatchesRows /\ NothingLeftBehind
       /\ NoIllegalTransition
  BY <1>2 DEF JobFits, Busy, AgendaFits, MemoryFits, MemoryMatchesRows, NothingLeftBehind,
              NoIllegalTransition, Known, NoAnchor, BootJob, DeadJob
<1>11. TypeOK
  <2>1. \A s \in Symbols : buffer[s] \subseteq 1..Len(tape[s]) /\ Cardinality(buffer[s]) <= BufferSize
    BY <1>2, FS_EmptySet
  <2>2. /\ clock \in 0..MaxTime /\ disconnects \in 0..MaxDisconnects /\ crashes \in 0..MaxCrashes
        /\ link \in [Symbols -> {"off", "down", "open", "buffered", "ready"}]
        /\ received \in [Symbols -> 0..MaxTrades]
        /\ buffer \in [Symbols -> SUBSET (1..MaxTrades)]
    BY <1>2
  <2>3. /\ outgoing \in [Symbols -> Seq(StreamEvents)]
        /\ queue \in Seq(StreamEvents) /\ Len(queue) <= QueueSize
    <3>1. <<>> \in Seq(StreamEvents) /\ Len(<<>>) = 0
      OBVIOUS
    <3>2. QED BY <1>2, <3>1
  <2>4. /\ views \in [Symbols -> ViewRecords \cup {NoView}]
        /\ pending \in [Symbols -> 0..MaxTime \cup {NoAnchor}]
        /\ streamReady \subseteq Symbols /\ agenda \subseteq Symbols \X (0..MaxTime)
        /\ job \in {IdleJob, BootJob, DeadJob} \cup FetchJobs \cup WorkJobs
        /\ seen \in [Signals -> SUBSET (1..MaxTrades)]
    BY <1>2
  <2>5. opened \in [Symbols -> 0..MaxTrades] /\ doubtful \subseteq Signals
    <3>1. 0 \in 0..MaxTrades
      BY Constants
    <3>2. QED BY <1>2, <3>1
  <2>6. QED BY <1>3, <1>6, <2>1, <2>2, <2>3, <2>4, <2>5 DEF TypeOK, Trades
<1>12. QED BY <1>4, <1>7, <1>8, <1>9, <1>10, <1>11 DEF ServiceInvariant

-----------------------------------------------------------------------------
(* The invariant of the service, for every interleaving with the streams,  *)
(* the exchange, publication and restarts.                                 *)
THEOREM ServiceInvariantHolds == Spec => []ServiceInvariant
  BY ServiceStart, ServiceStep, PTL DEF Spec

(* Every variable of the composition keeps its type: no queue, buffer or   *)
(* blocked put beyond its bound, no view, anchor or job of another shape   *)
(* (SignalLifecycleService, PublicTradeStreamManager).                     *)
THEOREM TrackingTyped == Spec => []TypeOK
  BY ServiceInvariantHolds, PTL DEF ServiceInvariant

(* The service never asks for a transition that the state machines of the  *)
(* rows reject, so transition_signal never ends the worker.                *)
THEOREM TrackingNeverIllegal == Spec => []NoIllegalTransition
  BY ServiceInvariantHolds, PTL DEF ServiceInvariant

(* No decision is made on a stale status or stop: _transition and          *)
(* _reconcile keep the memory in step with the rows.                       *)
THEOREM TrackingMemoryMatches == Spec => []MemoryMatchesRows
  BY ServiceInvariantHolds, PTL DEF ServiceInvariant

(* A closed signal leaves no stream running and no coverage to establish,  *)
(* whichever path closed it (unsubscribe in _transition and _reconcile).   *)
THEOREM TrackingLeavesNothing == Spec => []NothingLeftBehind
  BY ServiceInvariantHolds, PTL DEF ServiceInvariant

-----------------------------------------------------------------------------
(* The composition implements the store: every step is a transaction of    *)
(* SignalRepository, or leaves the rows alone. What SignalStoreProofs      *)
(* proves of the rows therefore holds of the composition.                  *)
THEOREM TrackingImplementsStore == Spec => Rows!StoreSpec
<1>1. Init => Rows!StoreInit
  BY DEF Init, Store!StoreInit, Rows!StoreInit
<1>2. ServiceInvariant /\ [Next]_vars => [Rows!StoreNext]_(Rows!storeVars)
  BY StoreMoves, MovesAreTransactions
<1>3. QED BY <1>1, <1>2, ServiceInvariantHolds, PTL DEF Spec, Rows!StoreSpec

(* The history of every signal is a path, no key is used twice, every      *)
(* change of status is told exactly once and a closed signal stays closed, *)
(* whatever the service does (signal_events, notification_outbox).         *)
THEOREM TrackingKeepsHistory ==
  Spec => /\ [](Rows!HistoryIsPath /\ Rows!KeysUnique /\ Rows!NotificationsMatchHistory)
          /\ Rows!ClosedIsFinal
  BY TrackingImplementsStore, RowsAssumption, Rows!StoreHistoryIsPath, Rows!StoreKeysUnique,
     Rows!StoreNotifiesHistory, Rows!StoreClosedIsFinal, PTL

(* The position of a virtual trade as its status tells it.                 *)
Stage(st) ==
  CASE st \in {"absent", "suppressed"} -> "none"
    [] st \in {"preparing", "active"}  -> "waiting"
    [] st = "entered"                  -> "full"
    [] st = "tp1_reached"              -> "half"
    [] OTHER                           -> "closed"

LEMMA PositionIsStage ==
  ServiceInvariant => \A i \in Signals : Position(i) = Stage(status[i])
<1> SUFFICES ASSUME ServiceInvariant, NEW i \in Signals PROVE Position(i) = Stage(status[i])
  OBVIOUS
<1>1. tradeStatus[i] = Store!TradeStatusOf(status[i])
  BY Facts DEF RowsFit, Store!RowsAgree
<1>2. status[i] \in SignalStatuses \cup {"absent"}
  BY Facts, RowsTyped
<1>3. /\ status[i] = "entered" => remaining[i] = "full"
      /\ status[i] = "tp1_reached" => remaining[i] = "half"
  BY Facts DEF RowsFit, PositionFollows
<1>4. QED
  BY <1>1, <1>2, <1>3 DEF Position, Stage, Store!TradeStatusOf, SignalStatuses,
                          TrackingStatuses, TerminalStatuses

LEMMA PositionMoves ==
  ASSUME ServiceInvariant, ServiceInvariant', StoreMove
  PROVE  [Virtual!Next]_<<[i \in Signals |-> Position(i)], currentStop>>
<1> DEFINE pos == [i \in Signals |-> Position(i)]
           Goal == [Virtual!Next]_<<pos, currentStop>>
<1>1. \A i \in Signals : Position(i) = Stage(status[i])
  BY PositionIsStage
<1>2. \A i \in Signals : Position(i)' = Stage(status'[i])
  <2>1. (\A i \in Signals : Position(i) = Stage(status[i]))'
    BY PositionIsStage, PTL
  <2>2. QED BY <2>1 DEF Stage
<1>3. ASSUME UNCHANGED <<status, currentStop>> PROVE Goal
  <2>1. \A i \in Signals : Position(i)' = Position(i)
    BY <1>1, <1>2, <1>3
  <2>2. pos' = pos
    BY <2>1
  <2>3. QED BY <1>3, <2>2
<1>4. ASSUME NEW i \in Signals, NEW new, status' = [status EXCEPT ![i] = new]
      PROVE  pos' = [pos EXCEPT ![i] = Stage(new)] /\ pos[i] = Stage(status[i])
  <2>1. status \in [Signals -> SignalStatuses \cup {"absent"}]
    BY Facts, RowsTyped
  <2>2. \A j \in Signals : Position(j)' = IF j = i THEN Stage(new) ELSE Position(j)
    BY <1>1, <1>2, <1>4, <2>1
  <2>3. pos' = [j \in Signals |-> IF j = i THEN Stage(new) ELSE Position(j)]
    BY <2>2
  <2>4. QED BY <1>1, <2>3
<1>5. ASSUME NEW i \in Signals, Store!Publish(i, <<"candidate", i>>, TRUE, clock) PROVE Goal
  <2>1. /\ status[i] = "absent" /\ status' = [status EXCEPT ![i] = "preparing"]
        /\ UNCHANGED currentStop
    BY <1>5 DEF Store!Publish
  <2>2. pos' = [pos EXCEPT ![i] = "waiting"] /\ pos[i] = "none"
    BY <1>4, <2>1 DEF Stage
  <2> HIDE DEF pos
  <2>3. Virtual!Open(i)
    BY <2>1, <2>2 DEF Virtual!Open, Virtual!Move, pos
  <2>4. QED BY <2>3 DEF Virtual!Next
<1>6. ASSUME NEW s \in Symbols, NEW target \in SignalStatuses, NEW key \in EventKeys,
             NEW time \in RowTimes, Known(s), Legal(s, target, key),
             Store!ApplyTransition(views[s].id, target, key, time,
                                   ActionStop(target), ActionQuantity(target))
      PROVE  Goal
  <2> DEFINE i == views[s].id
  <2>1. i \in Signals /\ <<status[i], target>> \in SignalMoves
    BY <1>6, Facts, Remembers DEF Legal
  <2>2. /\ status' = [status EXCEPT ![i] = target]
        /\ currentStop' = IF target = "tp1_reached" THEN [currentStop EXCEPT ![i] = "breakeven"]
                          ELSE currentStop
    BY <1>6 DEF Store!ApplyTransition, Store!Updated, ActionStop
  <2>3. pos' = [pos EXCEPT ![i] = Stage(target)] /\ pos[i] = Stage(status[i])
    BY <1>4, <2>1, <2>2
  <2> HIDE DEF i, pos
  <2>4. CASE target = "active"
    <3>1. Stage(target) = Stage(status[i])
      BY <2>1, <2>4 DEF SignalMoves, Stage
    <3>2. pos' = pos
      BY <2>1, <2>3, <3>1 DEF pos
    <3>3. QED BY <2>2, <2>4, <3>2 DEF pos
  <2>5. CASE target = "entered"
    <3>1. Stage(target) = "full" /\ Stage(status[i]) = "waiting"
      BY <2>1, <2>5 DEF SignalMoves, Stage
    <3>2. Virtual!Fill(i)
      BY <2>2, <2>3, <2>5, <3>1 DEF Virtual!Fill, Virtual!Move, pos
    <3>3. QED BY <2>1, <3>2 DEF Virtual!Next
  <2>6. CASE target = "tp1_reached"
    <3>1. Stage(target) = "half" /\ Stage(status[i]) = "full"
      BY <2>1, <2>6 DEF SignalMoves, Stage
    <3>2. Virtual!TakeHalf(i)
      BY <2>2, <2>3, <2>6, <3>1 DEF Virtual!TakeHalf, Virtual!Move, pos
    <3>3. QED BY <2>1, <3>2 DEF Virtual!Next
  <2>7. CASE target \notin {"active", "entered", "tp1_reached"}
    <3>1. Stage(target) = "closed" /\ Stage(status[i]) \in {"waiting", "full", "half"}
      BY <2>1, <2>7 DEF SignalMoves, Stage
    <3>2. Virtual!Close(i)
      BY <2>2, <2>3, <2>7, <3>1 DEF Virtual!Close, Virtual!Move, pos
    <3>3. QED BY <2>1, <3>2 DEF Virtual!Next
  <2>8. QED BY <2>4, <2>5, <2>6, <2>7
<1>7. QED
  BY <1>3, <1>5, <1>6
     DEF StoreMove, storeVars, Store!CheckpointTrade, Store!RecordTrackingEvent

(* The virtual trades implement the abstract position: filled at most      *)
(* once, half closed at TP1 and only then the stop at breakeven, closed    *)
(* for good (apply_transition with the arguments of _apply_action).        *)
THEOREM TrackingPosition == Spec => PositionConsistent
<1>1. Init => Virtual!Init
  <2> SUFFICES ASSUME Init PROVE Virtual!Init
    OBVIOUS
  <2>1. /\ tradeStatus = [i \in Signals |-> "absent"]
        /\ currentStop = [i \in Signals |-> "initial"]
    BY DEF Init, Store!StoreInit
  <2>2. ASSUME NEW i \in Signals PROVE Position(i) = "none"
    <3>1. tradeStatus[i] = "absent"
      BY <2>1
    <3>2. tradeStatus[i] \notin TerminalStatuses
      BY <3>1 DEF TerminalStatuses
    <3>3. QED BY <3>1, <3>2 DEF Position
  <2>3. QED BY <2>1, <2>2 DEF Virtual!Init
<1>2. ServiceInvariant /\ ServiceInvariant' /\ [Next]_vars
        => [Virtual!Next]_<<[i \in Signals |-> Position(i)], currentStop>>
  BY StoreMoves, PositionMoves
<1>3. QED BY <1>1, <1>2, ServiceInvariantHolds, PTL DEF Spec, PositionConsistent, Virtual!Spec

-----------------------------------------------------------------------------
(* Coverage: which trades a signal has been evaluated against.             *)

(* A remembered signal whose trades are accounted for one by one.          *)
Exact(s) == Known(s) /\ Accountable(views[s].id)

(* What a job is about to do for a symbol: the trades it has yet to come   *)
(* to, those and the one it is at, and whether it establishes coverage.    *)
TodoOf(j, s) == IF j.phase = "batch" /\ j.sym = s THEN j.todo ELSE {}
AtHandOf(j, s) ==
  IF j.phase \in {"live", "batch"} /\ j.sym = s THEN j.todo \cup {j.at} ELSE {}
RecoversFor(j, s) == j.phase \in {"fetch", "candles"} /\ j.sym = s

Evaluated(s, t) == t \in seen[views[s].id] \cup TodoOf(job, s)

IsEvent(e, type, s) == e.type = type /\ e.sym = s

InQueue(type, s) == \E k \in DOMAIN queue : IsEvent(queue[k], type, s)
InOutgoing(type, s) == outgoing[s] # <<>> /\ outgoing[s][1].type = type
Heard(type, s) == queue # <<>> /\ IsEvent(Head(queue), type, s)

Queued(s, t) ==
  \/ \E k \in DOMAIN queue : IsEvent(queue[k], "trade", s) /\ queue[k].trade = t
  \/ InOutgoing("trade", s) /\ outgoing[s][1].trade = t

(* The loss of the connection is announced before any trade from t on.     *)
LossAnnounced(s, t) ==
  \/ \E k \in DOMAIN queue :
       /\ IsEvent(queue[k], "disconnected", s)
       /\ \A j \in DOMAIN queue : j < k /\ IsEvent(queue[j], "trade", s) => queue[j].trade < t
  \/ /\ InOutgoing("disconnected", s)
     /\ \A j \in DOMAIN queue : IsEvent(queue[j], "trade", s) => queue[j].trade < t

(* A covered symbol has no gap: what its connection has passed by was      *)
(* evaluated, is queued, or lies behind the announcement of a loss.        *)
Gapless(s) ==
  Exact(s) /\ pending[s] = NoAnchor /\ link[s] # "off" =>
    /\ buffer[s] # {}
    /\ \A t \in 1..received[s] :
         Relevant(views[s].id, t) => Evaluated(s, t) \/ Queued(s, t) \/ LossAnnounced(s, t)

(* Trades from before a pending anchor have been evaluated.                *)
AnchorIsSound(s) ==
  Exact(s) => \A t \in 1..Len(tape[s]) :
    Relevant(views[s].id, t) /\ TimeOf(s, t) < pending[s] => t \in seen[views[s].id]

(* What is older than a trade of the job was evaluated or is to be.        *)
JobIsGapless(s) ==
  Exact(s) => \A t \in 1..Len(tape[s]), u \in AtHandOf(job, s) :
    t <= u /\ Relevant(views[s].id, t) => Evaluated(s, t)

(* A lost connection whose trades are still buffered will be announced, or *)
(* nothing can prove coverage before the next one.                         *)
LossIsNews(s) ==
  \/ \E k \in DOMAIN queue : /\ IsEvent(queue[k], "disconnected", s)
                             /\ \A l \in DOMAIN queue : k < l => ~IsEvent(queue[l], "ready", s)
  \/ InOutgoing("disconnected", s)

NothingReady(s) ==
  /\ s \notin streamReady /\ pending[s] # NoAnchor
  /\ ~InQueue("ready", s) /\ ~RecoversFor(job, s)

LossIsNoticed(s) == link[s] = "down" /\ buffer[s] # {} => LossIsNews(s) \/ NothingReady(s)

(* A cancelled stream has no buffer; one that waits to say it is ready is  *)
(* still connected.                                                        *)
StreamInStep(s) ==
  /\ link[s] = "off" => buffer[s] = {}
  /\ InOutgoing("ready", s) => link[s] = "ready"

(* What the present connection has passed by is still buffered, but for    *)
(* what is older than everything in the buffer.                            *)
BufferRetains(s) ==
  /\ \A t \in buffer[s] : t <= received[s]
  /\ \A t \in buffer[s], u \in (opened[s] + 1)..received[s] : t <= u => u \in buffer[s]

CoverageInvariant ==
  /\ ServiceInvariant /\ NothingSkippedBelowCheckpoint
  /\ \A s \in Symbols : Gapless(s) /\ AnchorIsSound(s) /\ JobIsGapless(s) /\ BufferRetains(s)
  /\ \A s \in Symbols : LossIsNoticed(s) /\ StreamInStep(s)

-----------------------------------------------------------------------------
(* What a step does to the signal of a symbol. *)

(* Coverage is established, or the candles have been replayed.             *)
Settled(s) ==
  /\ RecoversFor(job, s) /\ pending'[s] = NoAnchor
  /\ Accountable(views[s].id)' =>
       /\ job.phase = "fetch" /\ AtHandOf(job', s) \subseteq TodoOf(job', s) \cup {0}
       /\ \E rest \in RestHistory(s) :
            /\ CoverageProven(s, rest, Buffered(s, pending[s]), pending[s])
            /\ ~Uncertain(s, rest, Buffered(s, pending[s]), pending[s])
            /\ TodoOf(job', s) = Merged(s, rest, Buffered(s, pending[s]), pending[s])

(* The service takes up the trade at the head of the queue.                *)
TakesUp(s) ==
  /\ Heard("trade", s) /\ pending[s] = NoAnchor /\ job = IdleJob /\ agenda = {}
  /\ AtHandOf(job', s) = {Head(queue).trade}
  /\ Head(queue).trade \in seen'[views[s].id]

QueueMove(s) ==
  \/ UNCHANGED queue
  \/ /\ queue # <<>> /\ queue' = Tail(queue)
     /\ Heard("disconnected", s) =>
          /\ pending'[s] = Anchor(s) /\ s \notin streamReady' /\ ~RecoversFor(job', s)
     /\ Heard("trade", s) /\ pending[s] = NoAnchor => Head(queue).trade \in seen'[views[s].id]

SymbolMove(s) ==
  /\ views'[s].id = views[s].id
  /\ seen[views[s].id] \subseteq seen'[views[s].id]
  /\ TodoOf(job, s) \subseteq seen'[views[s].id] \cup TodoOf(job', s)
  /\ pending'[s] = pending[s] \/ pending'[s] = Anchor(s) \/ Settled(s)
  /\ AtHandOf(job', s) \subseteq AtHandOf(job, s) \/ TakesUp(s) \/ Settled(s)
  /\ \/ checkpoint'[views[s].id] = checkpoint[views[s].id]
     \/ checkpoint'[views[s].id] \in AtHandOf(job, s) /\ TodoOf(job, s) = {}
  /\ RecoversFor(job', s) \/ s \in streamReady'
       => RecoversFor(job, s) \/ s \in streamReady \/ Heard("ready", s)
  /\ Stream \/ QueueMove(s)

(* The jobs there are. *)
LEMMA WorkAbout ==
  ASSUME NEW phase, NEW s, NEW x, NEW anchor, NEW todo, NEW at, NEW acts, NEW j,
         j = WorkJob(phase, x, anchor, todo, at, acts)
  PROVE  /\ TodoOf(j, s) = IF phase = "batch" /\ x = s THEN todo ELSE {}
         /\ AtHandOf(j, s) = IF phase \in {"live", "batch"} /\ x = s THEN todo \cup {at} ELSE {}
         /\ RecoversFor(j, s) <=> phase \in {"fetch", "candles"} /\ x = s
  BY DEF TodoOf, AtHandOf, RecoversFor, WorkJob

LEMMA JobsAbout ==
  /\ \A s : /\ TodoOf(IdleJob, s) = {} /\ AtHandOf(IdleJob, s) = {} /\ ~RecoversFor(IdleJob, s)
            /\ TodoOf(BootJob, s) = {} /\ AtHandOf(BootJob, s) = {} /\ ~RecoversFor(BootJob, s)
  /\ \A s, x, anchor : LET j == [phase |-> "fetch", sym |-> x, anchor |-> anchor]
                       IN /\ TodoOf(j, s) = {} /\ AtHandOf(j, s) = {}
                          /\ RecoversFor(j, s) <=> x = s
  BY DEF TodoOf, AtHandOf, RecoversFor, IdleJob, BootJob

(* What is true of a symbol that the step is not about.                    *)
LEMMA Untouched ==
  ASSUME NEW s \in Symbols, views'[s].id = views[s].id,
         seen'[views[s].id] = seen[views[s].id], pending'[s] = pending[s],
         TodoOf(job', s) = TodoOf(job, s), AtHandOf(job', s) = AtHandOf(job, s),
         RecoversFor(job', s) => RecoversFor(job, s),
         s \in streamReady' => s \in streamReady,
         checkpoint'[views[s].id] = checkpoint[views[s].id],
         Stream \/ UNCHANGED queue
  PROVE  SymbolMove(s)
  BY DEF SymbolMove, QueueMove

LEMMA OutsideMoves ==
  ASSUME ServiceInvariant, World \/ Stream \/ UNCHANGED vars, NEW s \in Symbols, Known(s)
  PROVE  SymbolMove(s)
<1>1. UNCHANGED <<memoryVars, job, seen>> /\ (Stream \/ UNCHANGED queue)
  BY DEF World, Tick, ExecuteTrade, PublishSignal, Stream, PutWaiting, Connect, Receive,
         MarkReady, Disconnect, UnchangedByStream, vars
<1>2. UNCHANGED checkpoint
  BY DEF World, Tick, ExecuteTrade, PublishSignal, Stream, PutWaiting, Connect, Receive,
         MarkReady, Disconnect, UnchangedByStream, vars, storeVars, Store!Publish
<1>3. QED BY <1>1, <1>2, Untouched DEF memoryVars

LEMMA TransitionMoves ==
  ASSUME ServiceInvariant, NEW x \in Symbols, NEW target, NEW key, NEW time, NEW left, NEW then,
         TransitionStep(x, target, key, time, left, then),
         NEW s \in Symbols, Known(s), Known(s)'
  PROVE  /\ views'[s].id = views[s].id
         /\ checkpoint'[views[s].id] = checkpoint[views[s].id]
         /\ s \in streamReady' => s \in streamReady
         /\ s # x => pending'[s] = pending[s]
         /\ s = x => ~Closes(target) /\ pending'[s] = left
         /\ job' = IF Closes(target) THEN IdleJob ELSE then
<1>1. /\ Known(x) /\ Legal(x, target, key)
      /\ views' = [views EXCEPT ![x] = Remembered(x, target)]
      /\ pending' = [pending EXCEPT ![x] = IF Closes(target) THEN NoAnchor ELSE left]
      /\ job' = IF Closes(target) THEN IdleJob ELSE then
      /\ streamReady' = streamReady \ {x} \/ UNCHANGED streamReady
      /\ UNCHANGED checkpoint
  BY DEF TransitionStep, Applied, Store!ApplyTransition
<1>2. /\ views \in [Symbols -> ViewRecords \cup {NoView}]
      /\ pending \in [Symbols -> 0..MaxTime \cup {NoAnchor}]
  BY Facts DEF TypeOK
<1>3. /\ Closes(target) => Remembered(x, target) = NoView
      /\ ~Closes(target) => Remembered(x, target).id = views[x].id
  BY <1>1, Facts, RememberedIs DEF Legal
<1>4. /\ views'[x] = Remembered(x, target)
      /\ s # x => views'[s] = views[s] /\ pending'[s] = pending[s]
  BY <1>1, <1>2
<1>5. pending'[x] = IF Closes(target) THEN NoAnchor ELSE left
  BY <1>1, <1>2
<1>6. s = x => ~Closes(target)
  BY <1>3, <1>4 DEF Known
<1>7. QED BY <1>1, <1>3, <1>4, <1>5, <1>6

(* An idle service has nothing at hand, and a busy one only for one symbol. *)
LEMMA OneJob ==
  ASSUME ServiceInvariant
  PROVE  /\ \A s : Busy /\ job.sym # s =>
              TodoOf(job, s) = {} /\ AtHandOf(job, s) = {} /\ ~RecoversFor(job, s)
         /\ job = IdleJob \/ job = BootJob \/ Busy
  BY Facts, BusyTyped DEF TodoOf, AtHandOf, RecoversFor, Busy, NoIllegalTransition, DeadJob

LEMMA ReconcileMoves ==
  ASSUME ServiceInvariant, NEW x \in Symbols, NEW now \in 0..MaxTime, ReconcileSymbol(x, now),
         NEW s \in Symbols, Known(s), Known(s)'
  PROVE  SymbolMove(s)
<1>1. job = IdleJob /\ UNCHANGED <<seen, queue>>
  BY ReconcileApplies
<1>2. CASE TransitionStep(x, "expired", <<"expired", views[x].id>>, Expires(views[x].id),
                          pending[x], IdleJob)
  <2>1. job' = IdleJob /\ pending'[s] = pending[s]
    BY <1>2, TransitionMoves
  <2>2. /\ views'[s].id = views[s].id
        /\ checkpoint'[views[s].id] = checkpoint[views[s].id]
        /\ s \in streamReady' => s \in streamReady
    BY <1>2, TransitionMoves
  <2>3. QED BY <1>1, <2>1, <2>2, Untouched
<1>3. CASE /\ link' = [link EXCEPT ![x] = "down"]
           /\ pending' = [pending EXCEPT ![x] = Anchor(x)]
           /\ UNCHANGED <<storeVars, received, opened, buffer, outgoing, views, streamReady, job>>
  <2>1. pending \in [Symbols -> 0..MaxTime \cup {NoAnchor}]
    BY Facts DEF TypeOK
  <2>2. pending'[s] = pending[s] \/ pending'[s] = Anchor(s)
    BY <1>3, <2>1
  <2>3. QED BY <1>1, <1>3, <2>2 DEF SymbolMove, QueueMove, storeVars
<1>4. CASE /\ job' = IF pending[x] # NoAnchor /\ x \in streamReady THEN FetchJob(x) ELSE job
           /\ UNCHANGED <<storeVars, streamVars, memoryVars>>
  <2>1. /\ TodoOf(job', s) = {} /\ AtHandOf(job', s) = {}
        /\ RecoversFor(job', s) => s \in streamReady
    BY <1>1, <1>4, JobsAbout DEF FetchJob
  <2>2. TodoOf(job, s) = {} /\ AtHandOf(job, s) = {}
    BY <1>1, JobsAbout
  <2>3. UNCHANGED <<views, pending, streamReady, checkpoint>>
    BY <1>4 DEF memoryVars, storeVars
  <2>4. QED BY <1>1, <2>1, <2>2, <2>3 DEF SymbolMove, QueueMove
<1>5. QED BY <1>2, <1>3, <1>4, ReconcileApplies

LEMMA ActMoves ==
  ASSUME ServiceInvariant, Act, NEW s \in Symbols, Known(s), Known(s)'
  PROVE  SymbolMove(s)
<1> DEFINE then == [job EXCEPT !.next = @ + 1]
<1>1. /\ job.sym \in Symbols /\ job \in WorkJobs /\ Busy
      /\ TransitionStep(job.sym, job.acts[job.next], ActKey(views[job.sym].id), ActTime,
                        pending[job.sym], then)
      /\ UNCHANGED <<seen, queue>>
  BY ActApplies DEF Act, UnchangedByService, Busy
<1>2. /\ then.phase = job.phase /\ then.sym = job.sym /\ then.todo = job.todo
      /\ then.at = job.at
  BY <1>1 DEF WorkJobs
<1>3. \A x : /\ TodoOf(then, x) = TodoOf(job, x) /\ AtHandOf(then, x) = AtHandOf(job, x)
             /\ RecoversFor(then, x) = RecoversFor(job, x)
  BY <1>2 DEF TodoOf, AtHandOf, RecoversFor
<1> HIDE DEF then
<1>4. /\ views'[s].id = views[s].id /\ checkpoint'[views[s].id] = checkpoint[views[s].id]
      /\ s \in streamReady' => s \in streamReady
      /\ pending'[s] = pending[s]
      /\ job' = then \/ (s # job.sym /\ job' = IdleJob)
  BY <1>1, TransitionMoves
<1>5. /\ TodoOf(job', s) = TodoOf(job, s) /\ AtHandOf(job', s) = AtHandOf(job, s)
      /\ RecoversFor(job', s) => RecoversFor(job, s)
  <2>1. CASE job' = then
    BY <1>3, <2>1
  <2>2. CASE s # job.sym /\ job' = IdleJob
    BY <1>1, <2>2, OneJob, JobsAbout
  <2>3. QED BY <1>4, <2>1, <2>2
<1>6. QED BY <1>1, <1>4, <1>5, Untouched

(* The event the service handles is at the head of the queue.              *)
LEMMA HeardMoves ==
  ASSUME ServiceInvariant, HandleDisconnected \/ HandleReady \/ HandleTrade,
         NEW s \in Symbols, Known(s), Known(s)'
  PROVE  SymbolMove(s)
<1> DEFINE x == Head(queue).sym
<1>1. job = IdleJob /\ agenda = {} /\ queue # <<>> /\ queue' = Tail(queue) /\ x \in Symbols
  BY HeadEvent DEF HandleDisconnected, HandleReady, HandleTrade, NextEvent
<1>2. UNCHANGED <<views, checkpoint>>
  BY DEF HandleDisconnected, HandleReady, HandleTrade, memoryVars, storeVars
<1>3. /\ seen \in [Signals -> SUBSET (1..MaxTrades)]
      /\ pending \in [Symbols -> 0..MaxTime \cup {NoAnchor}]
  BY Facts DEF TypeOK
<1>4. /\ TodoOf(job, s) = {} /\ AtHandOf(job, s) = {} /\ ~RecoversFor(job, s)
  BY <1>1, JobsAbout
<1>5. \A type : Heard(type, s) <=> x = s /\ Head(queue).type = type
  BY <1>1 DEF Heard, IsEvent
<1>6. CASE HandleDisconnected
  <2>1. /\ job' = job /\ seen' = seen /\ streamReady' = streamReady \ {x}
        /\ pending' = Reanchored(x) /\ Head(queue).type = "disconnected"
    BY <1>6 DEF HandleDisconnected, NextEvent
  <2>2. pending'[s] = IF s = x THEN Anchor(s) ELSE pending[s]
    BY <1>3, <2>1 DEF Reanchored
  <2>3. QueueMove(s)
    BY <1>1, <1>4, <1>5, <2>1, <2>2 DEF QueueMove
  <2>4. QED BY <1>2, <1>4, <2>1, <2>2, <2>3 DEF SymbolMove
<1>7. CASE HandleReady
  <2>1. /\ seen' = seen /\ pending' = pending /\ streamReady' = streamReady \cup {x}
        /\ job' = IF Known(x) /\ pending[x] # NoAnchor THEN FetchJob(x) ELSE job
        /\ Head(queue).type = "ready"
    BY <1>7 DEF HandleReady, NextEvent
  <2>2. /\ TodoOf(job', s) = {} /\ AtHandOf(job', s) = {} /\ (RecoversFor(job', s) => x = s)
    BY <1>1, <2>1, JobsAbout DEF FetchJob
  <2>3. QueueMove(s)
    BY <1>1, <1>5, <2>1 DEF QueueMove
  <2>4. RecoversFor(job', s) \/ s \in streamReady' => s \in streamReady \/ Heard("ready", s)
    BY <1>5, <2>1, <2>2
  <2>5. QED BY <1>2, <1>4, <2>1, <2>2, <2>3, <2>4 DEF SymbolMove
<1>8. CASE HandleTrade
  <2> DEFINE t == Head(queue).trade
  <2>1. /\ UNCHANGED <<pending, streamReady>> /\ Head(queue).type = "trade"
        /\ IF Known(x) /\ pending[x] = NoAnchor
           THEN /\ job' = WorkJob("live", x, NoAnchor, {}, t, ActsOnTrade(x, t))
                /\ seen' = [seen EXCEPT ![views[x].id] = @ \cup {t}]
           ELSE UNCHANGED <<job, seen>>
    BY <1>8 DEF HandleTrade, NextEvent, memoryVars
  <2>2. /\ TodoOf(job', s) = {} /\ ~RecoversFor(job', s)
        /\ AtHandOf(job', s) = IF s = x /\ pending[x] = NoAnchor THEN {t} ELSE {}
    <3>1. CASE Known(x) /\ pending[x] = NoAnchor
      BY <2>1, <3>1, WorkAbout
    <3>2. CASE ~(Known(x) /\ pending[x] = NoAnchor)
      BY <1>4, <2>1, <3>2
    <3>3. QED BY <3>1, <3>2
  <2>3. /\ seen[views[s].id] \subseteq seen'[views[s].id]
        /\ s = x /\ pending[x] = NoAnchor => t \in seen'[views[s].id]
    <3>1. views[s].id \in Signals /\ (Known(x) => views[x].id \in Signals)
      BY <1>1, Facts, Remembers
    <3>2. QED BY <1>3, <2>1, <3>1
  <2>4. QueueMove(s)
    BY <1>1, <1>5, <2>1, <2>3 DEF QueueMove
  <2>5. AtHandOf(job', s) \subseteq AtHandOf(job, s) \/ TakesUp(s)
    BY <1>1, <1>5, <2>1, <2>2, <2>3 DEF TakesUp
  <2>6. QED BY <1>2, <1>4, <2>1, <2>2, <2>3, <2>4, <2>5 DEF SymbolMove
<1>9. QED BY <1>6, <1>7, <1>8

LEMMA FinishMoves ==
  ASSUME ServiceInvariant, FinishLive \/ FinishBatch, NEW s \in Symbols, Known(s), Known(s)'
  PROVE  SymbolMove(s)
<1> DEFINE x == job.sym
           t == job.at
<1>1. x \in Symbols /\ Known(x) /\ Busy /\ job.phase \in {"live", "batch"} /\ job.todo = {}
  BY FinishChecks, Facts DEF FinishLive, FinishBatch, JobDone, Busy, JobFits
<1>2. /\ job' = IdleJob /\ UNCHANGED <<seen, pending, streamReady, queue>>
      /\ Checkpoint(x, t) \/ UNCHANGED <<storeVars, views>>
  BY DEF FinishLive, FinishBatch, UnchangedByService
<1>3. /\ \A y \in Symbols : Known(y) => views[y].id \in Signals /\ SymbolOf[views[y].id] = y
      /\ checkpoint \in [Signals -> 0..MaxTrades]
      /\ views \in [Symbols -> ViewRecords \cup {NoView}]
  BY Facts, Remembers, RowsTyped DEF TypeOK
<1>4. /\ TodoOf(job', s) = {} /\ AtHandOf(job', s) = {} /\ ~RecoversFor(job', s)
      /\ TodoOf(job, s) = {} /\ (s = x => t \in AtHandOf(job, s))
  BY <1>1, <1>2, JobsAbout DEF TodoOf, AtHandOf
<1>5. /\ views'[s].id = views[s].id
      /\ \/ checkpoint'[views[s].id] = checkpoint[views[s].id]
         \/ s = x /\ checkpoint'[views[s].id] = t
  <2>1. CASE Checkpoint(x, t)
    <3>1. /\ views' = [views EXCEPT ![x].last = t]
          /\ checkpoint' = checkpoint \/ checkpoint' = [checkpoint EXCEPT ![views[x].id] = t]
      BY <2>1 DEF Checkpoint, Store!CheckpointTrade
    <3>2. views'[s].id = views[s].id
      <4>1. CASE s # x
        BY <1>3, <3>1, <4>1
      <4>2. CASE s = x
        <5>1. views[x] \in ViewRecords
          BY <1>1, <1>3 DEF Known
        <5>2. views'[x] = [views[x] EXCEPT !.last = t]
          BY <1>1, <1>3, <3>1
        <5>3. QED BY <4>2, <5>1, <5>2 DEF ViewRecords
      <4>3. QED BY <4>1, <4>2
    <3>3. s # x => views[s].id # views[x].id
      BY <1>1, <1>3
    <3>4. QED BY <1>1, <1>3, <3>1, <3>2, <3>3
  <2>2. CASE UNCHANGED <<storeVars, views>>
    BY <2>2 DEF storeVars
  <2>3. QED BY <1>2, <2>1, <2>2
<1>6. QED BY <1>2, <1>4, <1>5 DEF SymbolMove, QueueMove

LEMMA ReplayMoves ==
  ASSUME ServiceInvariant, ReplayTrade \/ ReplayCandle, NEW s \in Symbols, Known(s), Known(s)'
  PROVE  SymbolMove(s)
<1> DEFINE x == job.sym
           t == Least(job.todo)
<1>1. /\ Busy /\ x \in Symbols /\ Known(x) /\ views[x].id \in Signals
      /\ job.phase \in {"batch", "candles"} /\ t \in job.todo
  BY AtWork, NextOfReplay DEF ReplayTrade, ReplayCandle, JobDone, Busy
<1>2. /\ UNCHANGED <<storeVars, memoryVars, queue>>
      /\ \E acts : job' = WorkJob(job.phase, x, job.anchor, job.todo \ {t}, t, acts)
      /\ \E T : /\ seen' = [seen EXCEPT ![views[x].id] = @ \cup T]
                /\ job.phase = "batch" => T = {t}
  BY DEF ReplayTrade, ReplayCandle, JobDone, UnchangedByService
<1>3. /\ seen \in [Signals -> SUBSET (1..MaxTrades)] /\ views[s].id \in Signals
  BY Facts, Remembers DEF TypeOK
<1> HIDE DEF t
<1>4. /\ seen[views[s].id] \subseteq seen'[views[s].id]
      /\ s = x /\ job.phase = "batch" => t \in seen'[views[s].id]
  BY <1>2, <1>3
<1>5. /\ TodoOf(job', s) = IF job.phase = "batch" /\ x = s THEN job.todo \ {t} ELSE {}
      /\ AtHandOf(job', s) = IF job.phase = "batch" /\ x = s THEN (job.todo \ {t}) \cup {t} ELSE {}
      /\ RecoversFor(job', s) <=> job.phase = "candles" /\ x = s
  <2>1. PICK acts : job' = WorkJob(job.phase, x, job.anchor, job.todo \ {t}, t, acts)
    BY <1>2
  <2>2. /\ TodoOf(job', s) = IF job.phase = "batch" /\ x = s THEN job.todo \ {t} ELSE {}
        /\ AtHandOf(job', s) = IF job.phase \in {"live", "batch"} /\ x = s
                               THEN (job.todo \ {t}) \cup {t} ELSE {}
        /\ RecoversFor(job', s) <=> job.phase \in {"fetch", "candles"} /\ x = s
    BY <2>1 DEF TodoOf, AtHandOf, RecoversFor, WorkJob
  <2>3. QED BY <1>1, <2>2
<1>6. /\ TodoOf(job, s) = IF job.phase = "batch" /\ x = s THEN job.todo ELSE {}
      /\ job.phase = "batch" /\ x = s => job.todo \subseteq AtHandOf(job, s)
      /\ RecoversFor(job, s) <=> job.phase = "candles" /\ x = s
  BY <1>1 DEF TodoOf, AtHandOf, RecoversFor
<1>7. UNCHANGED <<views, pending, streamReady, checkpoint>>
  BY <1>2 DEF memoryVars, storeVars
<1>8. AtHandOf(job', s) \subseteq AtHandOf(job, s)
  BY <1>1, <1>5, <1>6
<1>9. TodoOf(job, s) \subseteq seen'[views[s].id] \cup TodoOf(job', s)
  BY <1>4, <1>5, <1>6
<1>10. QED BY <1>2, <1>4, <1>5, <1>6, <1>7, <1>8, <1>9 DEF SymbolMove, QueueMove

(* The row that records the recovery is there, or was there before.        *)
LEMMA RecoveryRecorded ==
  ASSUME ServiceInvariant, NEW i \in Signals, NEW anchor, NEW time, NEW read,
         Store!RecordTrackingEvent(i, <<"recovered", i, anchor>>, time, read)
  PROVE  \E k \in DOMAIN events'[i] : events'[i][k].key[1] = "recovered"
<1> DEFINE key == <<"recovered", i, anchor>>
           row == Store!TrackingRow(key, read, time)
<1>1. events \in [Signals -> Seq(Store!EventRows)]
  BY Facts, RowsTyped
<1>2. \E k \in DOMAIN events'[i] : events'[i][k].key = key
  <2>1. CASE key \in Store!UsedKeys
    <3>1. PICK j \in Signals : \E k \in DOMAIN events[j] : events[j][k].key = key
      BY <2>1 DEF Store!UsedKeys, Store!Rows
    <3>2. PICK k \in DOMAIN events[j] : events[j][k].key = key
      BY <3>1
    <3>3. KeyNames(key, j, events[j][k].to)
      BY <3>2, Facts DEF RowsFit, KeysTellTargets
    <3>4. j = i
      BY <3>3 DEF KeyNames
    <3>5. events' = events
      BY <2>1 DEF Store!RecordTrackingEvent
    <3>6. QED BY <3>2, <3>4, <3>5
  <2>2. CASE key \notin Store!UsedKeys
    <3>1. events' = [events EXCEPT ![i] = Append(@, row)]
      BY <2>2 DEF Store!RecordTrackingEvent
    <3>2. events'[i] = Append(events[i], row) /\ events[i] \in Seq(Store!EventRows)
      BY <1>1, <3>1
    <3>3. row.key = key
      BY DEF Store!TrackingRow
    <3> HIDE DEF row, key
    <3>4. /\ Len(events[i]) + 1 \in DOMAIN Append(events[i], row)
          /\ Append(events[i], row)[Len(events[i]) + 1] = row
      BY <3>2, SMTT(20)
    <3>5. QED BY <3>2, <3>3, <3>4
  <2>3. QED BY <2>1, <2>2
<1>3. key[1] = "recovered"
  OBVIOUS
<1> HIDE DEF key
<1>4. QED BY <1>2, <1>3

LEMMA FinishCandlesMoves ==
  ASSUME ServiceInvariant, FinishCandles, NEW s \in Symbols, Known(s), Known(s)'
  PROVE  SymbolMove(s)
<1>0. PICK x \in Symbols : x = job.sym
  BY FinishCandlesRecords
<1> DEFINE rest == Buffered(x, (job.at + 1) * MinuteTicks)
<1>1. Known(x) /\ job.phase = "candles" /\ Busy
  BY <1>0, FinishCandlesRecords DEF FinishCandles, JobDone, Busy
<1>2. /\ Store!RecordTrackingEvent(views[x].id, <<"recovered", views[x].id, job.anchor>>,
                                   (job.at + 1) * MinuteTicks, status[views[x].id])
      /\ pending' = [pending EXCEPT ![x] = NoAnchor]
      /\ job' = IF rest = {} THEN IdleJob ELSE WorkJob("batch", x, job.anchor, rest, 0, <<>>)
      /\ UNCHANGED <<views, streamReady, seen, queue>>
  BY <1>0 DEF FinishCandles, UnchangedByService
<1>3. ~Accountable(views[x].id)' /\ UNCHANGED checkpoint
  <2>1. PICK i \in Signals : i = views[x].id
    BY <1>1, Facts, Remembers
  <2>2. /\ UNCHANGED checkpoint
        /\ \E k \in DOMAIN events'[i] : events'[i][k].key[1] = "recovered"
    BY <1>2, <2>1, RecoveryRecorded DEF Store!RecordTrackingEvent
  <2>3. views'[x].id = i
    BY <1>2, <2>1
  <2>4. QED BY <2>2, <2>3 DEF Accountable, TradeByTrade, Store!Rows
<1> HIDE DEF rest
<1>4. pending'[x] = NoAnchor /\ (s # x => pending'[s] = pending[s])
  BY <1>1, <1>2, Facts DEF TypeOK
<1>5. ~RecoversFor(job', s) /\ TodoOf(job, s) = {} /\ AtHandOf(job, s) = {}
      /\ (s # x => TodoOf(job', s) = {} /\ AtHandOf(job', s) = {})
  <2>1. ~RecoversFor(job', s) /\ (s # x => TodoOf(job', s) = {} /\ AtHandOf(job', s) = {})
    BY <1>2, JobsAbout, WorkAbout, SMTT(20)
  <2>2. TodoOf(job, s) = {} /\ AtHandOf(job, s) = {}
    BY <1>0, <1>1 DEF TodoOf, AtHandOf
  <2>3. QED BY <2>1, <2>2
<1>6. s = x => Settled(s)
  BY <1>0, <1>1, <1>3, <1>4 DEF Settled, RecoversFor
<1>7. QED BY <1>2, <1>3, <1>4, <1>5, <1>6 DEF SymbolMove, QueueMove

LEMMA EstablishMoves ==
  ASSUME ServiceInvariant, Establish, NEW s \in Symbols, Known(s), Known(s)'
  PROVE  SymbolMove(s)
<1> DEFINE x == job.sym
           key == <<"coverage", views[x].id, job.anchor>>
<1>1. /\ x \in Symbols /\ job.phase = "fetch" /\ Busy /\ job.anchor = pending[x]
      /\ UNCHANGED <<seen, queue>>
  BY EstablishApplies DEF Busy
<1>2. PICK rest \in RestHistory(x) : EstablishedBy(rest) /\ Doubted(rest)
  BY EstablishApplies
<1>3. /\ TodoOf(job, s) = {} /\ AtHandOf(job, s) = {} /\ (RecoversFor(job, s) <=> s = x)
  BY <1>1 DEF TodoOf, AtHandOf, RecoversFor
<1> DEFINE merged == Merged(x, rest, Buffered(x, job.anchor), job.anchor)
<1>4. LET j == ReplayJob(rest)
      IN /\ TodoOf(j, s) = IF s = x THEN merged ELSE {}
         /\ AtHandOf(j, s) = IF s = x THEN merged \cup {0} ELSE {}
         /\ ~RecoversFor(j, s)
  <2>1. ReplayJob(rest) = WorkJob("batch", x, job.anchor, merged, 0, <<>>)
    BY DEF ReplayJob
  <2> HIDE DEF merged
  <2>2. QED BY <2>1 DEF TodoOf, AtHandOf, RecoversFor, WorkJob
<1>5. ASSUME job' = ReplayJob(rest), Proven(rest), pending'[x] = NoAnchor, s = x,
             views'[s].id = views[s].id
      PROVE  Settled(s)
  <2>1. /\ AtHandOf(job', s) \subseteq TodoOf(job', s) \cup {0} /\ TodoOf(job', s) = merged
    BY <1>4, <1>5
  <2>2. CoverageProven(s, rest, Buffered(s, pending[s]), pending[s])
    BY <1>1, <1>5 DEF Proven
  <2>3. merged = Merged(s, rest, Buffered(s, pending[s]), pending[s])
    BY <1>1, <1>5
  <2>4. rest \in RestHistory(s)
    BY <1>2, <1>5
  <2>5. Accountable(views[s].id)' => ~Uncertain(s, rest, Buffered(s, pending[s]), pending[s])
    BY <1>1, <1>2, <1>5 DEF Doubted, Accountable
  <2>6. QED BY <1>1, <1>3, <1>5, <2>1, <2>2, <2>3, <2>4, <2>5 DEF Settled
<1> HIDE DEF merged
<1>6. CASE /\ Proven(rest)
           /\ TransitionStep(x, "active", key, job.anchor, NoAnchor, ReplayJob(rest))
  <2>1. /\ views'[s].id = views[s].id
        /\ checkpoint'[views[s].id] = checkpoint[views[s].id]
        /\ s \in streamReady' => s \in streamReady
        /\ s # x => pending'[s] = pending[s]
        /\ s = x => pending'[s] = NoAnchor
        /\ job' = ReplayJob(rest)
    BY <1>1, <1>6, TransitionMoves DEF Closes, TerminalStatuses
  <2>2. s = x => Settled(s)
    BY <1>5, <1>6, <2>1
  <2>3. QED BY <1>1, <1>3, <1>4, <2>1, <2>2 DEF SymbolMove, QueueMove
<1>7. CASE /\ Proven(rest)
           /\ pending' = [pending EXCEPT ![x] = NoAnchor]
           /\ job' = ReplayJob(rest)
           /\ UNCHANGED <<storeVars, views, streamReady, streamVars>>
  <2>1. pending'[x] = NoAnchor /\ (s # x => pending'[s] = pending[s])
    BY <1>1, <1>7, Facts DEF TypeOK
  <2>2. s = x => Settled(s)
    BY <1>5, <1>7, <2>1
  <2>3. QED BY <1>1, <1>3, <1>4, <1>7, <2>1, <2>2 DEF SymbolMove, QueueMove, storeVars
<1>8. CASE TransitionStep(x, "coverage_failed", key, clock, NoAnchor, IdleJob)
  <2>1. /\ views'[s].id = views[s].id
        /\ checkpoint'[views[s].id] = checkpoint[views[s].id]
        /\ s \in streamReady' => s \in streamReady
        /\ s # x /\ pending'[s] = pending[s]
        /\ job' = IdleJob
    BY <1>1, <1>8, TransitionMoves DEF Closes, TerminalStatuses
  <2>2. QED BY <1>1, <1>3, <2>1, JobsAbout, Untouched
<1>9. CASE /\ \/ job' = IdleJob
              \/ MinuteOf(job.anchor)..(MinuteOf(clock) - 1) # {} /\ job' = CandleJob
           /\ UNCHANGED <<storeVars, memoryVars, streamVars>>
  <2>1. /\ TodoOf(job', s) = {} /\ AtHandOf(job', s) = {}
        /\ RecoversFor(job', s) => s = x
    BY <1>9, JobsAbout, WorkAbout DEF CandleJob
  <2>2. UNCHANGED <<views, pending, streamReady, checkpoint>>
    BY <1>9 DEF memoryVars, storeVars
  <2>3. QED BY <1>1, <1>3, <2>1, <2>2 DEF SymbolMove, QueueMove
<1>10. QED BY <1>2, <1>6, <1>7, <1>8, <1>9 DEF EstablishedBy

LEMMA BeginReconcileMoves ==
  ASSUME ServiceInvariant, BeginReconcile, NEW s \in Symbols, Known(s)'
  PROVE  /\ Known(s) => SymbolMove(s)
         /\ ~Known(s) => link'[s] = "off" /\ pending'[s] = NoAnchor /\ job' = IdleJob
<1> DEFINE released == {x \in Symbols : Known(x) /\ StoredView(x) = NoView}
<1>1. /\ views' = [x \in Symbols |-> StoredView(x)]
      /\ pending' = [x \in Symbols |-> IF x \in released THEN NoAnchor ELSE pending[x]]
      /\ streamReady' = streamReady \ released
      /\ link' = [x \in Symbols |-> IF x \in released THEN "off" ELSE link[x]]
      /\ job \in {IdleJob, BootJob} /\ job' = IdleJob /\ UNCHANGED <<storeVars, seen, queue>>
  BY DEF BeginReconcile, Unsubscribed, UnchangedByService
<1>2. views'[s] = StoredView(s) /\ StoredView(s) # NoView
  BY <1>1 DEF Known
<1>3. s \notin released /\ link'[s] = link[s] /\ pending'[s] = pending[s]
      /\ (s \in streamReady' => s \in streamReady) /\ checkpoint' = checkpoint
  BY <1>1, <1>2 DEF storeVars
<1>4. ASSUME Known(s) PROVE SymbolMove(s)
  <2>1. PICK i \in Store!Tracked(s) : StoredView(s).id = i
    BY <1>2, Facts, Reads
  <2>2. views[s].id \in Store!Tracked(s)
    BY <1>4, Facts DEF MemoryMatchesRows
  <2>3. i = views[s].id
    BY <2>1, <2>2, Facts DEF RowsFit, Store!OneTrackedPerSymbol, Store!Tracked
  <2>4. /\ TodoOf(job', s) = TodoOf(job, s) /\ AtHandOf(job', s) = AtHandOf(job, s)
        /\ RecoversFor(job', s) => RecoversFor(job, s)
    BY <1>1, JobsAbout
  <2>5. QED BY <1>1, <1>2, <1>3, <2>1, <2>3, <2>4, Untouched
<1>5. ASSUME ~Known(s) PROVE link'[s] = "off" /\ pending'[s] = NoAnchor
  BY <1>3, <1>5, Facts DEF NothingLeftBehind
<1>6. QED BY <1>1, <1>4, <1>5

(* A signal is remembered for the first time when nothing is going on.     *)
LEMMA SymbolMoves ==
  ASSUME ServiceInvariant, [Next]_vars, NEW s \in Symbols, Known(s)'
  PROVE  /\ Known(s) => SymbolMove(s)
         /\ ~Known(s) => link'[s] = "off" /\ pending'[s] = NoAnchor /\ job' = IdleJob
<1>1. CASE World \/ Stream \/ UNCHANGED vars
  <2>1. UNCHANGED views
    BY <1>1 DEF World, Tick, ExecuteTrade, PublishSignal, Stream, PutWaiting, Connect, Receive,
                MarkReady, Disconnect, UnchangedByStream, vars, memoryVars
  <2>2. Known(s)
    BY <2>1 DEF Known
  <2>3. QED BY <1>1, <2>2, OutsideMoves
<1>2. CASE BeginReconcile
  BY <1>2, BeginReconcileMoves
<1>3. CASE Restart
  BY <1>3 DEF Restart, Known
<1>4. ASSUME ~Known(s), Service, ~BeginReconcile PROVE FALSE
  <2>1. \/ UNCHANGED views
        \/ \E x \in Symbols : \E v : Known(x) /\ views' = [views EXCEPT ![x] = v]
    <3>1. ASSUME NEW x \in Symbols, NEW target, NEW key, NEW time, NEW left, NEW then,
                 TransitionStep(x, target, key, time, left, then)
          PROVE  \E y \in Symbols : \E v : Known(y) /\ views' = [views EXCEPT ![y] = v]
      BY <3>1 DEF TransitionStep, Applied
    <3>2. ASSUME NEW x \in Symbols, NEW now \in 0..MaxTime, ReconcileSymbol(x, now)
          PROVE  \/ UNCHANGED views
                 \/ \E y \in Symbols : \E v : Known(y) /\ views' = [views EXCEPT ![y] = v]
      BY <3>1, <3>2, ReconcileApplies DEF memoryVars
    <3>3. CASE Act
      BY <3>1, <3>3, ActApplies
    <3>4. CASE Establish
      BY <3>1, <3>4, EstablishApplies DEF EstablishedBy, memoryVars
    <3>5. CASE FinishLive \/ FinishBatch
      <4>1. job.sym \in Symbols /\ Known(job.sym)
        BY <3>5, FinishChecks
      <4>2. UNCHANGED views \/ views' = [views EXCEPT ![job.sym] = [@ EXCEPT !.last = job.at]]
        BY <3>5 DEF FinishLive, FinishBatch, Checkpoint
      <4>3. QED BY <4>1, <4>2
    <3>6. CASE HandleDisconnected \/ HandleReady \/ HandleTrade \/ ReplayTrade \/ ReplayCandle
               \/ FinishCandles
      BY <3>6 DEF HandleDisconnected, HandleReady, HandleTrade, ReplayTrade, ReplayCandle,
                  FinishCandles, memoryVars
    <3>7. QED BY <1>4, <3>2, <3>3, <3>4, <3>5, <3>6 DEF Service
  <2>2. views \in [Symbols -> ViewRecords \cup {NoView}]
    BY Facts DEF TypeOK
  <2>3. views'[s] = views[s]
    BY <1>4, <2>1, <2>2
  <2>4. QED BY <1>4, <2>3 DEF Known
<1>5. ASSUME Service, ~BeginReconcile, Known(s) PROVE SymbolMove(s)
  BY <1>5, ReconcileMoves, HeardMoves, ActMoves, FinishMoves, EstablishMoves, ReplayMoves,
     FinishCandlesMoves DEF Service
<1>6. QED BY <1>1, <1>2, <1>3, <1>4, <1>5 DEF Next

(* What is known of a signal's trades stays known, and what it still has   *)
(* to do with them it had to do before.                                    *)
LEMMA EvidenceKept ==
  ASSUME ServiceInvariant, [Next]_vars, NEW i \in Signals
  PROVE  /\ (\A k \in DOMAIN events'[i] : events'[i][k].key[1] # "recovered")
              => TradeByTrade(i)
         /\ i \in doubtful => i \in doubtful'
         /\ createdAt[i] <= createdAt'[i]
<1>1. StoreMove
  BY StoreMoves
<1>2. createdAt[i] \in Nat /\ createdAt[i] <= clock /\ createdAt \in [Signals -> Nat]
  BY Facts, RowsTyped, Constants DEF RowsInTime
<1>3. createdAt[i] <= createdAt'[i]
  <2>1. CASE UNCHANGED createdAt
    BY <1>2, <2>1
  <2>2. ASSUME NEW j \in Signals, createdAt' = [createdAt EXCEPT ![j] = clock]
        PROVE  createdAt[i] <= createdAt'[i]
    BY <1>2, <2>2
  <2>3. QED
    BY <1>1, <2>1, <2>2 DEF StoreMove, storeVars, Store!Publish, Store!ApplyTransition,
                            Store!CheckpointTrade, Store!RecordTrackingEvent
<1>4. \/ UNCHANGED events
      \/ \E j \in Signals : \E row : events' = [events EXCEPT ![j] = Append(@, row)]
  <2>1. CASE UNCHANGED storeVars
    BY <2>1 DEF storeVars
  <2>2. ASSUME NEW j \in Signals, Store!Publish(j, <<"candidate", j>>, TRUE, clock)
        PROVE  \E row : events' = [events EXCEPT ![j] = Append(@, row)]
    BY <2>2 DEF Store!Publish
  <2>3. ASSUME NEW s \in Symbols, NEW target, NEW key, NEW time, Known(s),
               Store!ApplyTransition(views[s].id, target, key, time,
                                     ActionStop(target), ActionQuantity(target))
        PROVE  \E j \in Signals : \E row : events' = [events EXCEPT ![j] = Append(@, row)]
    <3>1. views[s].id \in Signals
      BY <2>3, Facts, Remembers
    <3>2. QED BY <2>3, <3>1 DEF Store!ApplyTransition
  <2>4. ASSUME NEW s \in Symbols, NEW t, Store!CheckpointTrade(views[s].id, t)
        PROVE  UNCHANGED events
    BY <2>4 DEF Store!CheckpointTrade
  <2>5. ASSUME NEW s \in Symbols, NEW key, NEW time, Known(s),
               Store!RecordTrackingEvent(views[s].id, key, time, status[views[s].id])
        PROVE  \/ UNCHANGED events
               \/ \E j \in Signals : \E row : events' = [events EXCEPT ![j] = Append(@, row)]
    <3>1. views[s].id \in Signals
      BY <2>5, Facts, Remembers
    <3>2. QED BY <2>5, <3>1 DEF Store!RecordTrackingEvent
  <2>6. QED BY <1>1, <2>1, <2>2, <2>3, <2>4, <2>5 DEF StoreMove
<1>5. \A k \in DOMAIN events[i] : k \in DOMAIN events'[i] /\ events'[i][k] = events[i][k]
  <2>1. events \in [Signals -> Seq(Store!EventRows)]
    BY Facts, RowsTyped
  <2>2. ASSUME NEW j \in Signals, NEW row, events' = [events EXCEPT ![j] = Append(@, row)]
        PROVE  \A k \in DOMAIN events[i] : k \in DOMAIN events'[i] /\ events'[i][k] = events[i][k]
    <3>1. CASE i # j
      BY <2>1, <2>2, <3>1
    <3>2. CASE i = j
      <4>1. events'[i] = Append(events[i], row) /\ events[i] \in Seq(Store!EventRows)
        BY <2>1, <2>2, <3>2
      <4>2. QED BY <4>1, SMTT(20)
    <3>3. QED BY <3>1, <3>2
  <2>3. QED BY <1>4, <2>2
<1>6. i \in doubtful => i \in doubtful'
  BY DoubtsGrow, EstablishApplies DEF Doubted
<1>7. QED BY <1>3, <1>5, <1>6 DEF TradeByTrade, Store!Rows

-----------------------------------------------------------------------------
(* The history of trades only grows, by trades of the present.             *)
LEMMA TapeGrows ==
  ASSUME ServiceInvariant, [Next]_vars, NEW s \in Symbols
  PROVE  /\ Len(tape[s]) \in Nat
         /\ \A t \in 1..Len(tape[s]) : t \in 1..Len(tape'[s]) /\ TimeOf(s, t)' = TimeOf(s, t)
         /\ \A t \in 1..Len(tape[s]) : TimeOf(s, t) \in Nat /\ TimeOf(s, t) <= clock
         /\ \/ Len(tape'[s]) = Len(tape[s])
            \/ /\ Len(tape'[s]) = Len(tape[s]) + 1 /\ ExecuteTrade(s)
               /\ \A t : t = Len(tape[s]) + 1 => TimeOf(s, t)' = clock
<1>1. /\ Len(tape[s]) <= Len(tape'[s]) /\ Len(tape'[s]) \in Nat
      /\ \A t \in 1..Len(tape[s]) : tape'[s][t] = tape[s][t]
  BY Facts, TapeTyped
<1>2. Len(tape[s]) \in Nat /\ \A t \in 1..Len(tape[s]) : TimeOf(s, t) \in Nat /\ TimeOf(s, t) <= clock
  BY Facts, ClockTyped, Constants DEF TapeFits
<1>3. \A t \in 1..Len(tape[s]) : t \in 1..Len(tape'[s]) /\ TimeOf(s, t)' = TimeOf(s, t)
  BY <1>1, <1>2, SMTT(40) DEF TimeOf
<1>4. \/ Len(tape'[s]) = Len(tape[s])
      \/ /\ Len(tape'[s]) = Len(tape[s]) + 1 /\ ExecuteTrade(s)
         /\ \A t : t = Len(tape[s]) + 1 => TimeOf(s, t)' = clock
  <2>1. CASE Tick \/ UNCHANGED <<clock, tape>>
    BY <2>1 DEF Tick
  <2>2. ASSUME NEW x \in Symbols, ExecuteTrade(x), x # s PROVE tape'[s] = tape[s]
    BY <2>2, Facts, Executed
  <2>3. CASE ExecuteTrade(s)
    BY <2>3, Facts, Executed DEF TimeOf
  <2>4. QED BY <2>1, <2>2, <2>3, WorldMoves
<1>5. QED BY <1>2, <1>3, <1>4

(* A trade that could move a signal could do so when it was executed, and  *)
(* none that is older becomes one.                                         *)
LEMMA RelevantKept ==
  ASSUME ServiceInvariant, [Next]_vars, NEW i \in Signals,
         NEW t \in 1..Len(tape[SymbolOf[i]]), Relevant(i, t)'
  PROVE  Relevant(i, t)
<1>1. SymbolOf[i] \in Symbols
  BY Constants
<1>2. TimeOf(SymbolOf[i], t)' = TimeOf(SymbolOf[i], t) /\ TimeOf(SymbolOf[i], t) \in Nat
  BY <1>1, TapeGrows
<1>3. createdAt[i] <= createdAt'[i]
  BY EvidenceKept
<1>4. createdAt[i] \in Nat /\ createdAt'[i] \in Nat
  <2>1. Store!StoreTypeOK'
    BY StoreMoves, RowsTypedStep
  <2>2. createdAt \in [Signals -> 0..(MaxTime + Lifetime)]
    BY Facts, RowsTyped
  <2>3. createdAt' \in [Signals -> 0..(MaxTime + Lifetime) \cup {0}]
    BY <2>1 DEF Store!StoreTypeOK
  <2>4. QED BY <2>2, <2>3, Constants
<1>5. TimeOf(SymbolOf[i], t)' >= createdAt'[i]
  BY DEF Relevant
<1>6. QED BY <1>2, <1>3, <1>4, <1>5 DEF Relevant

(* The trades of a symbol, in numbers. *)
LEMMA NewTrades ==
  ASSUME ServiceInvariant, [Next]_vars, NEW s \in Symbols, NEW t \in 1..Len(tape'[s])
  PROVE  /\ t \in Nat /\ TimeOf(s, t)' \in Nat /\ TimeOf(s, t)' <= clock'
         /\ t \in 1..Len(tape[s]) => TimeOf(s, t)' = TimeOf(s, t)
         /\ t \notin 1..Len(tape[s]) => /\ t = Len(tape[s]) + 1 /\ ExecuteTrade(s)
                                        /\ TimeOf(s, t)' = clock /\ clock' = clock
<1>1. clock \in Nat /\ clock' \in Nat /\ clock <= clock'
  BY Facts, ClockTyped, TapeTyped, Constants
<1>2. CASE t \in 1..Len(tape[s])
  <2>1. TimeOf(s, t)' = TimeOf(s, t) /\ TimeOf(s, t) \in Nat /\ TimeOf(s, t) <= clock
    BY <1>2, TapeGrows
  <2>2. QED BY <1>1, <1>2, <2>1
<1>3. CASE t \notin 1..Len(tape[s])
  <2>1. t = Len(tape[s]) + 1 /\ ExecuteTrade(s) /\ Len(tape[s]) \in Nat
    BY <1>3, TapeGrows, SMTT(20)
  <2>2. TimeOf(s, t)' = clock
    BY <1>3, <2>1, TapeGrows
  <2>3. clock' = clock
    BY <2>1 DEF ExecuteTrade
  <2>4. QED BY <1>1, <1>3, <2>1, <2>2, <2>3, SMTT(20)
<1>4. QED BY <1>2, <1>3

(* A signal that is remembered before and after a step.                    *)
LEMMA Continued ==
  ASSUME ServiceInvariant, [Next]_vars, NEW s \in Symbols, Known(s), Known(s)',
         NEW i, i = views[s].id
  PROVE  /\ i \in Signals /\ SymbolOf[i] = s /\ views'[s].id = i
         /\ SymbolMove(s) /\ (Exact(s)' => Exact(s))
         /\ seen[i] \subseteq seen'[i] /\ seen[i] \subseteq Nat
<1>1. i \in Signals /\ SymbolOf[i] = s
  BY Facts, Remembers
<1>2. SymbolMove(s)
  BY SymbolMoves
<1>3. views'[s].id = i /\ seen[i] \subseteq seen'[i]
  BY <1>2 DEF SymbolMove
<1>4. Exact(s)' => Exact(s)
  <2>1. (\A k \in DOMAIN events'[i] : events'[i][k].key[1] # "recovered") => TradeByTrade(i)
    BY <1>1, EvidenceKept
  <2>2. i \in doubtful => i \in doubtful'
    BY <1>1, EvidenceKept
  <2>3. QED BY <1>3, <2>1, <2>2 DEF Exact, Accountable, TradeByTrade, Store!Rows
<1>5. seen[i] \subseteq Nat
  BY <1>1, Facts, Constants DEF TypeOK
<1>6. QED BY <1>1, <1>2, <1>3, <1>4, <1>5

LEMMA AnchorStep ==
  ASSUME CoverageInvariant, [Next]_vars, NEW s \in Symbols
  PROVE  AnchorIsSound(s)'
<1>0. ServiceInvariant /\ ServiceInvariant' /\ AnchorIsSound(s) /\ NothingSkippedBelowCheckpoint
  BY ServiceStep DEF CoverageInvariant
<1> SUFFICES ASSUME Exact(s)', NEW t \in 1..Len(tape'[s]), Relevant(views[s].id, t)',
                    TimeOf(s, t)' < pending'[s]
             PROVE  t \in seen'[views'[s].id]
  BY DEF AnchorIsSound
<1>1. TimeOf(s, t)' \in Nat /\ pending'[s] # NoAnchor
  BY <1>0, NewTrades DEF NoAnchor
<1>2. Known(s)' /\ Known(s)
  BY <1>0, <1>1, SymbolMoves DEF Exact
<1>3. PICK i : i = views[s].id
  OBVIOUS
<1>4. /\ i \in Signals /\ SymbolOf[i] = s /\ views'[s].id = i
      /\ SymbolMove(s) /\ Exact(s) /\ seen[i] \subseteq seen'[i]
  BY <1>0, <1>2, <1>3, Continued
<1>5. pending'[s] <= clock' /\ pending'[s] \in 0..MaxTime
  BY <1>0, <1>1 DEF ServiceInvariant, MemoryFits, TypeOK
<1>6. t \in 1..Len(tape[s]) /\ TimeOf(s, t)' = TimeOf(s, t)
  BY <1>0, <1>1, <1>5, NewTrades, Constants
<1>7. Relevant(i, t)
  <2>1. Relevant(i, t)'
    BY <1>4 DEF Relevant
  <2>2. QED BY <1>0, <1>4, <1>6, <2>1, RelevantKept
<1>8. CASE pending'[s] = pending[s]
  BY <1>3, <1>4, <1>6, <1>7, <1>8, <1>0 DEF AnchorIsSound
<1>9. CASE pending'[s] = Anchor(s)
  <2> DEFINE last == views[s].last
  <2>1. /\ last \in Nat /\ last <= checkpoint[i] /\ checkpoint[i] <= Len(tape[s])
        /\ checkpoint[i] \in Nat /\ Len(tape[s]) \in Nat /\ createdAt[i] \in Nat
    BY <1>0, <1>2, <1>3, <1>4, Facts, Remembers, RowsTyped, TapeGrows, Constants, SMTT(20)
       DEF MemoryFits, RowsInTime
  <2>2. last # 0
    <3>1. TimeOf(s, t) >= createdAt[i] /\ TimeOf(s, t) < pending'[s] /\ TimeOf(s, t) \in Nat
      BY <1>1, <1>4, <1>6, <1>7 DEF Relevant
    <3>2. last = 0 => pending'[s] = createdAt[i]
      BY <1>3, <1>9 DEF Anchor
    <3>3. QED BY <2>1, <3>1, <3>2, SMTT(20)
  <2>3. TimeOf(s, t) < TimeOf(s, last)
    BY <1>6, <1>9, <2>2 DEF Anchor
  <2> HIDE DEF last
  <2>4. last \in 1..Len(tape[s])
    BY <2>1, <2>2, SMTT(20)
  <2>5. ~(last <= t)
    <3>1. last <= t => TimeOf(s, last) <= TimeOf(s, t)
      BY <1>0, <1>6, <2>4, Facts DEF TapeFits
    <3>2. TimeOf(s, last) \in Nat /\ TimeOf(s, t) \in Nat
      BY <1>0, <1>6, <2>4, TapeGrows
    <3>3. QED BY <2>3, <3>1, <3>2
  <2>6. t \in 1..checkpoint[i]
    BY <1>6, <2>1, <2>4, <2>5
  <2>7. QED BY <1>0, <1>3, <1>4, <1>7, <2>6 DEF NothingSkippedBelowCheckpoint, Exact
<1>10. QED BY <1>1, <1>4, <1>8, <1>9 DEF SymbolMove, Settled

(* Only the end of a job for a signal moves its checkpoint, and what a     *)
(* signal was evaluated against stays so.                                  *)
LEMMA CheckpointMoves ==
  ASSUME ServiceInvariant, [Next]_vars, NEW i \in Signals
  PROVE  /\ seen[i] \subseteq seen'[i]
         /\ \/ checkpoint'[i] = checkpoint[i]
            \/ \E s \in Symbols : Known(s) /\ Known(s)' /\ views[s].id = i
<1> DEFINE Advances(s) == Known(s) /\ Known(s)' /\ views[s].id = i
           Goal == /\ seen[i] \subseteq seen'[i]
                   /\ checkpoint'[i] = checkpoint[i] \/ \E s \in Symbols : Advances(s)
<1>1. CASE World \/ Stream \/ UNCHANGED vars \/ Restart \/ BeginReconcile
  BY <1>1 DEF World, Tick, ExecuteTrade, PublishSignal, Store!Publish, Stream, PutWaiting, Connect,
              Receive, MarkReady, Disconnect, UnchangedByStream, Restart, BeginReconcile, vars, storeVars
<1>2. ASSUME NEW x, NEW target, NEW key, NEW time, NEW left, NEW then,
             TransitionStep(x, target, key, time, left, then)
      PROVE  UNCHANGED checkpoint
  BY <1>2 DEF TransitionStep, Applied, Store!ApplyTransition
<1>3. ASSUME NEW x \in Symbols, NEW now \in 0..MaxTime, ReconcileSymbol(x, now)
      PROVE  UNCHANGED <<checkpoint, seen>>
  BY <1>2, <1>3, ReconcileApplies DEF storeVars
<1>4. CASE Act
  BY <1>2, <1>4, ActApplies DEF Act
<1>5. CASE Establish
  BY <1>2, <1>5, EstablishApplies DEF EstablishedBy, storeVars
<1>6. CASE HandleDisconnected \/ HandleReady \/ FinishCandles
  BY <1>6 DEF HandleDisconnected, HandleReady, FinishCandles, storeVars, Store!RecordTrackingEvent
<1>7. CASE HandleTrade \/ ReplayTrade \/ ReplayCandle
  <2>1. UNCHANGED checkpoint
    BY <1>7 DEF HandleTrade, ReplayTrade, ReplayCandle, storeVars
  <2>2. UNCHANGED seen \/ \E j, T : seen' = [seen EXCEPT ![j] = @ \cup T]
    BY <1>7 DEF HandleTrade, ReplayTrade, ReplayCandle
  <2>3. seen \in [Signals -> SUBSET (1..MaxTrades)]
    BY Facts DEF TypeOK
  <2>4. QED BY <2>1, <2>2, <2>3
<1>8. CASE FinishLive \/ FinishBatch
  <2>1. PICK s \in Symbols : s = job.sym /\ Known(s)
    BY <1>8, FinishChecks
  <2>2. /\ UNCHANGED seen
        /\ UNCHANGED <<checkpoint, views>> \/ Checkpoint(s, job.at)
    BY <1>8, <2>1 DEF FinishLive, FinishBatch, storeVars
  <2>3. ASSUME Checkpoint(s, job.at), checkpoint'[i] # checkpoint[i] PROVE Advances(s)
    <3>1. /\ checkpoint' = checkpoint \/ checkpoint' = [checkpoint EXCEPT ![views[s].id] = job.at]
          /\ views' = [views EXCEPT ![s] = [@ EXCEPT !.last = job.at]]
      BY <2>3 DEF Checkpoint, Store!CheckpointTrade
    <3>2. checkpoint \in [Signals -> 0..MaxTrades] /\ views \in [Symbols -> ViewRecords \cup {NoView}]
      BY Facts, RowsTyped DEF TypeOK
    <3>3. views[s].id = i
      BY <2>3, <3>1, <3>2
    <3>4. views'[s].status = views[s].status /\ views[s].status \in TrackingStatuses
      BY <2>1, <3>1, <3>2, Facts, Remembers DEF ViewRecords, Known
    <3>5. views'[s] # NoView
      BY <3>4 DEF NoView, TrackingStatuses
    <3>6. QED BY <2>1, <3>3, <3>5 DEF Known
  <2>4. QED BY <2>2, <2>3
<1>9. QED BY <1>1, <1>3, <1>4, <1>5, <1>6, <1>7, <1>8 DEF Next, Service

LEMMA CheckpointStep ==
  ASSUME CoverageInvariant, [Next]_vars
  PROVE  NothingSkippedBelowCheckpoint'
<1>0. /\ ServiceInvariant /\ ServiceInvariant' /\ NothingSkippedBelowCheckpoint
      /\ \A s \in Symbols : JobIsGapless(s)
  BY ServiceStep DEF CoverageInvariant
<1> SUFFICES ASSUME NEW i \in Signals, Accountable(i)', NEW t \in 1..checkpoint'[i], Relevant(i, t)'
             PROVE  t \in seen'[i]
  BY DEF NothingSkippedBelowCheckpoint
<1> DEFINE s == SymbolOf[i]
<1>1. s \in Symbols
  BY Constants
<1>2. /\ checkpoint[i] \in Nat /\ checkpoint[i] <= Len(tape[s]) /\ Len(tape[s]) \in Nat
      /\ checkpoint'[i] <= Len(tape'[s])
  BY <1>0, <1>1, Facts, RowsTyped, TapeGrows, Constants DEF RowsInTime, ServiceInvariant
<1>3. t \in 1..Len(tape'[s])
  <2>1. Len(tape'[s]) \in Nat
    BY <1>0, <1>1, Facts, TapeTyped
  <2>2. checkpoint' \in [Signals -> 1..MaxTrades \cup {0}]
    BY <1>0 DEF ServiceInvariant, TypeOK, Store!StoreTypeOK
  <2>3. checkpoint'[i] \in Nat
    BY <2>2, Constants
  <2>4. QED BY <1>2, <2>1, <2>3
<1>4. t \in 1..Len(tape[s])
  <2>1. SUFFICES ASSUME t \notin 1..Len(tape[s]) PROVE FALSE
    OBVIOUS
  <2>2. ExecuteTrade(s) /\ t = Len(tape[s]) + 1
    BY <1>0, <1>1, <1>3, <2>1, NewTrades
  <2>3. checkpoint' = checkpoint
    BY <2>2 DEF ExecuteTrade, storeVars
  <2>4. QED BY <1>2, <2>2, <2>3, SMTT(20)
<1>5. Relevant(i, t) /\ Accountable(i) /\ seen[i] \subseteq seen'[i]
  <2>1. Relevant(i, t) /\ seen[i] \subseteq seen'[i]
    BY <1>0, <1>4, RelevantKept, CheckpointMoves
  <2>2. (\A k \in DOMAIN events'[i] : events'[i][k].key[1] # "recovered") => TradeByTrade(i)
    BY <1>0, EvidenceKept
  <2>3. i \in doubtful => i \in doubtful'
    BY <1>0, EvidenceKept
  <2>4. QED BY <2>1, <2>2, <2>3 DEF Accountable, TradeByTrade, Store!Rows
<1>6. CASE checkpoint'[i] = checkpoint[i]
  BY <1>0, <1>5, <1>6 DEF NothingSkippedBelowCheckpoint
<1>7. ASSUME checkpoint'[i] # checkpoint[i], NEW x \in Symbols, Known(x), Known(x)', views[x].id = i
      PROVE  t \in seen'[i]
  <2>1. SymbolMove(x) /\ x = s
    BY <1>0, <1>7, Continued
  <2>2. checkpoint'[i] \in AtHandOf(job, x) /\ TodoOf(job, x) = {}
    BY <1>7, <2>1 DEF SymbolMove
  <2>3. Exact(x)
    BY <1>5, <1>7 DEF Exact
  <2>4. Evaluated(x, t)
    <3>1. t <= checkpoint'[i]
      OBVIOUS
    <3>2. JobIsGapless(x)
      BY <1>0
    <3>3. QED BY <1>4, <1>5, <1>7, <2>1, <2>2, <2>3, <3>1, <3>2 DEF JobIsGapless
  <2>5. QED BY <1>5, <1>7, <2>2, <2>4 DEF Evaluated
<1>8. QED BY <1>0, <1>6, <1>7, CheckpointMoves

LEMMA GreatestIsIn ==
  ASSUME NEW m \in Nat, NEW T, T \subseteq 1..m, T # {}
  PROVE  Greatest(T) \in T /\ \A x \in T : x <= Greatest(T)
<1> DEFINE R == {m - x : x \in T}
<1>1. R \subseteq Nat /\ R # {}
  <2>1. \A x \in T : m - x \in Nat
    OBVIOUS
  <2>2. QED BY <2>1
<1>2. Least(R) \in R /\ \A y \in R : Least(R) <= y
  BY <1>1, LeastIsIn
<1>3. PICK z \in T : Least(R) = m - z
  BY <1>2
<1>4. ASSUME NEW x \in T PROVE x <= z
  <2>1. m - z <= m - x
    BY <1>2, <1>3
  <2>2. QED BY <2>1
<1>5. QED BY <1>4 DEF Greatest

(* Proven coverage that leaves no doubt misses no trade since the anchor,  *)
(* up to what the answer ends with and up to what was received.            *)
LEMMA EstablishCovers ==
  ASSUME ServiceInvariant, NEW s \in Symbols, BufferRetains(s),
         NEW rest \in RestHistory(s), NEW t \in 1..Len(tape[s]), TimeOf(s, t) >= pending[s],
         CoverageProven(s, rest, Buffered(s, pending[s]), pending[s]),
         ~Uncertain(s, rest, Buffered(s, pending[s]), pending[s]),
         t <= received[s] \/ \E u \in rest : t <= u
  PROVE  t \in Merged(s, rest, Buffered(s, pending[s]), pending[s])
<1> DEFINE m == Len(tape[s])
           a == Least(rest)
           b == Greatest(rest)
<1>1. /\ m \in 1..MaxTrades /\ m \in Nat /\ MaxTrades \in Nat /\ RestLimit \in Nat /\ RestLag \in Nat
      /\ pending[s] \in Int /\ opened[s] \in Nat /\ received[s] \in Nat
  BY Facts, Constants, SMTT(20) DEF TapeFits, TypeOK, NoAnchor
<1>2. PICK last \in (m - RestLag)..m : rest = ((last - RestLimit + 1)..last) \cap 1..m
  BY DEF RestHistory
<1>3. /\ rest # {} /\ TimeOf(s, a) <= pending[s]
      /\ rest \cap Buffered(s, pending[s]) # {}
  BY DEF CoverageProven
<1>4. rest \subseteq 1..m /\ \A x, y \in rest : \A z \in 1..m : x <= z /\ z <= y => z \in rest
  BY <1>1, <1>2, SMTT(20)
<1>5. a \in rest /\ b \in rest /\ \A x \in rest : x <= b
  <2>1. rest \subseteq Nat
    BY <1>4
  <2>2. QED BY <1>1, <1>3, <1>4, <2>1, LeastIsIn, GreatestIsIn
<1> HIDE DEF a, b
<1>6. CASE t < a
  <2>1. TimeOf(s, t) <= TimeOf(s, a)
    BY <1>4, <1>5, <1>6, Facts DEF TapeFits
  <2>2. TimeOf(s, t) \in Nat /\ TimeOf(s, a) \in Nat
    BY <1>4, <1>5, Facts, ClockTyped, Constants
  <2>3. TimeOf(s, a) = pending[s] /\ TimeOf(s, t) = pending[s]
    BY <1>1, <1>3, <2>1, <2>2, SMTT(20)
  <2>4. t \in 1..(a - 1)
    BY <1>4, <1>5, <1>6
  <2>5. QED BY <2>3, <2>4 DEF Uncertain, a
<1>7. CASE a <= t /\ t <= b
  <2>1. t \in rest
    BY <1>4, <1>5, <1>7
  <2>2. QED BY <2>1 DEF Merged
<1>8. CASE b < t
  <2>1. t <= received[s]
    BY <1>4, <1>5, <1>8
  <2>2. opened[s] <= b
    <3>1. ~(b < opened[s])
      BY <1>3 DEF Uncertain, b
    <3>2. b \in Nat
      BY <1>1, <1>4, <1>5
    <3>3. QED BY <1>1, <3>1, <3>2
  <2>3. PICK x \in rest : x \in buffer[s]
    BY <1>3 DEF Buffered
  <2>4. t \in (opened[s] + 1)..received[s] /\ x <= t
    <3>1. x \in Nat /\ b \in Nat /\ x <= b /\ t \in Nat
      BY <1>1, <1>4, <1>5, <2>3
    <3> HIDE DEF m
    <3>2. QED BY <1>1, <1>8, <2>1, <2>2, <3>1, SMTT(20)
  <2>5. t \in buffer[s]
    BY <2>3, <2>4 DEF BufferRetains
  <2>6. QED BY <2>5 DEF Merged, Buffered
<1>9. QED BY <1>4, <1>5, <1>6, <1>7, <1>8

LEMMA AtHandTyped ==
  ASSUME ServiceInvariant, NEW s \in Symbols
  PROVE  /\ AtHandOf(job, s) \subseteq 0..Len(tape[s])
         /\ TodoOf(job, s) \subseteq 1..Len(tape[s])
         /\ RecoversFor(job, s) => Known(s) /\ pending[s] >= 0
<1>1. Len(tape[s]) \in Nat
  BY Facts, ClockTyped
<1>2. QED BY <1>1, Facts, SMTT(20) DEF AtHandOf, TodoOf, RecoversFor, JobFits, Busy

(* The trade at the head of the queue of a covered symbol is the next one. *)
LEMMA HeadIsNext ==
  ASSUME ServiceInvariant, NEW s \in Symbols, Heard("trade", s),
         NEW t \in Nat, t < Head(queue).trade
  PROVE  ~Queued(s, t) /\ ~LossAnnounced(s, t)
<1> DEFINE q == Head(queue).trade
<1>1. /\ queue # <<>> /\ queue \in Seq(StreamEvents) /\ 1 \in DOMAIN queue /\ Head(queue) = queue[1]
      /\ queue[1].sym = s /\ queue[1].type = "trade" /\ queue[1].trade = q
  BY Facts, SMTT(20) DEF Heard, IsEvent, TypeOK
<1>2. /\ \A k \in DOMAIN queue : k \in Nat /\ (k # 1 => 1 < k)
      /\ \A k \in DOMAIN queue : queue[k].trade \in Nat
  <2>1. \A k \in DOMAIN queue : k \in Nat /\ (k # 1 => 1 < k) /\ queue[k] \in StreamEvents
    BY <1>1
  <2>2. QED BY <2>1, Constants DEF StreamEvents
<1>3. q \in Nat
  BY <1>1, <1>2
<1> HIDE DEF q
<1>4. t < q
  BY DEF q
<1>5. \A k \in DOMAIN queue : IsEvent(queue[k], "trade", s) => q <= queue[k].trade
  <2>1. \A k \in DOMAIN queue :
          1 < k /\ queue[1].sym = queue[k].sym /\ queue[1].type = "trade" /\ queue[k].type = "trade"
            => queue[1].trade < queue[k].trade
    BY <1>1, Facts DEF EventsInOrder
  <2>2. SUFFICES ASSUME NEW k \in DOMAIN queue, queue[k].sym = s, queue[k].type = "trade"
                 PROVE  q <= queue[k].trade
    BY DEF IsEvent
  <2>3. CASE k = 1
    BY <1>1, <1>3, <2>3
  <2>4. CASE k # 1
    <3>1. queue[1].trade < queue[k].trade
      BY <1>1, <1>2, <2>1, <2>2, <2>4
    <3>2. queue[k].trade \in Nat
      BY <1>2
    <3>3. QED BY <1>1, <1>3, <3>1, <3>2
  <2>5. QED BY <2>3, <2>4
<1>6. InOutgoing("trade", s) => q < outgoing[s][1].trade
  BY <1>1, <1>3, Facts DEF EventsInOrder, InOutgoing
<1>7. ~Queued(s, t)
  <2>1. ASSUME NEW k \in DOMAIN queue, IsEvent(queue[k], "trade", s), queue[k].trade = t
        PROVE  FALSE
    BY <1>3, <1>4, <1>5, <2>1
  <2>2. ASSUME InOutgoing("trade", s), outgoing[s][1].trade = t PROVE FALSE
    BY <1>3, <1>4, <1>6, <2>2
  <2>3. QED BY <2>1, <2>2 DEF Queued
<1>8. IsEvent(queue[1], "trade", s) /\ ~(queue[1].trade < t)
  BY <1>1, <1>3, <1>4 DEF IsEvent
<1>9. ~LossAnnounced(s, t)
  <2>1. \A k \in DOMAIN queue : IsEvent(queue[k], "disconnected", s) => 1 < k
    BY <1>1, <1>2 DEF IsEvent
  <2>2. QED BY <1>1, <1>8, <2>1 DEF LossAnnounced
<1>10. QED BY <1>7, <1>9

LEMMA JobStep ==
  ASSUME CoverageInvariant, [Next]_vars, NEW s \in Symbols
  PROVE  JobIsGapless(s)'
<1>0. /\ ServiceInvariant /\ ServiceInvariant' /\ BufferRetains(s)
      /\ Gapless(s) /\ AnchorIsSound(s) /\ JobIsGapless(s)
  BY ServiceStep DEF CoverageInvariant
<1> SUFFICES ASSUME Exact(s)', NEW t \in 1..Len(tape'[s]), NEW u \in AtHandOf(job, s)', t <= u,
                    Relevant(views[s].id, t)'
             PROVE  t \in seen'[views'[s].id] \cup TodoOf(job, s)'
  BY DEF JobIsGapless, Evaluated
<1>1. AtHandOf(job, s)' = AtHandOf(job', s) /\ TodoOf(job, s)' = TodoOf(job', s)
  BY DEF AtHandOf, TodoOf
<1>2. Known(s)' /\ Known(s)
  BY <1>0, <1>1, SymbolMoves, JobsAbout DEF Exact
<1>3. PICK i : i = views[s].id
  OBVIOUS
<1>4. /\ i \in Signals /\ SymbolOf[i] = s /\ views'[s].id = i
      /\ SymbolMove(s) /\ Exact(s) /\ seen[i] \subseteq seen'[i]
  BY <1>0, <1>2, <1>3, Continued
<1>5. t \in 1..Len(tape[s])
  <2>1. SUFFICES ASSUME t \notin 1..Len(tape[s]) PROVE FALSE
    OBVIOUS
  <2>2. t = Len(tape[s]) + 1 /\ ExecuteTrade(s) /\ Len(tape[s]) \in Nat
    BY <1>0, <2>1, NewTrades, TapeGrows
  <2>3. u \in 0..Len(tape[s])
    <3>1. job' = job
      BY <2>2 DEF ExecuteTrade
    <3>2. QED BY <1>0, <1>1, <3>1, AtHandTyped
  <2>4. QED BY <2>2, <2>3
<1>6. Relevant(i, t)
  <2>1. Relevant(i, t)'
    BY <1>4 DEF Relevant
  <2>2. QED BY <1>0, <1>4, <1>5, <2>1, RelevantKept
<1>7. t \in seen[i] \cup TodoOf(job, s) => t \in seen'[i] \cup TodoOf(job', s)
  BY <1>3, <1>4 DEF SymbolMove
<1>8. CASE AtHandOf(job', s) \subseteq AtHandOf(job, s)
  BY <1>0, <1>1, <1>3, <1>4, <1>5, <1>6, <1>7, <1>8 DEF JobIsGapless, Evaluated
<1>9. CASE TakesUp(s)
  <2>1. /\ Heard("trade", s) /\ pending[s] = NoAnchor /\ job = IdleJob /\ agenda = {}
        /\ u = Head(queue).trade /\ u \in seen'[i]
    BY <1>1, <1>3, <1>9 DEF TakesUp
  <2>2. link[s] # "off"
    BY <1>0, <1>2, <2>1, Facts DEF AgendaFits, OnAgenda
  <2>3. u \in 1..received[s] /\ received[s] \in Nat
    <3>1. /\ queue \in Seq(StreamEvents) /\ 1 \in DOMAIN queue /\ Head(queue) = queue[1]
          /\ queue[1].sym = s /\ queue[1].type = "trade"
      BY <1>0, <2>1, Facts, SMTT(20) DEF Heard, IsEvent, TypeOK
    <3>2. u \in 1..received[s]
      BY <1>0, <2>1, <3>1, Facts DEF EventsInOrder
    <3>3. QED BY <1>0, <3>2, Facts, Constants DEF TypeOK
  <2>4. CASE t < u
    <3>1. t \in 1..received[s] /\ t \in Nat
      BY <1>5, <2>3, <2>4, SMTT(20)
    <3>2. Evaluated(s, t) \/ Queued(s, t) \/ LossAnnounced(s, t)
      BY <1>0, <1>3, <1>4, <1>6, <2>1, <2>2, <3>1 DEF Gapless
    <3>3. Evaluated(s, t)
      BY <1>0, <2>1, <2>4, <3>1, <3>2, HeadIsNext
    <3>4. QED BY <1>1, <1>3, <1>4, <1>7, <3>3 DEF Evaluated
  <2>5. CASE t = u
    BY <1>4, <2>1, <2>5
  <2>6. QED BY <1>5, <2>3, <2>4, <2>5
<1>10. CASE Settled(s)
  <2>1. Accountable(views[s].id)'
    BY DEF Exact
  <2>2. PICK rest \in RestHistory(s) :
          /\ CoverageProven(s, rest, Buffered(s, pending[s]), pending[s])
          /\ ~Uncertain(s, rest, Buffered(s, pending[s]), pending[s])
          /\ TodoOf(job', s) = Merged(s, rest, Buffered(s, pending[s]), pending[s])
    BY <1>10, <2>1 DEF Settled
  <2>3. TimeOf(s, t) \in Nat /\ pending[s] \in Int
    <3>1. TimeOf(s, t) \in Nat
      BY <1>0, <1>5, TapeGrows
    <3>2. pending \in [Symbols -> 0..MaxTime \cup {NoAnchor}]
      BY <1>0, Facts DEF TypeOK
    <3>3. QED BY <3>1, <3>2, Constants DEF NoAnchor
  <2>4. CASE TimeOf(s, t) >= pending[s]
    <3>1. u \in TodoOf(job', s) \cup {0}
      BY <1>1, <1>10, <2>1 DEF Settled
    <3>2. u \in rest \cup buffer[s]
      BY <1>5, <2>2, <3>1 DEF Merged, Buffered
    <3>3. t <= received[s] \/ \E v \in rest : t <= v
      <4>1. CASE u \in buffer[s]
        <5>1. u <= received[s] /\ received[s] \in Nat /\ u \in Nat
          BY <1>0, <4>1, Facts, Constants DEF BufferRetains, TypeOK
        <5>2. QED BY <1>5, <5>1
      <4>2. QED BY <3>2, <4>1
    <3>4. t \in TodoOf(job', s)
      BY <1>0, <1>5, <2>2, <2>4, <3>3, EstablishCovers
    <3>5. QED BY <1>1, <3>4
  <2>5. CASE TimeOf(s, t) < pending[s]
    BY <1>0, <1>3, <1>4, <1>5, <1>6, <2>5 DEF AnchorIsSound
  <2>6. QED BY <2>3, <2>4, <2>5, SMTT(20)
<1>11. QED BY <1>4, <1>8, <1>9, <1>10 DEF SymbolMove

-----------------------------------------------------------------------------
(* What a step does to the stream of a symbol. *)

(* Events stay in the queue, and at most one joins them at its end.        *)
QueueAdds(e) ==
  /\ \A k \in DOMAIN queue : k \in DOMAIN queue' /\ queue'[k] = queue[k]
  /\ \A k \in DOMAIN queue' \ DOMAIN queue :
       queue'[k] = e /\ \A j \in DOMAIN queue : j < k

Joins(e) == \E k \in DOMAIN queue' : queue'[k] = e /\ k \notin DOMAIN queue

SameStream(s) ==
  link'[s] = link[s] /\ received'[s] = received[s] /\ buffer'[s] = buffer[s]

(* What the stream of s says. *)
Says(s, e) ==
  \/ /\ e.type = "trade" /\ e.trade = received[s] + 1
     /\ received'[s] = received[s] + 1 /\ buffer'[s] # {}
     /\ link'[s] \in {"buffered", "ready"}
  \/ /\ e.type = "ready" /\ link'[s] = "ready"
     /\ received'[s] = received[s] /\ buffer'[s] = buffer[s]
  \/ /\ e.type = "disconnected" /\ link'[s] = "down"
     /\ received'[s] = received[s] /\ buffer'[s] = buffer[s]

ChannelMove(s, e) ==
  /\ QueueAdds(e)
  /\ \/ e.sym # s /\ SameStream(s) /\ outgoing'[s] = outgoing[s]
     \/ /\ outgoing[s] # <<>> /\ e = outgoing[s][1] /\ Joins(e)
        /\ outgoing'[s] = <<>> /\ SameStream(s)
     \/ /\ outgoing[s] = <<>> /\ link[s] # "off" /\ e.sym = s /\ Says(s, e)
        /\ \/ Joins(e) /\ outgoing'[s] = <<>>
           \/ UNCHANGED queue /\ outgoing'[s] = <<e>>
     \/ /\ outgoing[s] = <<>> /\ link[s] = "down" /\ UNCHANGED queue
        /\ outgoing'[s] = <<>> /\ link'[s] = "open"
        /\ received'[s] = Len(tape[s]) /\ buffer'[s] = buffer[s]

LEMMA QueueAddsOne ==
  ASSUME ServiceInvariant, NEW e \in StreamEvents
  PROVE  /\ UNCHANGED queue => QueueAdds(e)
         /\ queue' = Append(queue, e) => QueueAdds(e) /\ Joins(e)
<1>1. queue \in Seq(StreamEvents)
  BY Facts DEF TypeOK
<1>2. UNCHANGED queue => QueueAdds(e)
  BY DEF QueueAdds
<1>3. ASSUME queue' = Append(queue, e) PROVE QueueAdds(e) /\ Joins(e)
  <2>1. /\ Len(queue) \in Nat /\ DOMAIN queue = 1..Len(queue)
        /\ DOMAIN queue' = 1..(Len(queue) + 1)
        /\ \A k \in 1..Len(queue) : queue'[k] = queue[k]
        /\ queue'[Len(queue) + 1] = e
    BY <1>1, <1>3, QueueAppend
  <2>2. \A k \in DOMAIN queue' \ DOMAIN queue : k = Len(queue) + 1
    BY <2>1
  <2>3. /\ Len(queue) + 1 \in DOMAIN queue' /\ Len(queue) + 1 \notin DOMAIN queue
        /\ \A j \in DOMAIN queue : j < Len(queue) + 1
    BY <2>1
  <2>4. QED BY <2>1, <2>2, <2>3 DEF QueueAdds, Joins
<1>4. QED BY <1>2, <1>3

LEMMA StreamMoves ==
  ASSUME ServiceInvariant, Stream, NEW s \in Symbols
  PROVE  \E e \in StreamEvents : ChannelMove(s, e)
<1>1. PICK x \in Symbols : PutWaiting(x) \/ Connect(x) \/ Receive(x) \/ MarkReady(x) \/ Disconnect(x)
  BY DEF Stream
<1>2. /\ link \in [Symbols -> {"off", "down", "open", "buffered", "ready"}]
      /\ received \in [Symbols -> 0..MaxTrades]
      /\ buffer \in [Symbols -> SUBSET (1..MaxTrades)]
      /\ outgoing \in [Symbols -> Seq(StreamEvents)] /\ outgoing[x] \in Seq(StreamEvents)
      /\ received[x] \in Nat
  BY Facts, Constants, SMTT(20) DEF TypeOK
<1>3. Len(tape[x]) <= MaxTrades /\ Len(tape[x]) \in Nat
  BY Facts, ClockTyped, Constants DEF TapeFits
<1>4. ASSUME NEW e \in StreamEvents, e.sym = x, Emit(x, e), outgoing[x] = <<>>
      PROVE  /\ QueueAdds(e) /\ (s # x => outgoing'[s] = outgoing[s])
             /\ \/ Joins(e) /\ outgoing'[x] = <<>>
                \/ UNCHANGED queue /\ outgoing'[x] = <<e>>
  BY <1>2, <1>4, QueueAddsOne DEF Emit
<1>5. CASE PutWaiting(x)
  <2> DEFINE e == outgoing[x][1]
  <2>1. /\ outgoing[x] # <<>> /\ queue' = Append(queue, e)
        /\ outgoing' = [outgoing EXCEPT ![x] = <<>>]
        /\ UNCHANGED <<link, received, buffer>>
    BY <1>5 DEF PutWaiting
  <2>2. e \in StreamEvents /\ e.sym = x
    BY <1>2, <2>1, Facts, SMTT(20) DEF EventsInOrder
  <2>3. outgoing'[x] = <<>> /\ (s # x => outgoing'[s] = outgoing[s])
    BY <1>2, <2>1
  <2>4. s = x => e = outgoing[s][1]
    OBVIOUS
  <2> HIDE DEF e
  <2>5. QueueAdds(e) /\ Joins(e) /\ SameStream(s)
    BY <2>1, <2>2, QueueAddsOne DEF SameStream
  <2>6. QED BY <2>1, <2>2, <2>3, <2>4, <2>5 DEF ChannelMove
<1>6. CASE Connect(x)
  <2> DEFINE e == Event("ready", x, 0)
  <2>1. e \in StreamEvents /\ e.sym = x
    BY Constants DEF Event, StreamEvents
  <2> HIDE DEF e
  <2>2. /\ outgoing[x] = <<>> /\ link[x] = "down" /\ UNCHANGED <<buffer, outgoing, queue>>
        /\ link' = [link EXCEPT ![x] = "open"]
        /\ received' = [received EXCEPT ![x] = Len(tape[x])]
    BY <1>6 DEF Connect, StreamTask
  <2>3. QueueAdds(e)
    BY <2>1, <2>2, QueueAddsOne
  <2>4. CASE s = x
    BY <1>2, <2>1, <2>2, <2>3, <2>4 DEF ChannelMove
  <2>5. CASE s # x
    BY <1>2, <2>1, <2>2, <2>3, <2>5 DEF ChannelMove, SameStream
  <2>6. QED BY <2>4, <2>5
<1>7. CASE Receive(x)
  <2> DEFINE t == received[x] + 1
             e == Event("trade", x, t)
             b == Pushed(buffer[x], t)
  <2>1. /\ outgoing[x] = <<>> /\ link[x] \in {"open", "buffered", "ready"} /\ Emit(x, e)
        /\ received[x] < Len(tape[x])
        /\ received' = [received EXCEPT ![x] = t] /\ buffer' = [buffer EXCEPT ![x] = b]
        /\ link' = [link EXCEPT ![x] = IF link[x] = "open" THEN "buffered" ELSE link[x]]
    BY <1>7 DEF Receive, StreamTask
  <2>2. t \in 0..MaxTrades /\ b # {}
    BY <1>2, <1>3, <2>1, Constants DEF Pushed
  <2>3. e \in StreamEvents /\ e.sym = x /\ e.type = "trade" /\ e.trade = t
    BY <2>2 DEF Event, StreamEvents
  <2> HIDE DEF e, b
  <2>4. /\ QueueAdds(e) /\ (s # x => outgoing'[s] = outgoing[s])
        /\ \/ Joins(e) /\ outgoing'[x] = <<>>
           \/ UNCHANGED queue /\ outgoing'[x] = <<e>>
    BY <1>4, <2>1, <2>3
  <2>5. CASE s = x
    <3>1. Says(s, e)
      BY <1>2, <2>1, <2>2, <2>3, <2>5 DEF Says
    <3>2. link[s] # "off"
      BY <2>1, <2>5
    <3>3. QED BY <2>1, <2>3, <2>4, <2>5, <3>1, <3>2 DEF ChannelMove
  <2>6. CASE s # x
    <3>1. SameStream(s)
      BY <1>2, <2>1, <2>6 DEF SameStream
    <3>2. QED BY <2>3, <2>4, <2>6, <3>1 DEF ChannelMove
  <2>7. QED BY <2>5, <2>6
<1>8. CASE MarkReady(x) \/ Disconnect(x)
  <2>1. PICK type \in {"ready", "disconnected"} :
          /\ outgoing[x] = <<>> /\ link[x] # "off" /\ Emit(x, Event(type, x, 0))
          /\ link' = [link EXCEPT ![x] = IF type = "ready" THEN "ready" ELSE "down"]
          /\ UNCHANGED <<received, buffer>>
    BY <1>8 DEF MarkReady, Disconnect, StreamTask
  <2> DEFINE e == Event(type, x, 0)
  <2>2. e \in StreamEvents /\ e.sym = x /\ e.type = type
    BY Constants DEF Event, StreamEvents
  <2> HIDE DEF e
  <2>3. /\ QueueAdds(e) /\ (s # x => outgoing'[s] = outgoing[s])
        /\ \/ Joins(e) /\ outgoing'[x] = <<>>
           \/ UNCHANGED queue /\ outgoing'[x] = <<e>>
    <3>1. Emit(x, e) /\ outgoing[x] = <<>>
      BY <2>1 DEF e
    <3>2. QED BY <1>4, <2>2, <3>1
  <2>4. CASE s = x
    <3>1. Says(s, e)
      BY <1>2, <2>1, <2>2, <2>4 DEF Says
    <3>2. QED BY <2>1, <2>2, <2>3, <2>4, <3>1 DEF ChannelMove
  <2>5. CASE s # x
    <3>1. SameStream(s)
      BY <1>2, <2>1, <2>5 DEF SameStream
    <3>2. QED BY <2>2, <2>3, <2>5, <3>1 DEF ChannelMove
  <2>6. QED BY <2>4, <2>5
<1>9. QED BY <1>1, <1>5, <1>6, <1>7, <1>8

(* A stream leaves a queue of events behind. *)
LEMMA StreamQueueTyped ==
  ASSUME ServiceInvariant, Stream
  PROVE  queue' \in Seq(StreamEvents) /\ \A j \in DOMAIN queue' : j \in Nat
<1>1. queue' \in Seq(StreamEvents)
  BY StreamStep DEF StreamsTyped
<1>2. QED BY <1>1

(* The stream of a symbol takes nothing back. *)
LEMMA NewsKept ==
  ASSUME ServiceInvariant, Stream, NEW s \in Symbols,
         NEW e \in StreamEvents, ChannelMove(s, e), NEW t
  PROVE  /\ Queued(s, t) => Queued(s, t)'
         /\ LossAnnounced(s, t) => LossAnnounced(s, t)'
<1>1. QueueAdds(e)
  BY DEF ChannelMove
<1>2. outgoing[s] # <<>> => \/ outgoing'[s] = outgoing[s] /\ e.sym # s
                            \/ e = outgoing[s][1] /\ e.sym = s /\ Joins(e)
  BY Facts DEF ChannelMove, EventsInOrder
<1>3. ASSUME NEW k \in DOMAIN queue,
             \A j \in DOMAIN queue : j < k /\ IsEvent(queue[j], "trade", s) => queue[j].trade < t
      PROVE  \A j \in DOMAIN queue' : j < k /\ IsEvent(queue'[j], "trade", s) => queue'[j].trade < t
  <2>1. \A j \in DOMAIN queue' : j < k => j \in DOMAIN queue
    <3>1. queue \in Seq(StreamEvents)
      BY Facts DEF TypeOK
    <3>2. \A j, l \in DOMAIN queue : j \in Nat /\ l \in Nat
      BY <3>1
    <3>3. \A j \in DOMAIN queue' \ DOMAIN queue : k < j
      BY <1>1 DEF QueueAdds
    <3>4. \A j \in DOMAIN queue' : j \in Nat
      BY StreamQueueTyped
    <3>5. QED BY <3>2, <3>3, <3>4
  <2>2. QED BY <1>1, <1>3, <2>1 DEF QueueAdds
<1>4. ASSUME Queued(s, t) PROVE Queued(s, t)'
  <2>1. CASE \E k \in DOMAIN queue : IsEvent(queue[k], "trade", s) /\ queue[k].trade = t
    BY <1>1, <2>1 DEF QueueAdds, Queued
  <2>2. CASE InOutgoing("trade", s) /\ outgoing[s][1].trade = t
    BY <1>2, <2>2 DEF InOutgoing, Queued, Joins, IsEvent
  <2>3. QED BY <1>4, <2>1, <2>2 DEF Queued
<1>5. ASSUME LossAnnounced(s, t) PROVE LossAnnounced(s, t)'
  <2>1. ASSUME NEW k \in DOMAIN queue, IsEvent(queue[k], "disconnected", s),
               \A j \in DOMAIN queue : j < k /\ IsEvent(queue[j], "trade", s) => queue[j].trade < t
        PROVE  LossAnnounced(s, t)'
    BY <1>1, <1>3, <2>1 DEF QueueAdds, LossAnnounced
  <2>2. CASE /\ InOutgoing("disconnected", s)
             /\ \A j \in DOMAIN queue : IsEvent(queue[j], "trade", s) => queue[j].trade < t
    <3>1. CASE outgoing'[s] = outgoing[s] /\ e.sym # s
      <4>1. \A j \in DOMAIN queue' : IsEvent(queue'[j], "trade", s) => queue'[j].trade < t
        BY <1>1, <2>2, <3>1 DEF QueueAdds, IsEvent
      <4>2. InOutgoing("disconnected", s)'
        BY <2>2, <3>1 DEF InOutgoing
      <4>3. QED BY <4>1, <4>2 DEF LossAnnounced
    <3>2. CASE e = outgoing[s][1] /\ e.sym = s /\ Joins(e)
      <4>1. e.type = "disconnected"
        BY <2>2, <3>2 DEF InOutgoing
      <4>2. PICK k \in DOMAIN queue' : queue'[k] = e
        BY <3>2 DEF Joins
      <4>3. \A j \in DOMAIN queue' : IsEvent(queue'[j], "trade", s) => queue'[j].trade < t
        BY <1>1, <2>2, <4>1 DEF QueueAdds, IsEvent
      <4>4. QED BY <3>2, <4>1, <4>2, <4>3 DEF LossAnnounced, IsEvent
    <3>3. QED BY <1>2, <2>2, <3>1, <3>2 DEF InOutgoing
  <2>3. QED BY <1>5, <2>1, <2>2 DEF LossAnnounced
<1>6. QED BY <1>4, <1>5

LEMMA StreamLeaves ==
  ASSUME Stream
  PROVE  UNCHANGED <<createdAt, events, tape, views, pending, streamReady, job, seen, doubtful>>
  BY DEF Stream, PutWaiting, Connect, Receive, MarkReady, Disconnect, UnchangedByStream, storeVars,
         memoryVars

LEMMA StreamGapless ==
  ASSUME CoverageInvariant, Stream, NEW s \in Symbols
  PROVE  Gapless(s)'
<1>0. ServiceInvariant /\ Gapless(s) /\ LossIsNoticed(s)
  BY DEF CoverageInvariant
<1>1. UNCHANGED <<createdAt, events, tape, views, pending, streamReady, job, seen, doubtful>>
  BY StreamLeaves
<1>2. PICK e \in StreamEvents : ChannelMove(s, e)
  BY <1>0, StreamMoves
<1>3. /\ (Exact(s)' => Exact(s)) /\ \A t : Relevant(views[s].id, t)' => Relevant(views[s].id, t)
      /\ \A t : Evaluated(s, t) => Evaluated(s, t)'
  BY <1>1 DEF Exact, Known, Accountable, TradeByTrade, Store!Rows, Relevant, TimeOf, Evaluated, TodoOf
<1>4. link'[s] # "off" => link[s] # "off"
  BY <1>2 DEF ChannelMove, SameStream
<1> SUFFICES ASSUME Exact(s), pending[s] = NoAnchor, link[s] # "off"
             PROVE  /\ buffer'[s] # {}
                    /\ \A t \in 1..received'[s] : Relevant(views[s].id, t) =>
                         Evaluated(s, t)' \/ Queued(s, t)' \/ LossAnnounced(s, t)'
  BY <1>1, <1>3, <1>4 DEF Gapless
<1>5. buffer[s] # {} /\ received[s] \in Nat
  BY <1>0, Facts, Constants DEF Gapless, TypeOK
<1>6. buffer'[s] # {}
  BY <1>2, <1>5 DEF ChannelMove, SameStream, Says
<1>7. ASSUME NEW t \in 1..received[s], Relevant(views[s].id, t)
      PROVE  Evaluated(s, t)' \/ Queued(s, t)' \/ LossAnnounced(s, t)'
  <2>1. Evaluated(s, t) \/ Queued(s, t) \/ LossAnnounced(s, t)
    BY <1>0, <1>7 DEF Gapless
  <2>2. QED BY <1>0, <1>2, <1>3, <2>1, NewsKept
<1>8. CASE received'[s] = received[s]
  BY <1>6, <1>7, <1>8
<1>9. CASE e.type = "trade" /\ e.sym = s /\ e.trade = received[s] + 1
           /\ received'[s] = received[s] + 1
           /\ (Joins(e) \/ outgoing'[s] = <<e>>)
  <2>1. ASSUME NEW t, t = e.trade PROVE Queued(s, t)'
    <3>1. CASE Joins(e)
      BY <1>9, <2>1, <3>1 DEF Queued, Joins, IsEvent
    <3>2. CASE outgoing'[s] = <<e>>
      <4>1. outgoing'[s] # <<>> /\ outgoing'[s][1] = e
        BY <3>2
      <4>2. QED BY <1>9, <2>1, <4>1 DEF Queued, InOutgoing
    <3>3. QED BY <1>9, <3>1, <3>2
  <2>2. \A t \in 1..received'[s] : t \in 1..received[s] \/ t = e.trade
    BY <1>5, <1>9
  <2>3. QED BY <1>6, <1>7, <2>1, <2>2
<1>10. CASE /\ outgoing[s] = <<>> /\ link[s] = "down" /\ UNCHANGED queue
            /\ received'[s] = Len(tape[s])
  <2>1. PICK k \in DOMAIN queue : IsEvent(queue[k], "disconnected", s)
    BY <1>0, <1>5, <1>10 DEF LossIsNoticed, LossIsNews, NothingReady, InOutgoing
  <2>2. ASSUME NEW t, t \notin 1..received[s], t \in Nat, 1 <= t PROVE LossAnnounced(s, t)'
    <3>1. \A j \in DOMAIN queue : IsEvent(queue[j], "trade", s) =>
            queue[j].trade \in 1..received[s]
      BY <1>0, Facts DEF EventsInOrder, IsEvent
    <3>2. \A j \in DOMAIN queue : IsEvent(queue[j], "trade", s) => queue[j].trade < t
      BY <1>5, <2>2, <3>1
    <3>3. QED BY <1>10, <2>1, <3>2 DEF LossAnnounced
  <2>3. \A t \in 1..received'[s] : t \in Nat /\ 1 <= t
    BY <1>0, <1>10, TapeGrows, Facts, ClockTyped
  <2>4. QED BY <1>6, <1>7, <2>2, <2>3
<1>11. QED BY <1>2, <1>8, <1>9, <1>10 DEF ChannelMove, SameStream, Says

LEMMA StreamLossNoticed ==
  ASSUME CoverageInvariant, Stream, NEW s \in Symbols
  PROVE  LossIsNoticed(s)' /\ StreamInStep(s)'
<1>0. ServiceInvariant /\ LossIsNoticed(s) /\ StreamInStep(s)
  BY DEF CoverageInvariant
<1>1. UNCHANGED <<views, pending, streamReady, job>>
  BY StreamLeaves
<1>2. PICK e \in StreamEvents : ChannelMove(s, e)
  BY <1>0, StreamMoves
<1>3. QueueAdds(e) /\ \A k \in DOMAIN queue' : k \in Nat
  BY <1>0, <1>2, StreamQueueTyped DEF ChannelMove
<1>4. StreamInStep(s)'
  BY <1>0, <1>2 DEF ChannelMove, SameStream, Says, StreamInStep, InOutgoing
<1>5. ASSUME ~(e.sym = s /\ e.type = "ready"), outgoing'[s] = outgoing[s] \/ Joins(outgoing[s][1])
      PROVE  LossIsNews(s) \/ NothingReady(s) => LossIsNews(s)' \/ NothingReady(s)'
  <2>1. ASSUME NEW k \in DOMAIN queue, IsEvent(queue[k], "disconnected", s),
               \A l \in DOMAIN queue : k < l => ~IsEvent(queue[l], "ready", s)
        PROVE  LossIsNews(s)'
    BY <1>3, <1>5, <2>1 DEF QueueAdds, LossIsNews, IsEvent
  <2>2. CASE InOutgoing("disconnected", s) /\ outgoing'[s] = outgoing[s]
    BY <2>2 DEF LossIsNews, InOutgoing
  <2>3. CASE InOutgoing("disconnected", s) /\ Joins(outgoing[s][1])
    <3>1. PICK k \in DOMAIN queue' : queue'[k] = outgoing[s][1] /\ k \notin DOMAIN queue
      BY <2>3 DEF Joins
    <3>2. queue'[k].type = "disconnected" /\ queue'[k].sym = s
      BY <1>0, <2>3, <3>1, Facts DEF InOutgoing, EventsInOrder
    <3>3. \A l \in DOMAIN queue' : k < l => l \notin DOMAIN queue
      <4>1. \A j \in DOMAIN queue : j < k /\ j \in DOMAIN queue'
        BY <1>3, <3>1 DEF QueueAdds
      <4>2. QED BY <1>3, <4>1
    <3>4. \A l \in DOMAIN queue' : k < l => ~IsEvent(queue'[l], "ready", s)
      BY <1>3, <1>5, <3>3 DEF QueueAdds, IsEvent
    <3>5. QED BY <3>2, <3>4 DEF LossIsNews, IsEvent
  <2>4. CASE NothingReady(s)
    <3>1. ~InQueue("ready", s)'
      BY <1>3, <1>5, <2>4 DEF NothingReady, InQueue, IsEvent, QueueAdds
    <3>2. QED BY <1>1, <2>4, <3>1 DEF NothingReady, RecoversFor
  <2>5. QED BY <1>5, <2>1, <2>2, <2>3, <2>4 DEF LossIsNews
<1>6. ASSUME link'[s] = "down", buffer'[s] # {} PROVE LossIsNews(s)' \/ NothingReady(s)'
  <2>1. CASE e.sym # s /\ SameStream(s) /\ outgoing'[s] = outgoing[s]
    BY <1>0, <1>5, <1>6, <2>1 DEF LossIsNoticed, SameStream
  <2>2. CASE outgoing[s] # <<>> /\ e = outgoing[s][1] /\ Joins(e) /\ SameStream(s)
    <3>1. ~(e.type = "ready")
      BY <1>0, <1>6, <2>2 DEF StreamInStep, InOutgoing, SameStream
    <3>2. QED BY <1>0, <1>5, <1>6, <2>2, <3>1 DEF LossIsNoticed, SameStream
  <2>3. CASE e.sym = s /\ e.type = "disconnected" /\ Joins(e)
    <3>1. PICK k \in DOMAIN queue' : queue'[k] = e /\ k \notin DOMAIN queue
      BY <2>3 DEF Joins
    <3>2. \A l \in DOMAIN queue' : k < l => l \notin DOMAIN queue
      <4>1. \A j \in DOMAIN queue : j < k /\ j \in DOMAIN queue'
        BY <1>3, <3>1 DEF QueueAdds
      <4>2. QED BY <1>3, <4>1
    <3>3. \A l \in DOMAIN queue' : k < l => ~IsEvent(queue'[l], "ready", s)
      BY <1>3, <2>3, <3>2 DEF QueueAdds, IsEvent
    <3>4. QED BY <2>3, <3>1, <3>3 DEF LossIsNews, IsEvent
  <2>4. CASE e.sym = s /\ e.type = "disconnected" /\ outgoing'[s] = <<e>>
    BY <2>4 DEF LossIsNews, InOutgoing
  <2>5. QED BY <1>2, <1>6, <2>1, <2>2, <2>3, <2>4 DEF ChannelMove, Says
<1>7. QED BY <1>4, <1>6 DEF LossIsNoticed

(* A step that is not of the streams can cancel one or start it.           *)
LEMMA QuietMoves ==
  ASSUME ServiceInvariant, [Next]_vars, ~Stream, NEW s \in Symbols
  PROVE  \/ link'[s] = "off" /\ buffer'[s] = {} /\ outgoing'[s] = <<>>
         \/ /\ link[s] = "off" /\ Known(s) /\ link'[s] = "down" /\ pending'[s] = Anchor(s)
            /\ buffer'[s] = buffer[s] /\ outgoing'[s] = outgoing[s]
         \/ SameStream(s) /\ outgoing'[s] = outgoing[s]
<1>1. QuietStreams
  BY StreamsAreQuiet
<1>2. /\ link \in [Symbols -> {"off", "down", "open", "buffered", "ready"}]
      /\ pending \in [Symbols -> 0..MaxTime \cup {NoAnchor}]
  BY Facts DEF TypeOK
<1>3. CASE UNCHANGED streamVars
  BY <1>3 DEF streamVars, SameStream
<1>4. ASSUME NEW S \in SUBSET Symbols, Unsubscribed(S)
      PROVE  \/ link'[s] = "off" /\ buffer'[s] = {} /\ outgoing'[s] = <<>>
             \/ SameStream(s) /\ outgoing'[s] = outgoing[s]
  BY <1>4 DEF Unsubscribed, SameStream
<1>5. ASSUME NEW x \in Symbols, Subscribes(x)
      PROVE  \/ /\ link[s] = "off" /\ Known(s) /\ link'[s] = "down" /\ pending'[s] = Anchor(s)
                /\ buffer'[s] = buffer[s] /\ outgoing'[s] = outgoing[s]
             \/ SameStream(s) /\ outgoing'[s] = outgoing[s]
  BY <1>2, <1>5 DEF Subscribes, SameStream
<1>6. QED BY <1>1, <1>3, <1>4, <1>5 DEF QuietStreams

(* The service takes an event from the head of the queue, or none.         *)
LEMMA TakenFromQueue ==
  ASSUME ServiceInvariant, NEW s \in Symbols, QueueMove(s), queue' # queue
  PROVE  /\ queue # <<>> /\ queue' = Tail(queue) /\ 1 \in DOMAIN queue /\ Head(queue) = queue[1]
         /\ \A k \in DOMAIN queue : k \in Nat /\ (k # 1 => 1 < k /\ k - 1 \in DOMAIN queue')
         /\ \A k \in DOMAIN queue' : /\ k \in Nat /\ k + 1 \in DOMAIN queue
                                     /\ queue'[k] = queue[k + 1]
<1>1. queue # <<>> /\ queue' = Tail(queue) /\ queue \in Seq(StreamEvents)
  BY Facts DEF QueueMove, TypeOK
<1>2. /\ Len(queue) \in Nat /\ DOMAIN queue = 1..Len(queue)
      /\ DOMAIN Tail(queue) = 1..(Len(queue) - 1)
      /\ \A k \in DOMAIN Tail(queue) : k + 1 \in DOMAIN queue /\ Tail(queue)[k] = queue[k + 1]
      /\ Head(queue) = queue[1] /\ 1 \in DOMAIN queue
  BY <1>1, QueueTail
<1>3. DOMAIN queue' = 1..(Len(queue) - 1)
  BY <1>1, <1>2
<1>4. \A k \in DOMAIN queue : k \in Nat /\ (k # 1 => 1 < k /\ k - 1 \in DOMAIN queue')
  BY <1>2, <1>3
<1>5. \A k \in DOMAIN queue' : k \in Nat /\ k + 1 \in DOMAIN queue /\ queue'[k] = queue[k + 1]
  <2>1. \A k \in DOMAIN queue' : k \in Nat
    BY <1>3
  <2>2. \A k \in DOMAIN queue' : k + 1 \in DOMAIN queue /\ queue'[k] = queue[k + 1]
    BY <1>1, <1>2
  <2>3. QED BY <2>1, <2>2
<1>6. QED BY <1>1, <1>2, <1>4, <1>5

LEMMA QuietNews ==
  ASSUME ServiceInvariant, NEW s \in Symbols, Known(s), QueueMove(s), outgoing'[s] = outgoing[s],
         pending[s] = NoAnchor, pending'[s] = NoAnchor, NEW t
  PROVE  /\ Queued(s, t) => Queued(s, t)' \/ t \in seen'[views[s].id]
         /\ LossAnnounced(s, t) => LossAnnounced(s, t)'
<1>1. CASE UNCHANGED queue
  BY <1>1 DEF Queued, LossAnnounced, InOutgoing
<1>2. CASE queue' # queue
  <2>1. /\ queue # <<>> /\ queue' = Tail(queue) /\ 1 \in DOMAIN queue /\ Head(queue) = queue[1]
        /\ \A k \in DOMAIN queue : k \in Nat /\ (k # 1 => 1 < k /\ k - 1 \in DOMAIN queue')
        /\ \A k \in DOMAIN queue' : /\ k \in Nat /\ k + 1 \in DOMAIN queue
                                    /\ queue'[k] = queue[k + 1]
    BY <1>2, TakenFromQueue
  <2>2. ~Heard("disconnected", s)
    BY <1>2, AnchorTyped DEF QueueMove
  <2>3. Heard("trade", s) => Head(queue).trade \in seen'[views[s].id]
    BY <1>2 DEF QueueMove
  <2>4. \A k \in DOMAIN queue : k # 1 => k - 1 \in DOMAIN queue' /\ queue'[k - 1] = queue[k]
    <3>1. \A k \in DOMAIN queue : k \in Nat /\ (k - 1) + 1 = k
      BY <2>1
    <3>2. QED BY <2>1, <3>1
  <2>5. ASSUME NEW k \in DOMAIN queue, IsEvent(queue[k], "trade", s), queue[k].trade = t
        PROVE  Queued(s, t)' \/ t \in seen'[views[s].id]
    <3>1. CASE k = 1
      BY <2>1, <2>3, <2>5, <3>1 DEF Heard
    <3>2. CASE k # 1
      BY <2>4, <2>5, <3>2 DEF Queued
    <3>3. QED BY <3>1, <3>2
  <2>6. ASSUME NEW k \in DOMAIN queue, IsEvent(queue[k], "disconnected", s),
               \A j \in DOMAIN queue : j < k /\ IsEvent(queue[j], "trade", s) => queue[j].trade < t
        PROVE  LossAnnounced(s, t)'
    <3>1. k # 1
      BY <2>1, <2>2, <2>6 DEF Heard
    <3>2. ASSUME NEW j \in DOMAIN queue', j < k - 1, IsEvent(queue'[j], "trade", s)
          PROVE  queue'[j].trade < t
      <4>1. j + 1 < k
        BY <2>1, <3>2, SMTT(20)
      <4>2. QED BY <2>1, <2>6, <3>2, <4>1
    <3>3. QED BY <2>4, <2>6, <3>1, <3>2 DEF LossAnnounced
  <2>7. ASSUME InOutgoing("disconnected", s),
               \A j \in DOMAIN queue : IsEvent(queue[j], "trade", s) => queue[j].trade < t
        PROVE  LossAnnounced(s, t)'
    BY <2>1, <2>7 DEF LossAnnounced, InOutgoing
  <2>8. ASSUME InOutgoing("trade", s), outgoing[s][1].trade = t PROVE Queued(s, t)'
    BY <2>8 DEF Queued, InOutgoing
  <2>9. QED BY <2>5, <2>6, <2>7, <2>8 DEF Queued, LossAnnounced
<1>3. QED BY <1>1, <1>2

LEMMA QuietGapless ==
  ASSUME CoverageInvariant, [Next]_vars, ~Stream, NEW s \in Symbols
  PROVE  Gapless(s)'
<1>0. /\ ServiceInvariant /\ ServiceInvariant' /\ BufferRetains(s)
      /\ Gapless(s) /\ AnchorIsSound(s)
  BY ServiceStep DEF CoverageInvariant
<1> SUFFICES ASSUME Exact(s)', pending'[s] = NoAnchor, link'[s] # "off"
             PROVE  /\ buffer'[s] # {}
                    /\ \A t \in 1..received'[s] : Relevant(views[s].id, t)' =>
                         Evaluated(s, t)' \/ Queued(s, t)' \/ LossAnnounced(s, t)'
  BY DEF Gapless
<1>1. Known(s)'
  BY DEF Exact
<1>2. SameStream(s) /\ outgoing'[s] = outgoing[s]
  BY <1>0, QuietMoves, AnchorTyped
<1>3. Known(s)
  BY <1>0, <1>1, <1>2, SymbolMoves DEF SameStream
<1>4. PICK i : i = views[s].id
  OBVIOUS
<1>5. /\ i \in Signals /\ SymbolOf[i] = s /\ views'[s].id = i
      /\ SymbolMove(s) /\ Exact(s) /\ seen[i] \subseteq seen'[i]
  BY <1>0, <1>1, <1>3, <1>4, Continued
<1>6. ASSUME NEW t \in 1..received'[s], Relevant(views[s].id, t)'
      PROVE  t \in 1..received[s] /\ t \in 1..Len(tape[s]) /\ Relevant(i, t)
  <2>1. received[s] \in Nat /\ received[s] <= Len(tape[s]) /\ Len(tape[s]) \in Nat
    BY <1>0, Facts, ClockTyped, Constants DEF TypeOK, EventsInOrder
  <2>2. t \in 1..received[s] /\ t \in 1..Len(tape[s])
    BY <1>2, <2>1 DEF SameStream
  <2>3. Relevant(i, t)'
    BY <1>5, <1>6 DEF Relevant
  <2>4. QED BY <1>0, <1>5, <2>2, <2>3, RelevantKept
<1>7. ASSUME NEW t, t \in seen[i] \cup TodoOf(job, s) \cup TodoOf(job', s) PROVE Evaluated(s, t)'
  <2>1. t \in seen'[i] \cup TodoOf(job', s)
    BY <1>4, <1>5, <1>7 DEF SymbolMove
  <2>2. QED BY <1>5, <2>1 DEF Evaluated, TodoOf
<1>8. CASE pending[s] = NoAnchor
  <2>1. /\ buffer[s] # {}
        /\ \A t \in 1..received[s] :
             Relevant(i, t) => Evaluated(s, t) \/ Queued(s, t) \/ LossAnnounced(s, t)
    BY <1>0, <1>2, <1>4, <1>5, <1>8 DEF Gapless, SameStream
  <2>2. ASSUME NEW t \in 1..received'[s], Relevant(views[s].id, t)'
        PROVE  Evaluated(s, t)' \/ Queued(s, t)' \/ LossAnnounced(s, t)'
    <3>1. Evaluated(s, t) \/ Queued(s, t) \/ LossAnnounced(s, t)
      BY <1>6, <2>1, <2>2
    <3>2. CASE Evaluated(s, t)
      BY <1>4, <1>7, <3>2 DEF Evaluated
    <3>3. CASE Queued(s, t)
      <4>1. Queued(s, t)' \/ t \in seen'[i]
        BY <1>0, <1>2, <1>3, <1>4, <1>5, <1>8, <3>3, QuietNews DEF SymbolMove
      <4>2. QED BY <1>5, <4>1 DEF Evaluated
    <3>4. CASE LossAnnounced(s, t)
      BY <1>0, <1>2, <1>3, <1>5, <1>8, <3>4, QuietNews DEF SymbolMove
    <3>5. QED BY <3>1, <3>2, <3>3, <3>4
  <2>3. QED BY <1>2, <2>1, <2>2 DEF SameStream
<1>9. CASE pending[s] # NoAnchor
  <2>1. Settled(s)
    BY <1>0, <1>3, <1>5, <1>9, AnchorTyped DEF SymbolMove
  <2>2. Accountable(views[s].id)'
    BY DEF Exact
  <2>3. PICK rest \in RestHistory(s) :
          /\ CoverageProven(s, rest, Buffered(s, pending[s]), pending[s])
          /\ ~Uncertain(s, rest, Buffered(s, pending[s]), pending[s])
          /\ TodoOf(job', s) = Merged(s, rest, Buffered(s, pending[s]), pending[s])
    BY <2>1, <2>2 DEF Settled
  <2>4. buffer'[s] # {}
    BY <1>2, <2>3 DEF CoverageProven, Buffered, SameStream
  <2>5. ASSUME NEW t \in 1..received'[s], Relevant(views[s].id, t)'
        PROVE  Evaluated(s, t)'
    <3>1. t \in 1..Len(tape[s]) /\ Relevant(i, t) /\ t <= received[s]
      BY <1>6, <2>5
    <3>2. TimeOf(s, t) \in Nat /\ pending[s] \in Int
      <4>1. TimeOf(s, t) \in Nat
        BY <1>0, <3>1, TapeGrows
      <4>2. pending \in [Symbols -> 0..MaxTime \cup {NoAnchor}]
        BY <1>0, Facts DEF TypeOK
      <4>3. QED BY <4>1, <4>2, Constants DEF NoAnchor
    <3>3. CASE TimeOf(s, t) >= pending[s]
      <4>1. t \in TodoOf(job', s)
        BY <1>0, <2>3, <3>1, <3>3, EstablishCovers
      <4>2. QED BY <1>7, <4>1
    <3>4. CASE TimeOf(s, t) < pending[s]
      <4>1. t \in seen[i]
        BY <1>0, <1>4, <1>5, <3>1, <3>4 DEF AnchorIsSound
      <4>2. QED BY <1>7, <4>1
    <3>5. QED BY <3>2, <3>3, <3>4
  <2>6. QED BY <2>4, <2>5
<1>10. QED BY <1>8, <1>9

LEMMA QuietLossNoticed ==
  ASSUME CoverageInvariant, [Next]_vars, ~Stream, NEW s \in Symbols
  PROVE  LossIsNoticed(s)' /\ StreamInStep(s)'
<1>0. ServiceInvariant /\ ServiceInvariant' /\ LossIsNoticed(s) /\ StreamInStep(s)
  BY ServiceStep DEF CoverageInvariant
<1>1. StreamInStep(s)'
  BY <1>0, QuietMoves DEF StreamInStep, InOutgoing, SameStream
<1>2. ASSUME link'[s] = "down", buffer'[s] # {} PROVE LossIsNews(s)' \/ NothingReady(s)'
  <2>1. SameStream(s) /\ outgoing'[s] = outgoing[s]
    BY <1>0, <1>2, QuietMoves DEF StreamInStep
  <2>2. Known(s)'
    BY <1>0, <1>2 DEF ServiceInvariant, NothingLeftBehind
  <2>3. Known(s)
    BY <1>0, <1>2, <2>1, <2>2, SymbolMoves DEF SameStream
  <2>4. SymbolMove(s) /\ QueueMove(s) /\ Anchor(s) # NoAnchor
    BY <1>0, <2>2, <2>3, SymbolMoves, AnchorTyped DEF SymbolMove
  <2>5. LossIsNews(s) \/ NothingReady(s)
    BY <1>0, <1>2, <2>1 DEF LossIsNoticed, SameStream
  <2>6. (RecoversFor(job, s)' <=> RecoversFor(job', s)) /\ (Heard("ready", s) => InQueue("ready", s))
    <3>1. queue # <<>> => 1 \in DOMAIN queue /\ Head(queue) = queue[1]
      <4>1. queue \in Seq(StreamEvents)
        BY <1>0, Facts DEF TypeOK
      <4>2. QED BY <4>1
    <3>2. QED BY <3>1 DEF RecoversFor, Heard, InQueue
  <2>7. ASSUME NothingReady(s), ~InQueue("ready", s)' PROVE NothingReady(s)'
    BY <2>4, <2>6, <2>7 DEF NothingReady, SymbolMove, Settled
  <2>8. CASE UNCHANGED queue
    BY <2>1, <2>5, <2>7, <2>8 DEF LossIsNews, NothingReady, InQueue, InOutgoing
  <2>9. CASE queue' # queue
    <3>1. /\ queue # <<>> /\ queue' = Tail(queue) /\ 1 \in DOMAIN queue /\ Head(queue) = queue[1]
          /\ \A k \in DOMAIN queue : k \in Nat /\ (k # 1 => 1 < k /\ k - 1 \in DOMAIN queue')
          /\ \A k \in DOMAIN queue' : /\ k \in Nat /\ k + 1 \in DOMAIN queue
                                      /\ queue'[k] = queue[k + 1]
      BY <1>0, <2>4, <2>9, TakenFromQueue
    <3>2. CASE NothingReady(s)
      BY <2>7, <3>1, <3>2 DEF NothingReady, InQueue
    <3>3. ASSUME NEW k \in DOMAIN queue, IsEvent(queue[k], "disconnected", s),
                 \A l \in DOMAIN queue : k < l => ~IsEvent(queue[l], "ready", s)
          PROVE  LossIsNews(s)' \/ NothingReady(s)'
      <4>1. CASE k = 1
        <5>1. Heard("disconnected", s)
          BY <3>1, <3>3, <4>1 DEF Heard
        <5>2. pending'[s] # NoAnchor /\ s \notin streamReady' /\ ~RecoversFor(job', s)
          BY <2>4, <2>9, <5>1 DEF QueueMove
        <5>3. ~InQueue("ready", s)'
          <6>1. \A l \in DOMAIN queue' : 1 < l + 1
            BY <3>1
          <6>2. QED BY <3>1, <3>3, <4>1, <6>1 DEF InQueue
        <5>4. QED BY <2>6, <5>2, <5>3 DEF NothingReady
      <4>2. CASE k # 1
        <5>1. k - 1 \in DOMAIN queue' /\ queue'[k - 1] = queue[k]
          <6>1. (k - 1) + 1 = k
            BY <3>1
          <6>2. QED BY <3>1, <4>2, <6>1
        <5>2. \A l \in DOMAIN queue' : k - 1 < l => k < l + 1
          BY <3>1
        <5>3. QED BY <3>1, <3>3, <5>1, <5>2 DEF LossIsNews
      <4>3. QED BY <4>1, <4>2
    <3>4. CASE InOutgoing("disconnected", s)
      BY <2>1, <3>4 DEF LossIsNews, InOutgoing
    <3>5. QED BY <2>5, <3>2, <3>3, <3>4 DEF LossIsNews
  <2>10. QED BY <2>8, <2>9
<1>3. QED BY <1>1, <1>2 DEF LossIsNoticed

-----------------------------------------------------------------------------
(* The buffer drops what is oldest, and keeps what an earlier connection   *)
(* has left in it.                                                         *)
LEMMA BufferStep ==
  ASSUME ServiceInvariant, [Next]_vars, NEW s \in Symbols, BufferRetains(s)
  PROVE  BufferRetains(s)'
<1>1. /\ received \in [Symbols -> 0..MaxTrades] /\ opened \in [Symbols -> 0..MaxTrades]
      /\ buffer \in [Symbols -> SUBSET (1..MaxTrades)]
      /\ received[s] \in Nat /\ opened[s] \in Nat /\ buffer[s] \subseteq Nat
  BY Facts, Constants DEF TypeOK
<1>2. CASE buffer'[s] = {}
  BY <1>2 DEF BufferRetains
<1>3. CASE received'[s] = received[s] /\ opened'[s] = opened[s] /\ buffer'[s] = buffer[s]
  BY <1>3 DEF BufferRetains
<1>4. CASE Connect(s)
  <2>1. received'[s] = Len(tape[s]) /\ opened'[s] = Len(tape[s]) /\ buffer'[s] = buffer[s]
    BY <1>1, <1>4 DEF Connect
  <2>2. Len(tape[s]) \in Nat /\ received[s] <= Len(tape[s])
    BY Facts, ClockTyped DEF EventsInOrder
  <2>3. \A u : u \notin (Len(tape[s]) + 1)..Len(tape[s])
    BY <2>2
  <2>4. \A t \in buffer[s] : t <= Len(tape[s])
    BY <1>1, <2>2 DEF BufferRetains
  <2>5. QED BY <2>1, <2>3, <2>4 DEF BufferRetains
<1>5. CASE Receive(s)
  <2> DEFINE n == received[s] + 1
             old == buffer[s]
             new == Pushed(old, n)
  <2>1. received'[s] = n /\ opened'[s] = opened[s] /\ buffer'[s] = new /\ n \in Nat
    BY <1>1, <1>5 DEF Receive
  <2>2. new = {n} \cup old \/ (old # {} /\ new = {n} \cup (old \ {Least(old)}))
    <3>1. old = {} => new = {n} \cup old
      BY DEF Pushed
    <3>2. QED BY <3>1 DEF Pushed
  <2>3. old # {} => Least(old) \in old /\ \A t \in old : Least(old) <= t
    BY <1>1, LeastIsIn
  <2>4. \A t \in old : t <= received[s] /\ t \in Nat
    BY <1>1 DEF BufferRetains
  <2>5. \A t \in old, u \in (opened[s] + 1)..received[s] : t <= u => u \in old
    BY DEF BufferRetains
  <2> HIDE DEF n, new, old
  <2>6. n = received[s] + 1
    BY DEF n
  <2>7. \A t \in new : t <= n
    BY <1>1, <2>1, <2>2, <2>4, <2>6
  <2>8. ASSUME NEW t \in new, NEW u \in (opened[s] + 1)..n, t <= u PROVE u \in new
    <3>1. CASE u = n
      BY <2>2, <3>1
    <3>2. CASE u # n
      <4>1. u \in (opened[s] + 1)..received[s] /\ t # n /\ t \in old
        BY <1>1, <2>1, <2>2, <2>6, <2>8, <3>2
      <4>2. u \in old
        BY <2>5, <2>8, <4>1
      <4>3. CASE new = {n} \cup old
        BY <4>2, <4>3
      <4>4. CASE old # {} /\ new = {n} \cup (old \ {Least(old)})
        <5>1. t # Least(old) /\ Least(old) <= t /\ Least(old) \in Nat /\ t \in Nat
          BY <2>3, <2>4, <4>1, <4>4
        <5>2. u # Least(old)
          BY <2>4, <2>8, <4>2, <5>1
        <5>3. QED BY <4>2, <4>4, <5>2
      <4>5. QED BY <2>2, <4>3, <4>4
    <3>3. QED BY <3>1, <3>2
  <2>9. QED BY <2>1, <2>7, <2>8 DEF BufferRetains
<1>6. ASSUME NEW x \in Symbols, Connect(x) \/ Receive(x), x # s
      PROVE  received'[s] = received[s] /\ opened'[s] = opened[s] /\ buffer'[s] = buffer[s]
  BY <1>1, <1>6 DEF Connect, Receive
<1>7. CASE Stream
  <2>1. PICK x \in Symbols :
          PutWaiting(x) \/ Connect(x) \/ Receive(x) \/ MarkReady(x) \/ Disconnect(x)
    BY <1>7 DEF Stream
  <2>2. CASE PutWaiting(x) \/ MarkReady(x) \/ Disconnect(x)
    BY <1>3, <2>2 DEF PutWaiting, MarkReady, Disconnect
  <2>3. CASE Connect(x) \/ Receive(x)
    BY <1>3, <1>4, <1>5, <1>6, <2>3
  <2>4. QED BY <2>1, <2>2, <2>3
<1>8. CASE ~Stream
  <2>1. ASSUME NEW S \in SUBSET Symbols, Unsubscribed(S) PROVE BufferRetains(s)'
    BY <1>2, <1>3, <2>1 DEF Unsubscribed
  <2>2. QED BY <1>3, <1>8, <2>1, StreamsAreQuiet DEF QuietStreams, Subscribes, streamVars
<1>9. QED BY <1>7, <1>8

LEMMA CoverageStep ==
  ASSUME CoverageInvariant, [Next]_vars
  PROVE  CoverageInvariant'
<1>1. ServiceInvariant' /\ NothingSkippedBelowCheckpoint'
  BY ServiceStep, CheckpointStep DEF CoverageInvariant
<1>2. ASSUME NEW s \in Symbols PROVE AnchorIsSound(s)' /\ JobIsGapless(s)' /\ BufferRetains(s)'
  BY AnchorStep, JobStep, BufferStep DEF CoverageInvariant
<1>3. ASSUME NEW s \in Symbols PROVE Gapless(s)' /\ LossIsNoticed(s)' /\ StreamInStep(s)'
  BY StreamGapless, StreamLossNoticed, QuietGapless, QuietLossNoticed
<1>4. QED BY <1>1, <1>2, <1>3 DEF CoverageInvariant

LEMMA CoverageStart == Init => CoverageInvariant
<1> SUFFICES ASSUME Init PROVE CoverageInvariant
  OBVIOUS
<1>1. ServiceInvariant
  BY ServiceStart
<1>2. \A s \in Symbols : BufferRetains(s)
  BY DEF Init, BufferRetains
<1>3. NothingSkippedBelowCheckpoint
  <2>1. \A i \in Signals : checkpoint[i] = 0
    BY DEF Init, Store!StoreInit
  <2>2. QED BY <2>1 DEF NothingSkippedBelowCheckpoint
<1>4. \A s \in Symbols : ~Known(s) /\ link[s] = "off" /\ buffer[s] = {} /\ outgoing[s] = <<>>
  BY DEF Init, Known
<1>5. QED
  BY <1>1, <1>2, <1>3, <1>4
     DEF CoverageInvariant, Gapless, AnchorIsSound, JobIsGapless, LossIsNoticed, StreamInStep,
         Exact, InOutgoing

LEMMA CoverageHolds == Spec => []CoverageInvariant
<1>1. CoverageInvariant /\ [Next]_vars => CoverageInvariant'
  BY CoverageStep
<1>2. QED BY <1>1, CoverageStart, PTL DEF Spec

(* While a signal is tracked without pending coverage, every trade since   *)
(* its creation was evaluated or is on its way, or the service is about to *)
(* learn that the connection was lost (_establish_coverage,                *)
(* merge_trade_coverage): for every lag, length and buffer, and any number *)
(* of trades at an instant, unless an answer of REST was accepted that is  *)
(* Uncertain.                                                              *)
THEOREM TrackingMissesNothing == Spec => []NothingMissed
<1>1. CoverageInvariant => NothingMissed
  <2> SUFFICES ASSUME CoverageInvariant, NEW s \in Symbols, Exact(s), pending[s] = NoAnchor,
                      link[s] # "off", ~DisconnectAnnounced(s),
                      NEW t \in 1..Len(tape[s]), Relevant(views[s].id, t)
               PROVE  t \in seen[views[s].id] \cup OnTheirWay(s)
    BY DEF NothingMissed, Covered, Exact
  <2>1. ServiceInvariant /\ Gapless(s)
    BY DEF CoverageInvariant
  <2>2. /\ received[s] \in Nat /\ Len(tape[s]) \in Nat
        /\ outgoing[s] \in Seq(StreamEvents)
        /\ outgoing[s] # <<>> => 1 \in DOMAIN outgoing[s] /\ outgoing[s][1].sym = s
    <3>1. received[s] \in Nat /\ Len(tape[s]) \in Nat /\ outgoing[s] \in Seq(StreamEvents)
      BY <2>1, Facts, ClockTyped, Constants DEF TypeOK
    <3>2. QED BY <2>1, <3>1, Facts, SMTT(20) DEF EventsInOrder
  <2>3. CASE t \notin 1..received[s]
    BY <2>2, <2>3 DEF OnTheirWay
  <2>4. CASE t \in 1..received[s]
    <3>1. Evaluated(s, t) \/ Queued(s, t) \/ LossAnnounced(s, t)
      BY <2>1, <2>4 DEF Gapless
    <3>2. ~LossAnnounced(s, t)
      BY <2>2 DEF LossAnnounced, DisconnectAnnounced, IsEvent, InOutgoing
    <3>3. CASE Evaluated(s, t)
      BY <3>3 DEF Evaluated, TodoOf, OnTheirWay
    <3>4. CASE Queued(s, t)
      BY <2>2, <3>4 DEF Queued, IsEvent, InOutgoing, OnTheirWay
    <3>5. QED BY <3>1, <3>2, <3>3, <3>4
  <2>5. QED BY <2>3, <2>4
<1>2. QED BY <1>1, CoverageHolds, PTL

(* A restart resumes at the checkpoint of a signal: no trade below it was  *)
(* skipped (checkpoint_trade, coverage_anchor), in the same generality.    *)
THEOREM TrackingSkipsNothing == Spec => []NothingSkippedBelowCheckpoint
<1>1. CoverageInvariant => NothingSkippedBelowCheckpoint
  BY DEF CoverageInvariant
<1>2. QED BY <1>1, CoverageHolds, PTL

=============================================================================
