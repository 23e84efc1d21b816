--------------------------- MODULE SignalTracking ---------------------------
(***************************************************************************)
(* The lifecycle service (signals/service.py), one asyncio task, together  *)
(* with the tasks it interleaves with: one public trade stream per         *)
(* subscribed symbol (providers/bybit/trade_websocket.py), which feeds one *)
(* bounded queue shared by all symbols and one bounded buffer per symbol,  *)
(* and the publication of new signals. The rows are those of SignalStore.  *)
(*                                                                         *)
(* The service step by step: an action runs from one await whose outcome   *)
(* other tasks can influence to the next, and commits at most one          *)
(* transaction, so a crash or an event of the stream falls between any two *)
(* of them. The history of public trades of a symbol is its tape; a trade  *)
(* is identified by its position on it, which is the exchange order.       *)
(***************************************************************************)
EXTENDS Integers, Sequences, FiniteSets, SignalStates, TradeEvaluation

CONSTANTS
  Signals, Symbols, SymbolOf,
  Plan,            \* the price levels of each signal
  Prices,          \* prices public trades are executed at
  FirstPrice,      \* price of the trade that precedes every signal
  Lifetime,        \* expires_at - created_at
  MinuteTicks,     \* ticks of the clock in a one minute candle
  RestLimit,       \* recent_trade_limit of the REST request
  RestLag,         \* trades the REST history may still be missing
  BufferSize,      \* buffer_size of the stream manager
  QueueSize,       \* queue_size of the stream manager
  TradesPerTick,   \* trades of a symbol the exchange executes at one instant
  MaxTrades, MaxTime, MaxDisconnects, MaxCrashes   \* bounds of the model

ASSUME TrackingAssumption ==
  /\ SymbolOf \in [Signals -> Symbols]
  /\ Prices \subseteq Int /\ FirstPrice \in Int
  /\ {Lifetime, MinuteTicks, RestLimit, BufferSize, QueueSize, TradesPerTick, MaxTrades}
       \subseteq Nat \ {0}
  /\ {RestLag, MaxTime, MaxDisconnects, MaxCrashes} \subseteq Nat

VARIABLES
  status, tradeStatus, currentStop, remaining, checkpoint, createdAt, events, outbox,
  clock,        \* datetime.now
  tape,         \* public trades of each symbol, as the exchange executed them
  disconnects, crashes,    \* faults so far
  link,         \* stream task of a symbol: off, down, open, buffered or ready
  received,     \* position of the last trade the connection has passed by
  buffer,       \* _buffers: positions of buffered trades
  outgoing,     \* event a stream task is blocked on while the queue is full
  opened,       \* history: the last trade executed before the connection was made
  queue,        \* _events of the stream manager
  views,        \* _signals
  pending,      \* _coverage_pending: an anchor, or NoAnchor
  streamReady,  \* _stream_ready
  agenda,       \* symbols the running _reconcile has yet to come to, with its time
  job,          \* what the service is in the middle of
  seen,         \* history: trades each signal has been evaluated against
  doubtful      \* history: signals whose coverage was accepted on an uncertain answer

storeVars == <<status, tradeStatus, currentStop, remaining, checkpoint, createdAt,
               events, outbox>>
worldVars == <<clock, tape, disconnects, crashes>>
streamVars == <<link, received, opened, buffer, outgoing>>
memoryVars == <<views, pending, streamReady>>
vars == <<storeVars, worldVars, streamVars, queue, memoryVars, agenda, job, seen, doubtful>>

(* Idempotency keys are tuples of the parts the code joins with colons.    *)
KeyRef == 0..(MaxTrades + MaxTime + 1)
EventKeys ==
  ({"candidate", "expired"} \X Signals)
    \cup ({"coverage", "recovered"} \X Signals \X KeyRef)
    \cup ({"trade", "fallback"} \X Signals \X KeyRef
             \X (TerminalStatuses \cup TrackingStatuses) \X {0, 1})

Store == INSTANCE SignalStore WITH
           Keys <- EventKeys, Positions <- 1..MaxTrades, Times <- 0..(MaxTime + Lifetime)

NoView == [status |-> "none"]
NoAnchor == -1
Known(s) == views[s] # NoView
Expires(i) == createdAt[i] + Lifetime
TimeOf(s, t) == tape[s][t].time
Least(S) == CHOOSE x \in S : \A y \in S : x <= y
Greatest(S) == CHOOSE x \in S : \A y \in S : y <= x

(* list_tracking_signals: the tracked signal of a symbol as the service    *)
(* remembers it.                                                           *)
StoredView(s) ==
  IF Store!Tracked(s) = {} THEN NoView
  ELSE LET i == CHOOSE x \in Store!Tracked(s) : TRUE
       IN [id |-> i, status |-> status[i], stop |-> currentStop[i], last |-> checkpoint[i]]

(* TrackingSignalView.coverage_anchor of a remembered signal. *)
Anchor(s) == IF views[s].last = 0 THEN createdAt[views[s].id] ELSE TimeOf(s, views[s].last)

IdleJob == [phase |-> "idle"]
BootJob == [phase |-> "boot"]
DeadJob == [phase |-> "dead"]

-----------------------------------------------------------------------------
(* The world: the exchange executes trades, time passes, the analysis      *)
(* transaction publishes a signal.                                         *)
Tick ==
  /\ clock < MaxTime
  /\ clock' = clock + 1
  /\ UNCHANGED <<storeVars, tape, disconnects, crashes, streamVars, queue, memoryVars,
                 agenda, job, seen, doubtful>>

ExecuteTrade(s) ==
  /\ Len(tape[s]) < MaxTrades
  /\ Cardinality({t \in 1..Len(tape[s]) : TimeOf(s, t) = clock}) < TradesPerTick
  /\ \E price \in Prices :
       tape' = [tape EXCEPT ![s] = Append(@, [price |-> price, time |-> clock])]
  /\ UNCHANGED <<storeVars, clock, disconnects, crashes, streamVars, queue, memoryVars,
                 agenda, job, seen, doubtful>>

PublishSignal(i) ==
  /\ Store!Publish(i, <<"candidate", i>>, TRUE, clock)
  /\ UNCHANGED <<worldVars, streamVars, queue, memoryVars, agenda, job, seen, doubtful>>

-----------------------------------------------------------------------------
(* The stream manager. A put waits while the queue is full: the event is   *)
(* outgoing, and the task of the symbol does nothing else meanwhile.       *)
Event(type, s, t) == [type |-> type, sym |-> s, trade |-> t]

Emit(s, event) ==
  IF Len(queue) < QueueSize
  THEN queue' = Append(queue, event) /\ UNCHANGED outgoing
  ELSE outgoing' = [outgoing EXCEPT ![s] = <<event>>] /\ UNCHANGED queue

StreamTask(s) == link[s] # "off" /\ outgoing[s] = <<>>

UnchangedByStream == UNCHANGED <<storeVars, clock, tape, crashes, memoryVars, agenda, job,
                                 seen, doubtful>>

(* Faulty variant: the room in the queue is off by one. *)
PutWhenRoomIsLeft(s) ==
  /\ outgoing[s] # <<>>
  /\ Len(queue) < QueueSize - 1
  /\ queue' = Append(queue, outgoing[s][1])
  /\ outgoing' = [outgoing EXCEPT ![s] = <<>>]
  /\ UNCHANGED <<link, received, opened, buffer, disconnects>>
  /\ UnchangedByStream

PutWaiting(s) ==
  /\ outgoing[s] # <<>>
  /\ Len(queue) < QueueSize
  /\ queue' = Append(queue, outgoing[s][1])
  /\ outgoing' = [outgoing EXCEPT ![s] = <<>>]
  /\ UNCHANGED <<link, received, opened, buffer, disconnects>>
  /\ UnchangedByStream

(* A connection delivers the trades executed after it was made.            *)
Connect(s) ==
  /\ StreamTask(s) /\ link[s] = "down"
  /\ link' = [link EXCEPT ![s] = "open"]
  /\ received' = [received EXCEPT ![s] = Len(tape[s])]
  /\ opened' = [opened EXCEPT ![s] = Len(tape[s])]
  /\ UNCHANGED <<buffer, outgoing, queue, disconnects>>
  /\ UnchangedByStream

(* A full buffer drops its oldest trade (deque of maxlen buffer_size).     *)
Pushed(trades, t) ==
  {t} \cup IF Cardinality(trades) < BufferSize THEN trades ELSE trades \ {Least(trades)}

(* _handle_payload for one trade: into the buffer, then into the queue.    *)
(* The buffer survives a reconnect.                                        *)
Receive(s) ==
  /\ StreamTask(s) /\ link[s] \in {"open", "buffered", "ready"}
  /\ received[s] < Len(tape[s])
  /\ LET t == received[s] + 1
     IN /\ received' = [received EXCEPT ![s] = t]
        /\ buffer' = [buffer EXCEPT ![s] = Pushed(@, t)]
        /\ Emit(s, Event("trade", s, t))
  /\ link' = [link EXCEPT ![s] = IF @ = "open" THEN "buffered" ELSE @]
  /\ UNCHANGED <<opened, disconnects>>
  /\ UnchangedByStream

(* _mark_ready, once per connection and only after its first trade.        *)
MarkReady(s) ==
  /\ StreamTask(s) /\ link[s] = "buffered"
  /\ link' = [link EXCEPT ![s] = "ready"]
  /\ Emit(s, Event("ready", s, 0))
  /\ UNCHANGED <<received, opened, buffer, disconnects>>
  /\ UnchangedByStream

(* The connection is lost, or an attempt to connect fails.                 *)
Disconnect(s) ==
  /\ StreamTask(s)
  /\ disconnects < MaxDisconnects
  /\ disconnects' = disconnects + 1
  /\ link' = [link EXCEPT ![s] = "down"]
  /\ Emit(s, Event("disconnected", s, 0))
  /\ UNCHANGED <<received, opened, buffer>>
  /\ UnchangedByStream

(* Faulty variant: the task of the symbol is not cancelled. *)
BuffersDropped(S) ==
  /\ buffer' = [s \in Symbols |-> IF s \in S THEN {} ELSE buffer[s]]
  /\ UNCHANGED <<link, received, opened, outgoing>>

(* unsubscribe: the task is cancelled, its buffer and the event it waits   *)
(* with are gone; events already in the queue stay there.                  *)
Unsubscribed(S) ==
  /\ link' = [s \in Symbols |-> IF s \in S THEN "off" ELSE link[s]]
  /\ buffer' = [s \in Symbols |-> IF s \in S THEN {} ELSE buffer[s]]
  /\ outgoing' = [s \in Symbols |-> IF s \in S THEN <<>> ELSE outgoing[s]]
  /\ opened' = [s \in Symbols |-> IF s \in S THEN 0 ELSE opened[s]]
  /\ UNCHANGED received

-----------------------------------------------------------------------------
(* Faulty variants: the remembered stop, or the remembered status, is stale. *)
RememberedStatus(s, target) == [views[s] EXCEPT !.status = target]
RememberedStop(s, target) ==
  [views[s] EXCEPT !.stop = IF ActionStop(target) = "keep" THEN @ ELSE ActionStop(target)]

(* What is remembered of a signal after an applied transition. *)
Remembered(s, target) ==
  IF target \in TerminalStatuses THEN NoView
  ELSE [views[s] EXCEPT !.status = target,
                        !.stop = IF ActionStop(target) = "keep" THEN @ ELSE ActionStop(target)]

(* SignalLifecycleService._transition for the signal of a symbol: apply    *)
(* the transition, then forget a closed signal or remember the new status. *)
(* A duplicate key only refreshes the memory (the candle replay then drops *)
(* the anchor of a signal that is gone); an illegal target raises, which   *)
(* ends the worker. What else is left of the pending anchor, and the job   *)
(* to go on with, are the caller's.                                        *)
Transition(s, target, key, time, left, then) ==
  LET i         == views[s].id
      duplicate == key \in Store!UsedKeys
      view      == IF duplicate THEN StoredView(s) ELSE Remembered(s, target)
  IN  IF ~duplicate /\ ~Store!TransitionAllowed(i, target)
      THEN job' = DeadJob /\ UNCHANGED <<storeVars, memoryVars, streamVars>>
      ELSE
        /\ IF duplicate THEN UNCHANGED storeVars
           ELSE Store!ApplyTransition(i, target, key, time,
                                      ActionStop(target), ActionQuantity(target))
        /\ views' = [views EXCEPT ![s] = view]
        /\ pending' = [pending EXCEPT ![s] =
                         IF view = NoView /\ (~duplicate \/ job.phase = "candles")
                         THEN NoAnchor ELSE left]
        /\ job' = IF view = NoView THEN IdleJob ELSE then
        /\ IF ~duplicate /\ view = NoView
           THEN streamReady' = streamReady \ {s} /\ Unsubscribed({s})
           ELSE UNCHANGED <<streamReady, streamVars>>

(* _checkpoint: the row keeps the newest trade, the memory the last one.   *)
Checkpoint(s, t) ==
  /\ Store!CheckpointTrade(views[s].id, t)
  /\ views' = [views EXCEPT ![s].last = t]

UnchangedByService == UNCHANGED <<worldVars, queue>>

-----------------------------------------------------------------------------
(* _reconcile, up to its loop over the tracked signals: the memory is      *)
(* replaced by the rows, symbols without a tracked signal are released.    *)
BeginReconcile ==
  /\ job \in {IdleJob, BootJob} /\ agenda = {}
  /\ LET released == {s \in Symbols : Known(s) /\ StoredView(s) = NoView}
     IN /\ Unsubscribed(released)
        /\ pending' = [s \in Symbols |-> IF s \in released THEN NoAnchor ELSE pending[s]]
        /\ streamReady' = streamReady \ released
  /\ views' = [s \in Symbols |-> StoredView(s)]
  /\ agenda' = {s \in Symbols : StoredView(s) # NoView} \X {clock}
  /\ job' = IdleJob
  /\ UNCHANGED <<storeVars, seen, doubtful>>
  /\ UnchangedByService

FetchJob(s) == [phase |-> "fetch", sym |-> s, anchor |-> pending[s]]

(* The body of that loop for one symbol. Signals lapse by the clock: one   *)
(* that waits for coverage always, an active one only while its trades     *)
(* are complete.                                                           *)
(* Faulty variant: only active signals expire. *)
LapsedActive(s, now) ==
  /\ Expires(views[s].id) <= now
  /\ views[s].status = "active" /\ pending[s] = NoAnchor /\ s \in streamReady

Lapsed(s, now) ==
  /\ Expires(views[s].id) <= now
  /\ \/ views[s].status = "preparing"
     \/ views[s].status = "active" /\ pending[s] = NoAnchor /\ s \in streamReady

ReconcileSymbol(s, now) ==
  LET i == views[s].id
  IN  /\ job = IdleJob /\ <<s, now>> \in agenda
      /\ agenda' = agenda \ {<<s, now>>}
      /\ \/ /\ Lapsed(s, now)
            /\ Transition(s, "expired", <<"expired", i>>, Expires(i), pending[s], IdleJob)
         \/ /\ ~Lapsed(s, now) /\ link[s] = "off"
            /\ link' = [link EXCEPT ![s] = "down"]
            /\ pending' = [pending EXCEPT ![s] = Anchor(s)]
            /\ UNCHANGED <<storeVars, received, opened, buffer, outgoing, views, streamReady, job>>
         \/ /\ ~Lapsed(s, now) /\ link[s] # "off"
            /\ job' = IF pending[s] # NoAnchor /\ s \in streamReady THEN FetchJob(s) ELSE job
            /\ UNCHANGED <<storeVars, streamVars, memoryVars>>
      /\ UNCHANGED <<seen, doubtful>>
      /\ UnchangedByService

-----------------------------------------------------------------------------
(* _handle_event. *)
NextEvent(type) ==
  /\ job = IdleJob /\ agenda = {}
  /\ queue # <<>> /\ Head(queue).type = type
  /\ queue' = Tail(queue)

(* The anchors after the connection of a symbol was lost. *)
Reanchored(s) == IF Known(s) THEN [pending EXCEPT ![s] = Anchor(s)] ELSE pending

HandleDisconnected ==
  /\ NextEvent("disconnected")
  /\ LET s == Head(queue).sym
     IN /\ streamReady' = streamReady \ {s}
        /\ pending' = Reanchored(s)
  /\ UNCHANGED <<storeVars, worldVars, streamVars, views, agenda, job, seen, doubtful>>

HandleReady ==
  /\ NextEvent("ready")
  /\ LET s == Head(queue).sym
     IN /\ streamReady' = streamReady \cup {s}
        /\ job' = IF Known(s) /\ pending[s] # NoAnchor THEN FetchJob(s) ELSE job
  /\ UNCHANGED <<storeVars, worldVars, streamVars, views, pending, agenda, seen, doubtful>>

(* The job of applying the actions of one trade or candle: acts from the   *)
(* next one on, then go on with todo.                                      *)
WorkJob(phase, s, anchor, todo, at, acts) ==
  [phase |-> phase, sym |-> s, anchor |-> anchor, todo |-> todo, at |-> at,
   acts |-> acts, next |-> 1]

ActsOnTrade(s, t) ==
  LET v == views[s]
  IN EvaluatePublicTrade(Plan[v.id], Expires(v.id), v.status, v.stop,
                         tape[s][t].price, tape[s][t].time)

(* A trade of a symbol that is not tracked or waits for coverage is        *)
(* dropped; any other is evaluated, whatever was evaluated before it.      *)
HandleTrade ==
  /\ NextEvent("trade")
  /\ LET s == Head(queue).sym
         t == Head(queue).trade
     IN IF Known(s) /\ pending[s] = NoAnchor
        THEN /\ job' = WorkJob("live", s, NoAnchor, {}, t, ActsOnTrade(s, t))
             /\ seen' = [seen EXCEPT ![views[s].id] = @ \cup {t}]
        ELSE UNCHANGED <<job, seen>>
  /\ UNCHANGED <<storeVars, worldVars, streamVars, memoryVars, agenda, doubtful>>

(* _apply_action of the next action of the job. The rest of the job is     *)
(* given up when the signal is gone.                                       *)
ActKey(i) ==
  <<IF job.phase = "candles" THEN "fallback" ELSE "trade", i, job.at,
    job.acts[job.next], job.next - 1>>

Act ==
  /\ job.phase \in {"live", "batch", "candles"}
  /\ job.next <= Len(job.acts)
  /\ LET s == job.sym
     IN Transition(s, job.acts[job.next], ActKey(views[s].id),
                   IF job.phase = "candles" THEN (job.at + 1) * MinuteTicks
                   ELSE TimeOf(s, job.at),
                   pending[s], [job EXCEPT !.next = @ + 1])
  /\ UNCHANGED <<agenda, seen, doubtful>>
  /\ UnchangedByService

JobDone(phase) == job.phase = phase /\ job.next > Len(job.acts)

(* The end of _process_trade for a live trade: a checkpoint unless the     *)
(* last one is too recent.                                                 *)
FinishLive ==
  /\ JobDone("live")
  /\ job' = IdleJob
  /\ \/ Checkpoint(job.sym, job.at)
     \/ UNCHANGED <<storeVars, views>>
  /\ UNCHANGED <<pending, streamReady, streamVars, agenda, seen, doubtful>>
  /\ UnchangedByService

-----------------------------------------------------------------------------
(* merge_trade_coverage of the REST history and the buffer since the       *)
(* anchor.                                                                 *)
Buffered(s, since) == {t \in buffer[s] : TimeOf(s, t) >= since}

(* Faulty variant: the REST history need not meet the buffer. *)
AnchorReached(s, rest, buffered, since) ==
  rest # {} /\ buffered # {} /\ TimeOf(s, Least(rest)) <= since

CoverageProven(s, rest, buffered, since) ==
  /\ rest # {} /\ buffered # {}
  /\ TimeOf(s, Least(rest)) <= since
  /\ rest \cap buffered # {}

(* Faulty variants: only the buffer is replayed, or the anchor is excluded. *)
MergedBuffer(s, rest, buffered, since) == buffered
MergedAfter(s, rest, buffered, since) == {t \in rest \cup buffered : TimeOf(s, t) > since}

Merged(s, rest, buffered, since) == {t \in rest \cup buffered : TimeOf(s, t) >= since}

MinuteOf(time) == time \div MinuteTicks

(* The REST answer: the most recent trades, up to the lag of the endpoint. *)
RestHistory(s) ==
  {((last - RestLimit + 1)..last) \cap 1..Len(tape[s]) :
     last \in (Len(tape[s]) - RestLag)..Len(tape[s])}

(* What the merge does not notice: the overlap is with trades an earlier   *)
(* connection left in the buffer, and the answer ends before the present   *)
(* one was made; or it begins within the instant of the anchor and lacks   *)
(* other trades of that instant.                                           *)
Uncertain(s, rest, buffered, since) ==
  \/ rest \cap buffered # {} /\ Greatest(rest) < opened[s]
  \/ /\ TimeOf(s, Least(rest)) = since
     /\ \E t \in 1..(Least(rest) - 1) : TimeOf(s, t) = since

(* _establish_coverage once REST has answered, up to the first transition. *)
Establish ==
  /\ job.phase = "fetch"
  /\ \E rest \in RestHistory(job.sym) :
       LET s        == job.sym
           i        == views[s].id
           key      == <<"coverage", i, job.anchor>>
           buffered == Buffered(s, job.anchor)
           proven   == CoverageProven(s, rest, buffered, job.anchor)
           minutes  == MinuteOf(job.anchor)..(MinuteOf(clock) - 1)
           replay   == WorkJob("batch", s, job.anchor,
                               Merged(s, rest, buffered, job.anchor), 0, <<>>)
       IN  /\ doubtful' = IF proven /\ Uncertain(s, rest, buffered, job.anchor)
                          THEN doubtful \cup {i} ELSE doubtful
           /\ \/ /\ proven /\ views[s].status = "preparing"
                 /\ Transition(s, "active", key, job.anchor, NoAnchor, replay)
              \/ /\ proven /\ views[s].status # "preparing"
                 /\ pending' = [pending EXCEPT ![s] = NoAnchor]
                 /\ job' = replay
                 /\ UNCHANGED <<storeVars, views, streamReady, streamVars>>
              \/ /\ ~proven /\ views[s].status = "preparing"
                 /\ Transition(s, "coverage_failed", key, clock, NoAnchor, IdleJob)
              \/ \* _recover_with_candles: the 1m rows may not be reconciled yet
                 /\ ~proven /\ views[s].status # "preparing"
                 /\ \/ job' = IdleJob
                    \/ /\ minutes # {}
                       /\ job' = WorkJob("candles", s, job.anchor, minutes, 0, <<>>)
                 /\ UNCHANGED <<storeVars, memoryVars, streamVars>>
  /\ UNCHANGED <<agenda, seen>>
  /\ UnchangedByService

(* The replay of a batch of trades in exchange order, one trade at a time. *)
ReplayTrade ==
  /\ JobDone("batch") /\ job.todo # {}
  /\ LET s == job.sym
         t == Least(job.todo)
     IN /\ job' = WorkJob("batch", s, job.anchor, job.todo \ {t}, t, ActsOnTrade(s, t))
        /\ seen' = [seen EXCEPT ![views[s].id] = @ \cup {t}]
  /\ UNCHANGED <<storeVars, streamVars, memoryVars, agenda, doubtful>>
  /\ UnchangedByService

(* The forced checkpoint at the last trade of the batch.                   *)
FinishBatch ==
  /\ JobDone("batch") /\ job.todo = {}
  /\ Checkpoint(job.sym, job.at)
  /\ job' = IdleJob
  /\ UNCHANGED <<pending, streamReady, streamVars, agenda, seen, doubtful>>
  /\ UnchangedByService

-----------------------------------------------------------------------------
(* The candle of a closed minute; a minute without trades repeats the last *)
(* price.                                                                  *)
TradesIn(s, m) == {t \in 1..Len(tape[s]) : MinuteOf(TimeOf(s, t)) = m}

Candle(s, m) ==
  LET before == {t \in 1..Len(tape[s]) : MinuteOf(TimeOf(s, t)) < m}
      prices == IF TradesIn(s, m) # {} THEN {tape[s][t].price : t \in TradesIn(s, m)}
                ELSE {tape[s][Greatest(before)].price}
  IN [open |-> m * MinuteTicks, close |-> (m + 1) * MinuteTicks,
      low |-> Least(prices), high |-> Greatest(prices)]

ReplayCandle ==
  /\ JobDone("candles") /\ job.todo # {}
  /\ LET s == job.sym
         v == views[s]
         m == Least(job.todo)
     IN /\ job' = WorkJob("candles", s, job.anchor, job.todo \ {m}, m,
                          EvaluateClosedCandle(Plan[v.id], Expires(v.id), v.status, v.stop,
                                               Candle(s, m)))
        /\ seen' = [seen EXCEPT ![v.id] = @ \cup TradesIn(s, m)]
  /\ UNCHANGED <<storeVars, streamVars, memoryVars, agenda, doubtful>>
  /\ UnchangedByService

(* The end of _recover_with_candles: recovery is recorded, and the         *)
(* buffered trades that are newer than the last candle are replayed. Only  *)
(* the service moves a published signal, one transaction after the other,  *)
(* so the status that record_tracking_event reads is still that of the     *)
(* signal when it commits.                                                 *)
FinishCandles ==
  /\ JobDone("candles") /\ job.todo = {}
  /\ LET s    == job.sym
         from == (job.at + 1) * MinuteTicks
         rest == Buffered(s, from)
     IN /\ Store!RecordTrackingEvent(views[s].id, <<"recovered", views[s].id, job.anchor>>, from,
                                  status[views[s].id])
        /\ pending' = [pending EXCEPT ![s] = NoAnchor]
        /\ job' = IF rest = {} THEN IdleJob
                  ELSE WorkJob("batch", s, job.anchor, rest, 0, <<>>)
  /\ UNCHANGED <<views, streamReady, streamVars, agenda, seen, doubtful>>
  /\ UnchangedByService

-----------------------------------------------------------------------------
(* The worker dies and is started again: only the rows survive.            *)
Restart ==
  /\ crashes < MaxCrashes
  /\ crashes' = crashes + 1
  /\ Unsubscribed(Symbols)
  /\ queue' = <<>>
  /\ views' = [s \in Symbols |-> NoView]
  /\ pending' = [s \in Symbols |-> NoAnchor]
  /\ streamReady' = {}
  /\ agenda' = {}
  /\ job' = BootJob
  /\ UNCHANGED <<storeVars, clock, tape, disconnects, seen, doubtful>>

Init ==
  /\ Store!StoreInit
  /\ clock = 0 /\ disconnects = 0 /\ crashes = 0
  /\ tape = [s \in Symbols |-> <<[price |-> FirstPrice, time |-> 0]>>]
  /\ link = [s \in Symbols |-> "off"]
  /\ received = [s \in Symbols |-> 0]
  /\ buffer = [s \in Symbols |-> {}]
  /\ outgoing = [s \in Symbols |-> <<>>]
  /\ queue = <<>>
  /\ views = [s \in Symbols |-> NoView]
  /\ pending = [s \in Symbols |-> NoAnchor]
  /\ streamReady = {}
  /\ agenda = {}
  /\ job = BootJob
  /\ opened = [s \in Symbols |-> 0]
  /\ seen = [i \in Signals |-> {}]
  /\ doubtful = {}

World == Tick \/ (\E s \in Symbols : ExecuteTrade(s)) \/ (\E i \in Signals : PublishSignal(i))

Stream == \E s \in Symbols :
  PutWaiting(s) \/ Connect(s) \/ Receive(s) \/ MarkReady(s) \/ Disconnect(s)

Service ==
  \/ BeginReconcile \/ (\E s \in Symbols, now \in 0..MaxTime : ReconcileSymbol(s, now))
  \/ HandleDisconnected \/ HandleReady \/ HandleTrade
  \/ Act \/ FinishLive \/ Establish \/ ReplayTrade \/ FinishBatch
  \/ ReplayCandle \/ FinishCandles

Next == World \/ Stream \/ Service \/ Restart

Spec == Init /\ [][Next]_vars
=============================================================================
