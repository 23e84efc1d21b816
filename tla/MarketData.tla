------------------------------ MODULE MarketData ------------------------------
(***************************************************************************)
(* Live market data: the kline shards (providers/bybit/websocket.py), the  *)
(* bounded queue between them and the live task (market_data/live.py), its *)
(* backfills (market_data/backfill.py) and the rows they write: 1m         *)
(* candles, checkpoints and gaps (db/repositories/market_data.py).         *)
(*                                                                         *)
(* Every symbol has a shard of its own. A shard whose put waits for room   *)
(* in the queue is one that has yet to take its step. Minutes are counted  *)
(* from the start of the history.                                          *)
(***************************************************************************)
EXTENDS Integers, Sequences, FiniteSets

CONSTANTS
  Symbols,          \* instruments that may be selected
  FirstUniverse,    \* the ones selected before the system first starts
  Horizon,          \* minutes of the history
  QueueSize, BackfillBatch,
  StartTime,        \* minutes that are closed when the system first starts
  MaxTime, MaxRefreshes, MaxFaults     \* bounds of the model

Minutes == 0..(Horizon - 1)

ASSUME MarketDataAssumption ==
  /\ FirstUniverse \subseteq Symbols /\ FirstUniverse # {}
  /\ {Horizon, QueueSize, BackfillBatch} \subseteq Nat \ {0}
  /\ {StartTime, MaxTime, MaxRefreshes, MaxFaults} \subseteq Nat
  /\ StartTime <= MaxTime /\ MaxTime <= Horizon

VARIABLES
  now,          \* the clock; minute m is closed when m < now
  universe,     \* selected members of the active snapshot
  stored,       \* minutes of each symbol in candles_1m
  confirmed,    \* last_confirmed_open_time of each checkpoint, or NoCheckpoint
  state,        \* state of each checkpoint
  gaps,         \* data_gaps of each symbol, in the order of their ids
  subscribed,   \* symbols of the stream manager
  shard,        \* connection of each symbol
  delivered,    \* newest minute each connection has delivered, or NoCheckpoint
  queue,        \* events the live task has yet to take
  live,         \* what the live task comes to next
  job,          \* _sync_target of each symbol
  ready,        \* the readiness event
  quiescing,    \* the worker is being shut down
  refreshes,    \* changes of the universe so far
  faults        \* lost connections, failures of REST, and restarts so far

rows == <<stored, confirmed, state, gaps>>
stream == <<subscribed, shard, delivered>>
task == <<live, job, ready, quiescing>>
bounds == <<refreshes, faults>>
vars == <<now, universe, rows, stream, queue, task, bounds>>

NoCheckpoint == -1
Faulty == faults < MaxFaults /\ faults' = faults + 1
LastClosed == now - 1
Least(a, b) == IF a <= b THEN a ELSE b
Greatest(a, b) == IF a <= b THEN b ELSE a
Target(phase, cursor, to, gap) == [phase |-> phase, cursor |-> cursor, to |-> to, gap |-> gap]
NoTarget == Target("none", 0, 0, 0)
GapRow(from, to, status) == [from |-> from, to |-> to, status |-> status]

(* _upsert_checkpoint that preserves last_confirmed_open_time.             *)
Marked(S, label) == [s \in Symbols |-> IF s \in S THEN label ELSE state[s]]

-----------------------------------------------------------------------------
(* The shards: _run_shard, _handle_payload.                                *)
HasRoom == Len(queue) < QueueSize

(* The first connection of a shard releases wait_until_ready; any later    *)
(* one is announced.                                                       *)
Connect(s) ==
  /\ shard[s] \in {"new", "down"}
  /\ IF shard[s] = "new" THEN UNCHANGED queue
     ELSE HasRoom /\ queue' = Append(queue, [type |-> "reconnected", symbol |-> s])
  /\ shard' = [shard EXCEPT ![s] = "up"]
  /\ UNCHANGED <<now, universe, rows, subscribed, delivered, task, bounds>>

(* The connection is lost. It is announced once, whatever attempts follow. *)
Drop(s) ==
  /\ shard[s] = "up" /\ HasRoom /\ Faulty
  /\ queue' = Append(queue, [type |-> "disconnected", symbol |-> s])
  /\ shard' = [shard EXCEPT ![s] = "down"]
  /\ UNCHANGED <<now, universe, rows, subscribed, delivered, task, refreshes>>

(* A closed candle, in order of time, some perhaps left out. _subscribe    *)
(* handles those that come before the answer to it, too.                   *)
Deliver(s, m) ==
  /\ shard[s] # "off" /\ HasRoom
  /\ delivered[s] < m /\ m <= LastClosed
  /\ queue' = Append(queue, [type |-> "candle", symbol |-> s, minute |-> m])
  /\ delivered' = [delivered EXCEPT ![s] = m]
  /\ UNCHANGED <<now, universe, rows, subscribed, shard, task, bounds>>

-----------------------------------------------------------------------------
(* UniverseRefreshService.refresh: another snapshot, or none.              *)
Refreshed(new) ==
  /\ universe' = new
  /\ IF new = universe \/ universe = {} THEN UNCHANGED refreshes
     ELSE refreshes < MaxRefreshes /\ refreshes' = refreshes + 1

(* run(): an empty universe ends the task, and with it the worker.         *)
Boot(new) ==
  /\ live = "boot" /\ new # {}
  /\ Refreshed(new)
  /\ ready' = FALSE
  /\ live' = "inactive"
  /\ UNCHANGED <<now, rows, stream, queue, job, quiescing, faults>>

(* mark_inactive_streams: checkpoints of symbols that were dropped.        *)
MarkInactive ==
  /\ live = "inactive"
  /\ state' = Marked({s \in Symbols \ universe : state[s] # "none"}, "offline")
  /\ live' = "warming"
  /\ UNCHANGED <<now, universe, stored, confirmed, gaps, stream, queue, job, ready,
                 quiescing, bounds>>

(* Faulty variant: what the old connections delivered stays in the queue.  *)
QueueKept == queue
QueueAtStart == <<>>

(* mark_stream_state and start(): the old shards are cancelled.            *)
StartStream ==
  /\ live = "warming"
  /\ state' = Marked(universe, "warming")
  /\ subscribed' = universe
  /\ shard' = [s \in Symbols |-> IF s \in universe THEN "new" ELSE "off"]
  /\ queue' = QueueAtStart
  /\ live' = "connecting"
  /\ UNCHANGED <<now, universe, stored, confirmed, gaps, delivered, job, ready, quiescing,
                 bounds>>

(* wait_until_ready.                                                       *)
StreamReady ==
  /\ live = "connecting"
  /\ \A s \in subscribed : shard[s] # "new"
  /\ live' = "due"
  /\ UNCHANGED <<now, universe, rows, stream, queue, job, ready, quiescing, bounds>>

-----------------------------------------------------------------------------
(* sync_once reads the time, the targets and their checkpoints.            *)
BeginSync ==
  /\ live = "due"
  /\ job' = [s \in Symbols |->
               IF s \in universe
               THEN Target("start", confirmed[s] + 1, LastClosed, 0)
               ELSE NoTarget]
  /\ live' = "syncing"
  /\ UNCHANGED <<now, universe, rows, stream, queue, ready, quiescing, bounds>>

(* Faulty variant: a single minute is not missed. *)
MissingSeveral(s) == job[s].cursor < job[s].to
Missing(s) == job[s].cursor <= job[s].to

(* A gap row is made of several missing minutes, or of a whole history     *)
(* (_requires_gap).                                                        *)
NeedsGap(s) ==
  Missing(s) /\ (confirmed[s] = NoCheckpoint \/ job[s].cursor < job[s].to)

(* _sync_target up to its first request.                                   *)
StartTarget(s) ==
  /\ job[s].phase = "start"
  /\ state' = IF NeedsGap(s) THEN [state EXCEPT ![s] = "recovering"]
              ELSE IF ~Missing(s) /\ confirmed[s] # NoCheckpoint
                   THEN [state EXCEPT ![s] = "ready"] ELSE state
  /\ gaps' = IF NeedsGap(s)
             THEN [gaps EXCEPT ![s] =
                     Append(@, GapRow(job[s].cursor, job[s].to, "recovering"))]
             ELSE gaps
  /\ job' = [job EXCEPT ![s] =
               IF Missing(s)
               THEN Target("fetch", job[s].cursor, job[s].to,
                           IF NeedsGap(s) THEN Len(gaps[s]) + 1 ELSE 0)
               ELSE NoTarget]
  /\ UNCHANGED <<now, universe, stored, confirmed, stream, queue, live, ready, quiescing,
                 bounds>>

(* A batch is contiguous (_validate_contiguous) and saved with its         *)
(* checkpoint (save_batch).                                                *)
SaveBatch(s) ==
  /\ job[s].phase = "fetch" /\ job[s].cursor <= job[s].to
  /\ LET end == Least(job[s].cursor + BackfillBatch - 1, job[s].to)
     IN /\ stored' = [stored EXCEPT ![s] = @ \cup (job[s].cursor)..end]
        /\ confirmed' = [confirmed EXCEPT ![s] = Greatest(@, end)]
        /\ job' = [job EXCEPT ![s] = Target("fetch", end + 1, @.to, @.gap)]
  /\ state' = [state EXCEPT ![s] = "recovering"]
  /\ UNCHANGED <<now, universe, gaps, stream, queue, live, ready, quiescing, bounds>>

GapBecomes(s, status) ==
  gaps' = IF job[s].gap = 0 THEN gaps ELSE [gaps EXCEPT ![s][job[s].gap].status = status]

(* Faulty variant: the last minute is left out. *)
FetchedAlmost(s) == job[s].cursor >= job[s].to
Fetched(s) == job[s].cursor > job[s].to

(* complete_gap.                                                           *)
CompleteTarget(s) ==
  /\ job[s].phase = "fetch" /\ Fetched(s)
  /\ GapBecomes(s, "recovered")
  /\ confirmed' = [confirmed EXCEPT ![s] = Greatest(@, job[s].to)]
  /\ state' = [state EXCEPT ![s] = "ready"]
  /\ job' = [job EXCEPT ![s] = NoTarget]
  /\ UNCHANGED <<now, universe, stored, stream, queue, live, ready, quiescing, bounds>>

(* Faulty variant: what was saved before the failure is taken as ready.    *)
AfterFailureReady(s) == IF confirmed[s] >= job[s].to - 1 THEN "ready" ELSE "degraded"
AfterFailure(s) == "degraded"

(* REST fails or leaves a candle out: fail_gap.                            *)
FailTarget(s) ==
  /\ job[s].phase = "fetch" /\ Faulty
  /\ GapBecomes(s, "failed")
  /\ state' = [state EXCEPT ![s] = AfterFailure(s)]
  /\ job' = [job EXCEPT ![s] = NoTarget]
  /\ UNCHANGED <<now, universe, stored, confirmed, stream, queue, live, ready, quiescing,
                 refreshes>>

(* _mark_ready, whatever became of the targets.                            *)
EndSync ==
  /\ live = "syncing" /\ \A s \in Symbols : job[s] = NoTarget
  /\ ready' = TRUE
  /\ live' = "events"
  /\ UNCHANGED <<now, universe, rows, stream, queue, job, quiescing, bounds>>

-----------------------------------------------------------------------------
(* run(): the next event, or a timeout. The timeout is zero, and comes      *)
(* though events wait, if the last sync outlasted the interval.            *)
TakesEvent(type) ==
  live = "events" /\ queue # <<>> /\ Head(queue).type = type /\ queue' = Tail(queue)

(* ingest_live_candle, and the backfill of a gap.                          *)
LiveState(s, m) ==
  IF confirmed[s] = NoCheckpoint \/ m > confirmed[s] + 1 THEN "degraded"
  ELSE IF m = confirmed[s] + 1 THEN "ready" ELSE state[s]

HandleCandle ==
  /\ TakesEvent("candle")
  /\ LET s == Head(queue).symbol
         m == Head(queue).minute
         gap == confirmed[s] = NoCheckpoint \/ m > confirmed[s] + 1
     IN /\ stored' = [stored EXCEPT ![s] = @ \cup {m}]
        /\ state' = [state EXCEPT ![s] = LiveState(s, m)]
        /\ confirmed' = IF ~gap /\ m = confirmed[s] + 1
                        THEN [confirmed EXCEPT ![s] = m] ELSE confirmed
        /\ ready' = (ready /\ ~gap)
        /\ live' = IF gap THEN "due" ELSE "events"
  /\ UNCHANGED <<now, universe, gaps, stream, job, quiescing, bounds>>

HandleDisconnected ==
  /\ TakesEvent("disconnected")
  /\ ready' = FALSE
  /\ state' = Marked({Head(queue).symbol}, "degraded")
  /\ UNCHANGED <<now, universe, stored, confirmed, gaps, stream, live, job, quiescing, bounds>>

HandleReconnected ==
  /\ TakesEvent("reconnected")
  /\ state' = Marked({Head(queue).symbol}, "recovering")
  /\ live' = "due"
  /\ UNCHANGED <<now, universe, stored, confirmed, gaps, stream, job, ready, quiescing, bounds>>

(* The periodic reconciliation.                                            *)
Reconcile ==
  /\ live = "events"
  /\ ready' = FALSE
  /\ live' = "due"
  /\ UNCHANGED <<now, universe, rows, stream, queue, job, quiescing, bounds>>

(* The periodic refresh; the stream starts anew if the symbols changed,    *)
(* and goes on as it is if none is left (_replace_symbols_if_changed).     *)
RefreshUniverse(new) ==
  /\ live = "events"
  /\ Refreshed(new)
  /\ IF new = subscribed \/ new = {} THEN UNCHANGED <<live, ready>>
     ELSE live' = "inactive" /\ ready' = FALSE
  /\ UNCHANGED <<now, rows, stream, queue, job, quiescing, faults>>

-----------------------------------------------------------------------------
Tick ==
  /\ now < MaxTime
  /\ now' = now + 1
  /\ UNCHANGED <<universe, rows, stream, queue, task, bounds>>

(* WorkerRuntimeState.begin_quiescence, before the tasks are cancelled.    *)
Quiesce ==
  /\ ~quiescing /\ faults < MaxFaults
  /\ quiescing' = TRUE /\ ready' = FALSE
  /\ UNCHANGED <<now, universe, rows, stream, queue, live, job, bounds>>

(* The worker ends, in any way, and starts again: only the rows survive.   *)
Restart ==
  /\ Faulty
  /\ subscribed' = {} /\ shard' = [s \in Symbols |-> "off"] /\ queue' = <<>>
  /\ live' = "boot" /\ job' = [s \in Symbols |-> NoTarget]
  /\ ready' = FALSE /\ quiescing' = FALSE
  /\ UNCHANGED <<now, universe, rows, delivered, refreshes>>

Init ==
  /\ now = StartTime /\ universe = FirstUniverse
  /\ stored = [s \in Symbols |-> {}]
  /\ confirmed = [s \in Symbols |-> NoCheckpoint]
  /\ state = [s \in Symbols |-> "none"]
  /\ gaps = [s \in Symbols |-> <<>>]
  /\ subscribed = {} /\ shard = [s \in Symbols |-> "off"]
  /\ delivered = [s \in Symbols |-> NoCheckpoint]
  /\ queue = <<>>
  /\ live = "boot" /\ job = [s \in Symbols |-> NoTarget]
  /\ ready = FALSE /\ quiescing = FALSE
  /\ refreshes = 0 /\ faults = 0

Exchange(s) ==
  Connect(s) \/ Drop(s) \/ (\E m \in Minutes : Deliver(s, m))

SyncTarget(s) ==
  StartTarget(s) \/ SaveBatch(s) \/ CompleteTarget(s)

LiveTask ==
  \/ \E new \in SUBSET Symbols : Boot(new)
  \/ MarkInactive \/ StartStream \/ StreamReady
  \/ BeginSync \/ (\E s \in Symbols : SyncTarget(s)) \/ EndSync
  \/ HandleCandle \/ HandleDisconnected \/ HandleReconnected \/ Reconcile

Next ==
  \/ \E s \in Symbols : Exchange(s) \/ FailTarget(s)
  \/ \E new \in SUBSET Symbols : RefreshUniverse(new)
  \/ LiveTask \/ Tick \/ Quiesce \/ Restart

Spec == Init /\ [][Next]_vars

(* The clock advances, the live task is scheduled and its reconciliation   *)
(* falls due. Of the exchange: it takes a connection in the end.           *)
FairSpec ==
  /\ Spec /\ WF_vars(Tick) /\ WF_vars(LiveTask)
  /\ \A s \in Symbols : WF_vars(Connect(s))

-----------------------------------------------------------------------------
States == {"none", "offline", "warming", "recovering", "ready", "degraded"}
Events ==
  [type : {"disconnected", "reconnected"}, symbol : Symbols]
    \cup [type : {"candle"}, symbol : Symbols, minute : Minutes]

TypeOK ==
  /\ now \in 0..MaxTime /\ universe \subseteq Symbols
  /\ stored \in [Symbols -> SUBSET (0..LastClosed)]
  /\ confirmed \in [Symbols -> NoCheckpoint..LastClosed]
  /\ state \in [Symbols -> States]
  /\ \A s \in Symbols :
       /\ \A i \in DOMAIN gaps[s] :
            gaps[s][i] \in [from : Minutes, to : Minutes,
                           status : {"recovering", "recovered", "failed"}]
       /\ job[s].phase \in {"none", "start", "fetch"}
       /\ job[s].phase = "fetch" => job[s].gap \in 0..Len(gaps[s])
  /\ subscribed \subseteq Symbols
  /\ shard \in [Symbols -> {"off", "new", "up", "down"}]
  /\ delivered \in [Symbols -> NoCheckpoint..LastClosed]
  /\ Len(queue) <= QueueSize /\ \A i \in DOMAIN queue : queue[i] \in Events
  /\ live \in {"boot", "inactive", "warming", "connecting", "due", "syncing", "events"}
  /\ {ready, quiescing} \subseteq BOOLEAN
  /\ refreshes \in 0..MaxRefreshes /\ faults \in 0..MaxFaults

(* A checkpoint says ready only if its symbol has every minute up to it,   *)
(* and none beyond it: a candle after a gap takes it back, and so does a   *)
(* backfill that fails halfway (load_reconciled_1m_window and the candle   *)
(* recovery of signals rely on it).                                        *)
ReadyIsComplete ==
  \A s \in Symbols : state[s] = "ready" => stored[s] = 0..confirmed[s]

(* A gap row that says recovered has its minutes, whatever failures and    *)
(* restarts there were between its batches (complete_gap).                 *)
RecoveredIsStored ==
  \A s \in Symbols : \A i \in DOMAIN gaps[s] :
    gaps[s][i].status = "recovered" => gaps[s][i].from..gaps[s][i].to \subseteq stored[s]

(* Once the stream runs, nothing that is left of an old connection marks a *)
(* symbol that was dropped from the universe again (start,                 *)
(* mark_inactive_streams).                                                 *)
DroppedIsOffline ==
  live \in {"connecting", "due", "syncing", "events"} =>
    \A s \in Symbols \ subscribed : state[s] \in {"none", "offline"}

(* docs/tasks.md: a restart after an outage repairs every candle gap. In   *)
(* the end every selected symbol has every minute and is ready, whatever   *)
(* was lost, failed, or changed in between (run, sync_once).               *)
CatchesUp ==
  <>[](\A s \in universe : stored[s] = 0..LastClosed /\ state[s] = "ready")

(* docs/requirements.md: on startup or reconnect no signals are generated  *)
(* until required gaps have been reconciled.                               *)
NoSignalsBeforeReconciliation == ready => \A s \in universe : state[s] = "ready"

(* docs/operations.md: during shutdown the worker first clears readiness   *)
(* and pauses new strategy cycles.                                         *)
ShutdownPauses == quiescing => ~ready
=============================================================================
