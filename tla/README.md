# A specification of StructurePulse in TLA+

StructurePulse watches Bybit's linear perpetuals, derives smart-money-concept
setups from closed candles, publishes signals, follows each signal trade by
trade as a virtual position, and tells Telegram users what happened. This
directory specifies the parts of it in which several actors meet: the database
rows, the asyncio tasks of the worker, the exchange, Telegram, and crashes.

Contents: 1 inventory of the system, 2 the modules, 3 the runs, 4 bounds and
abstractions, 5 fairness, 6 proofs, 7 known divergences, 8 plan.

Paths below are relative to `src/crypto_smc/` unless they start with `docs/`.

## 1. The system

Three processes share one PostgreSQL database: `worker` (a single replica),
`telegram` and `api`. The worker is one `asyncio.gather` of eight services
(`worker/__main__.py`); an exception of any of them ends the process, and the
container restarts it. Everything in memory is lost then; the rows are not.

| Component | State | Operations | Meets |
|---|---|---|---|
| Signal rows (`db/repositories/signals.py`, `signals/state_machine.py`) | `signals`, `signal_events`, `virtual_trades`, `notification_outbox` | publish_candidates, apply_transition, checkpoint_trade, record_tracking_event | strategy (publishes), lifecycle service (moves), outbox |
| Trade and candle evaluation (`signals/lifecycle.py`, `signals/fallback.py`) | none | evaluate_public_trade, evaluate_closed_candle | lifecycle service |
| Signal lifecycle service (`signals/service.py`, `signals/coverage.py`) | remembered signals, pending coverage anchors, ready symbols | reconcile, handle event, establish coverage, recover with candles | stream, REST, rows |
| Public trade stream (`providers/bybit/trade_websocket.py`) | one task, buffer and ready flag per symbol, one shared bounded queue | subscribe, unsubscribe, connect, receive, mark ready | lifecycle service, exchange |
| Telegram outbox (`db/repositories/notifications.py`, `telegram/outbox.py`, `telegram/transport.py`) | outbox rows, deliveries, user settings | enqueue, materialize, claim, send, mark, recover stale | commands, Telegram |
| Telegram commands (`telegram/commands.py`) | settings rows | pause, resume, schedule, score | outbox |
| Live market data (`market_data/`, `db/repositories/market_data.py`, `providers/bybit/websocket.py`) | 1m candles, checkpoints, gaps, shard tasks, readiness event | ingest, backfill, mark state, repair | aggregation, strategy, runtime |
| Aggregation (`aggregation/`, `db/repositories/aggregation.py`) | aggregates, jobs, cursors | seed, claim, load, finish, fail, recover stale | market data |
| Strategy cycle (`analysis/`, `strategy/service.py`, `db/repositories/strategy.py`) | evaluations, signatures, process pool | analyze once, save analysis | readiness, publication |
| Detectors (`smc_core/`) and evaluator (`strategy/evaluator.py`, `strategy/risk.py`) | none | analyze, evaluate_candidates, build_trade_plan | strategy cycle, replay |
| Publication policy (`signals/policy.py`) | none (reads rows) | evaluate_publication | signal rows |
| Universe (`services/universe_refresh.py`, `universe/policy.py`, `db/repositories/universe.py`) | instruments, snapshots, an advisory lock | refresh, replace_active_set, save_snapshot, evaluate | live task, providers |
| Replay (`replay/`) | none | resolve_candidate over stored candles, report | detectors and evaluator |
| Operational warnings, maintenance | bucketed keys, a flag in memory; rows | check once, delete expired | readiness, outbox |
| Runtime (`runtime.py`, `observability/runtime.py`) | readiness event, quiescing flag | begin quiescence | everything in the worker |
| API, clients, rate limiter, configuration | counters of the limiter | reads, I/O | |

What is hard in it, and what makes each part correct:

* **Signal rows.** Two state machines move in one transaction and must stay a
  legal pair; the idempotency key makes a retried transition a no-op; a symbol
  has one tracked signal; what is closed stays closed; every status a user is
  told of was really entered, and is told once.
* **Lifecycle service.** Trades come by three ways (live queue, buffer and REST
  replay, candle fallback) and a connection may be lost while coverage is being
  proven. While a signal is tracked without pending coverage no trade may be
  missing; a restart resumes at the checkpoint, so nothing below it may have
  been skipped; one trade can move a signal in two transactions with a crash
  between them; no interleaving may ask for an illegal transition.
* **Trade stream.** The queue is bounded and shared: a slow service blocks the
  streams, which must get going again, and the service itself waits for stream
  tasks it cancels. Buffers drop their oldest trades.
* **Telegram outbox.** A crash or a lost answer leaves it unknown whether a
  message was taken. A message must not be sent twice; rows must not claim what
  did not happen; commands commit between the statements of a claim, and hold
  the settings row that the claim would lock.
* **Aggregation.** A candle may be repaired while its aggregate is computed, and
  the websocket may say something else of a minute than REST did.
  An aggregate must agree with its source or have a job that will make it so.
* **Market data.** Several flows write one checkpoint; everything up to it must
  be stored, and what it calls ready must be complete. Shards keep delivering
  into a bounded queue while the live task backfills; a backfill may fail
  between two batches; the universe may change under queued events. In the end
  every selected symbol must have every minute. Readiness gates the strategy.

* **Detectors and evaluator.** Everything is computed anew from the newest
  candles after each of them. A further candle must not revise what was reported
  (no look-ahead); a zone must only age; the window of loaded candles must not
  change what lies inside it. Long and short are written out by hand as mirror
  images in every detector. A zone, a break and a sweep are each the newest of
  their kind, so an accepted candidate may combine what does not belong together.
* **Universe.** The lock belongs to a database session that may end while the
  refresh goes on; rows and snapshot are two transactions. There must be one
  universe, which does not fall back to an older answer.
* **Replay.** It sees candles only and must not report an outcome no order of
  trades gives, nor count an unknown one for more than it was.

Components without a module yet, and their properties, are in section 8.

## 2. The modules

| Module | Models | Variables stand for |
|---|---|---|
| `SignalStates` | the two transition tables and the mappings derived from a target status | (none) |
| `SignalStore` | the transactions of `SignalRepository`; abstract in that any caller may ask for anything | `status`, `createdAt`, `tradeStatus`, `currentStop`, `remaining`, `checkpoint`: columns; `events`: `signal_events`; `outbox`: `notification_outbox` |
| `TradeEvaluation` | `evaluate_public_trade`, `evaluate_closed_candle`, the arguments `_apply_action` derives | (none) |
| `VirtualPosition` | what a virtual position promises: filled once, half closed at TP1, then breakeven, closed for good | `position`, `stop` |
| `TradePlan` | `build_trade_plan`: levels, size and refusals of a setup | (none) |
| `ReplayResolver` | `resolve_candidate`, one candle at a time, and the profit of its outcomes | (none) |
| `CandleAgreement` | the trades of each minute against its closed candle and against the replay, for plans of `TradePlan` | `path`, `status`: trades of the minute and the signal after them; `replayed`: the replay; `possible`, `jumped`: history variables |
| `MarketStructure` | every detector of `smc_core` and `analyze`, over a growing series of candles and over the window the worker loads | `closed`: the candles; `whole`, `recent`: the two analyses |
| `StrategyEvaluation` | `evaluate_candidates` on top of both: score, suppressions, plan | `accepted`: what the newest evaluation accepts |
| `UniversePolicy` | `UniversePolicy.evaluate`, and the documented selection without its loop | (none) |
| `UniverseRefresh` | `UniverseRefreshService`, the two transactions and the lock, in several workers, and how the live task follows | `instruments`, `snapshots`: rows; `lock`: the advisory lock; `pc`, `fetched`, `seen`, `streaming`: each worker; `answers`, `written`, `overlapping`: history variables |
| `SignalTracking` | `SignalLifecycleService` and the stream tasks over the rows of `SignalStore` | `views`, `pending`, `streamReady`: the service's memory; `job`: what it is working at; `link`, `buffer`, `queue`, `outgoing`: the stream manager; `tape`: the exchange; `seen`, `opened`, `doubtful`: history variables |
| `SignalGuarantees`, `SignalClaims` | properties of `SignalTracking`; the second holds those the documents state and the code breaks | |
| `TelegramOutbox` | `NotificationRepository`, `NotificationOutboxService`, the answers of Telegram and the users' commands | `note`, `status`, `attempts`, `nextAttempt`, `updatedAt`: rows; `paused`, `minimumScore`, `schedule`: settings; `editing`: settings rows that open commands have locked; `phase`, `seenPaused`, `claimed`, `result`: the delivery loop; `accepted`, `sincePause`, `commands`, `overlooked`: history variables |
| `Aggregation` | the aggregation and reconciliation services, and the transactions that write 1m candles, for one symbol | `source`, `confirmed`, `aggregate`, `jobs`, `cursor`: rows; `worker`, `batch`, `loaded`, `samples`: the services; `silent`, `overlooked`: history variables |
| `MarketData` | `LiveMarketDataService`, the backfill, the kline shards and their queue | `stored`, `confirmed`, `state`, `gaps`: rows; `shard`, `queue`, `subscribed`: the stream manager; `live`, `job`: the task; `ready`, `quiescing`: the runtime |
| `Publication` | the analysis cycle, `save_analysis`, `publish_candidates` and the rules of `evaluate_publication` | `snapshots`, `signals`: rows; `stored`: the newest candle of each symbol; `holder`: the advisory lock; `work`: the cycle and open transaction of each analyst |
| `MC...` | values of the constants for TLC | |
| `...Proofs` | theorems of the module they are named after; `StrategyProofs`: of `TradePlan`, `CandleAgreement`, `MarketStructure` and `StrategyEvaluation` | |

`SignalTracking` instantiates `SignalStore` (`Store!...`): each of its
transitions is an action of the store conjoined with what the service does next
in memory. `SignalGuarantees` shows it to implement `VirtualPosition`.
`CandleAgreement` composes the two evaluators, the replay and the plans.
`StrategyEvaluation` composes detectors, evaluator and plan. `UniverseRefresh`
stands before `MarketData`, where a refresh is only what the live task sees of
it. `Aggregation` and `MarketData`
look at the same writers of `candles_1m` from two sides: the first keeps one
symbol, its aggregates and the revisions of its candles, and reduces the live
task to its transactions; the second keeps the live task, the shards and several
symbols, and drops the aggregates. `Publication` and `SignalStore` look at the
inserts of `publish_candidates` in the same way: the first keeps times, limits
and what may run at once, the second what becomes of the rows.

How code becomes actions:

* An action runs from one `await` whose outcome another task can change to the
  next, and commits at most one transaction. `MarketData` cuts `run` at
  `mark_inactive_streams`, `start`, `wait_until_ready`, the beginning and end of
  `sync_once`, and each target of `sync_once` at each batch, because
  `asyncio.gather` interleaves the targets. `SignalTracking` cuts `_apply_action`
  between two transitions of one trade. `Publication` cuts `save_analysis` where
  it waits for the advisory lock and after the rows are read.
* A row lock held to the commit makes a transaction atomic. Where the code reads
  before it locks (settings in `claim_delivery`, the source in `load_source`,
  targets and checkpoints in `sync_once`), the read is an action of its own.
  `record_tracking_event` reads the status of a signal without a lock: the row
  it adds names any status the signal has or had (`RecordTrackingEvent`, `read`).
* A lock matters beyond its transaction where another statement skips it
  (`skip_locked` in `claim_delivery`): a command of a user is then two actions,
  `BeginCommand` and `CommitCommand`, with the row locked in between.
* A crash (`Restart`) is possible in every state; it
  resets what is in memory and nothing else.
* Definitions introduced as a faulty variant are not used by the specification.
  They say what a plausible mistake in the definition below them would be, and
  the property that catches it is named in `PROJECT.json` under "mutants".

## 3. The runs

| Run | Question | States |
|---|---|---|
| `signal_store` | Do the rows stay consistent whatever the callers ask for? Two signals of one symbol, any target, four keys. | 7 thousand |
| `tracking_exact` | Is every trade evaluated, with an overflowing buffer, a full queue, a REST history behind the exchange, a lost connection and a crash? | 1.7 million |
| `tracking_recovery` | When coverage cannot be proven and closed candles decide: does the position behave like `VirtualPosition`, and is nothing left behind in memory? | 1.5 million |
| `tracking_successors` | Do a queue of size one and events of an earlier subscription confuse the next signal or block it for good? | 136 thousand |
| `candle_agreement` | Is the candle fallback right wherever the order of the trades does not matter, and never blind to a stop? Does a replay report what could have happened? | 275 thousand |
| `strategy` | Are detectors what the documents say, free of look-ahead and independent of the window? Do long and short mirror each other, and is no accepted candidate already invalidated? | 99 thousand |
| `universe` | Is there one universe, from the newest answer, in order of rank, with overlapping workers, lost locks and crashes? | 416 thousand |
| `telegram_outbox` | Is a message sent at most once, do rows tell the truth, is every note settled, when answers are lost and commands come in between? Is a pause heeded? | 1.2 million |
| `aggregation` | Does a wrong aggregate always have a job, and does every job end, for two intervals? | 944 thousand |
| `market_data` | Do ready checkpoints and recovered gaps tell the truth, does a dropped symbol stay offline, and does everything catch up? | 751 thousand |
| `publication` | Do the limits hold in every rolling window, with two analysts, late candles, rollbacks and crashes? Does an analysis publish once? | 2.9 million |
| `claim_exchange_order` | A sentence of the documents that the code does not keep; section 7. | |

What the less obvious properties say:

* `RowsAgree`: signal status and virtual trade are always a pair that the two
  state machines reach together. `HistoryIsPath`: the event rows of a signal that
  change its status are a path of its state machine that ends in its status. The
  rows of `record_tracking_event` change nothing and stand between them; each
  names a status that the path has reached before it, not always the last one,
  because it was read without a lock.
* `NothingMissed`: while a signal is tracked trade by trade with no coverage
  pending and no disconnection announced, each of its trades was evaluated or is
  on its way. `NothingSkippedBelowCheckpoint`: what a restart will not look at
  again was evaluated. Both hold whatever REST answers: an answer that does not
  reach the anchor, or does not meet the buffer, proves nothing, and with one that
  does nothing is lost, however far it lags. They leave out the signals
  (`doubtful`) whose coverage was accepted on an answer that `merge_trade_coverage`
  cannot judge (`Uncertain`): it ends before the present connection was made and
  overlaps with what an earlier one left in the buffer, or it begins in the middle
  of the instant of the anchor. Section 7 has what happens then. They also leave
  out signals that were recovered with candles. `MemoryMatchesRows`: between two steps the remembered
  signal is the row. `NothingLeftBehind`: a symbol without a signal has no
  subscription, buffer or pending anchor. `PreparingResolves` and
  `BackpressureEnds`: neither a silent exchange nor a full queue blocks a signal.
* `AgreesWhenOrderIsIrrelevant`: if all orders of the trades of a minute lead to
  one status, the candle finds it. `ProfitIsPossible`: the candle never credits
  what no order of its trades gives. `ReplayIsPossible` says the same of a whole
  replay: over all minutes, what it reports is an outcome of some order of the
  trades within their minutes, or ambiguous. Both leave out the minutes in which
  the price jumped over the entry zone (section 7).
* `DetectorsAsDocumented`: breaks and sweeps found by the loops, with their
  bookkeeping of swings already broken, are those of `docs/smc-core.md` stated
  by quantifiers. `NothingIsRevised`: a candle adds events and takes none back,
  so nothing depended on the future. `ZonesOnlyAge`: an order block or gap never
  reopens. `WindowSeesTheSame`: what the analysis of the loaded candles finds
  is what the analysis of all of them finds there, but for events that hang on
  candles before the window.
* `MirroredRules`: in the market turned upside down a long is a short of the same
  score, suppressed for the same reasons, with the mirrored zone and target,
  through all detectors. `NotYetInvalidated`: no candle after the one that
  created its zone has closed beyond the stop of an accepted candidate, although
  zone, ATR and stop are new in every analysis. For a gap this includes the
  candle that created it, and for an order block when no candle from its source
  on opened short of the close before; otherwise the block may lie beyond the
  very candle that made it (section 7).
* `OneUniverse` holds with lost locks too, `NothingGoesBack` while no lock is
  lost. `SelectionFollowsRank`: the loop with its set of taken contracts selects
  the first fit assets, although two assets may share a contract and the first
  of them may be unfit. `LockIsReleased`: no path of a refresh keeps the lock.
* `RowsTellTheTruth`: a delivery marked sent was sent, one to be retried,
  skipped or failed was not. `PauseIsHeeded`: after /pause at most the message
  in flight leaves, and one more for each command since then, which may have
  hidden the pause from a sweep (section 7). `EverythingSettles` leaves out a
  delivery that was in sending when the process died and too fresh for the
  recovery at the next start: nothing looks at it again (section 7).
* `AggregateOrJob`: an interval without a job has the aggregate its minutes
  give, or none if they are incomplete. The exception is `silent`: intervals of
  which a live candle has replaced a minute without completing them, until their
  minutes are loaded again (section 7). `JobsEnd` leaves out a job that was in
  processing when the worker died and too fresh for the recovery at the next
  start, unless a minute of it is written again.
* `ReadyIsComplete`: a ready checkpoint has exactly the minutes up to it, so a
  live candle beyond a gap, a failed batch or a batch of a concurrent target
  must have taken "ready" back. `RecoveredIsStored`: a recovered gap row has its
  minutes although each sync makes new rows. `DroppedIsOffline`: events of old
  shards never revive a symbol that left the universe. `CatchesUp`: in the end
  every selected symbol has every closed minute and is ready.
* `PortfolioLimits`: any hour and any burst window has at most the allowed number
  of signals. The time of a signal is taken before the lock is granted, so
  signals are decided in another order than their times, and a decision may see
  rows from its future. `CooldownKept` is symmetric for the same reason.
  `OncePerAnalysis`: candles that are analysed again, while the data stands
  still, do not publish a second signal even when cooldown and lifetime would
  allow it.

Each of these 40 checks is known to fail for one faulty variant.

The `Claim...cfg` of section 7 are checked by hand, and so was the market data
with two faults and a start at minute 2 (safety only, 3.5 million states).

## 4. Bounds and abstractions

Bounds are conjuncts of guards (`MaxTrades`, `MaxTime`, `MaxDisconnects`,
`MaxCrashes`, `MaxChanges`, `MaxRefreshes`, `MaxFaults`, `MaxCycles`); no state is cut off by a constraint. They are chosen so that each
scenario named in section 1 occurs: the buffer overflows (two slots, four
trades), the queue fills (one or two slots), a signal is entered, reaches TP1
and closes within the trades there are, a note is retried to its last attempt
and in between paused, a job is repaired while it is loaded, a gap needs two
batches with a failure between them. One fault is enough to reach
every recovery path, because a recovery ends in a state of the kind it started
from; two faults of the market data were checked by hand, and the theorems are
about any number. Passing runs take every action.

Abstractions, by module:

* `SignalStore`, `SignalTracking`: a candidate is a signal that may be
  published; scores, plans and funding are payload. A trade is its position on
  the tape, so exchange order is the order of integers, and the tape breaks the
  ties of time stamps. One `Receive` handles one payload and `MarkReady`
  follows it separately, which allows more than the code does. REST returns the
  newest `RestLimit` trades as of up to `RestLag` trades ago, wherever that begins
  in an instant; an error of it ends the worker, which is `Restart`. In
  `SignalTracking` a tracking event names the current status: its only caller is
  the service, and nothing but the service moves a published signal.
  `tracking_exact` has a lag of two of its four trades; the other two runs are
  about what follows when coverage is or is not proven, and have none.
* `CandleAgreement`: five setups, of which `TradePlan` and the ratio of reward
  to risk leave a long and a short; seven prices around every level; up to three
  trades a minute, all orders of which are tried, in four minutes, the last
  beyond the expiration. Every minute has a trade. Money is exact: fees are
  fractions of `FeeParts`, decimals are not rounded.
* `MarketStructure`, `StrategyEvaluation`: prices are integers, averages exact
  fractions. Five shapes of candles, which displace, leave gaps, sweep and fill,
  in every series of up to seven, with a swing window of one candle, averages of
  two and a window of five candles: enough for a swing, its break with
  displacement, the zone it leaves, its fill and its retest in one series, and
  for two candles to fall out of the window. The search for the source of a
  block goes four candles back, beyond the swing that is broken, as the 20
  candles of the worker do with its swing window of three. Other timeframes, the market
  filters and the price are a context; four contexts open and close each
  condition, and both long and short candidates are accepted in some state.
  Sizes and names of events and the leverage shown are left out.
* `UniverseRefresh`: two workers, four answers that differ in what is listed, fit
  and ranked first, three of which come in a run, and one crash or lost lock.
  Names are classes; tickers have turnover and spread. The answer that lists
  nothing is one of the four.
* `TelegramOutbox`: one process delivers, as deployed, and runs the commands as
  well, so both die together. The claim skips the settings rows that open
  commands hold: in the sweep, which then does not see a user who has paused
  long ago, and in the pick, which puts a delivery off. A command waits for
  another of its user and for a claim that has swept a delivery of its user. That
  the inserts of `materialize_pending` wait for a command (they refer to the
  settings row) changes nothing, since what they insert was decided before: it is
  the same as expanding first. The time of day is the clock modulo `DayTicks`. A
  429 answers with a delay of `RetryAfters`.
* `Aggregation`: one symbol; jobs of equal priority and time are taken in any
  order instead of by id; `updated_at` is the tick of the clock; the history
  starts at minute 0. A closed candle of the websocket may differ from the stored
  one, and a repaired one from both. A failed job, a repeated candle, a repair
  and a restart share one bound. The run has two intervals of two minutes, both
  of which are completed, and one fault; a second fault, a longer clock or a
  second timeframe takes more states than a run may have, and is covered by the
  theorems, as far as safety goes.
* `MarketData`: a shard per symbol (the code puts several in one, whose events
  name all of them); a put that waits for room is a step not yet taken, so a
  shard blocked in `_subscribe` may still become connected; `Deliver` may leave
  minutes out, in order, which stands for everything a connection can lose. The
  history starts at minute 0: that a first backfill which fails is tried again
  with a later start is not modelled. `max_parallel_symbols` is left out, since
  fewer interleavings are possible with it. A failure of `sync_once` before its
  targets, a timeout of `wait_until_ready` and any other exception end the
  worker, which is `Restart`. A timeout of `next_event` may come with events
  waiting, because its argument is zero after a sync longer than the interval.
* `Publication`: a tick is a 5m candle; a candidate is its direction, and the run
  takes short alone or both, long alone being the first half of both. A
  suppressed signal counts for no rule and is left out of the state, with its
  reason. The strategy version has its row. The wait for readiness is in
  `MarketData`. Windows are scaled (an hour of three ticks, two signals in it,
  one per burst window, a cooldown of two), so that each rule is the one that
  refuses in some state and four ticks see windows end. Two cycles and two
  symbols make four transactions; the hourly limit needs three. With one BTC
  candle abnormal the cycle refuses more; `ClaimBreaker.cfg` has one.

## 5. Fairness

* `TelegramOutbox`, `Aggregation`, `MarketData`: weak fairness of the clock and
  of the one task of the service. The event loop runs a task that is not
  waiting, the clock advances, and no service waits for another. In
  `TelegramOutbox` a command that has its lock commits in the end
  (`CommitCommand`): between its select and its commit it waits for the database
  only.
* `SignalTracking`: the service takes events and reconciliations in turn
  (`run` computes the time of the next reconciliation anew after each), so each
  kind of step is taken infinitely often if it is infinitely often enabled:
  strong fairness of `BeginReconcile` and the event handlers, weak fairness of
  the steps that follow. A task blocked in `put` is woken in the order of
  waiting (`asyncio.Queue`). Nothing is assumed of the exchange.
* `MarketData` assumes in addition that the exchange takes a connection in the
  end (`Connect`), and, since every fault is counted, that failures are finitely
  many. It assumes nothing about candles being delivered: `CatchesUp` follows
  from the periodic reconciliation alone.

* `UniverseRefresh`: weak fairness of what a worker does during a refresh: each
  statement and each request ends, with an answer or an error (the HTTP clients
  have timeouts). Nothing is assumed of when a refresh is due.

## 6. Proofs

`tlapm` proves the following for all values of the constants that satisfy the
named assumptions of each module.

`SignalStoreProofs` (`StoreTyped`, `StoreRowsAgree`, `StoreOneTracked`,
`StoreHistoryIsPath`, `StoreKeysUnique`, `StoreNotifiesHistory`,
`StoreClosedIsFinal`). Types, agreement of the rows, the single tracked signal
and the keys are inductive given the types. Agreement rests on `MovesAgree`: the
virtual trade's table allows the mapped move wherever the signal's table allows
the move. `StoreHistoryIsPath`, `StoreKeysUnique` and `StoreNotifiesHistory` rest
on `EventStep`, which says what one transaction does to history, statuses and
outbox: nothing, or one row with a new key, which either continues from the status
and comes with a notification or names a status of an earlier row. What some
rows lead to (`LeadsTo`) does not depend on rows that change nothing, so a
tracking event with an outdated status leaves the path as it is
(`LeadsToAppended`).

`TelegramOutboxProofs` (`DeliveryInvariantHolds`, `OutboxAtMostOnce`,
`OutboxRowsTellTheTruth`, `OutboxExpandedForEveryone`,
`OutboxPauseIsHeeded`). At most once is not inductive: that the row says
"sending" does not exclude that Telegram already has the message. The invariant
adds what the loop holds: the claimed delivery is the one marked as sending
(`HeldIsSending`), Telegram does not have it before the send, and after it the
result agrees with what Telegram has (`ResultTellsTheTruth`). A crash loses the
result and leaves "sending", which no step sends again. `PauseInvariant`: what a
paused user was sent is paid for by the pause or by a command after it, and what
may still leave (`OnItsWay`: it is being sent, or an open claim has not seen the
pause and finds the row unlocked) is paid for in advance. A sweep that misses the
pause does so because a command holds the row; the commit of that command pays
for the message that the claim may then pick.

`UniverseRefreshProofs` (`RefreshTyped`, `RefreshOneUniverse`,
`RefreshMovesOn`, `LoopSelectsFirst`, `RefreshFollowsRank`,
`RefreshNothingGoesBack`). One universe needs no lock: a save that commits has
seen every active snapshot. That universes move on needs it: `OrderInvariant`
says that between lock and release a worker is alone (`HeldByOne`) and that what
it fetched is newer than everything saved (`WorksOnNewest`).

`LoopSelectsFirst` is about the policy alone: for an answer of any length, what
its loop over the ranked assets selects is what `FirstEligible` says without a
loop: the contracts of the eligible assets in order of rank, each contract once,
up to the size. It takes contracts to be told apart by their symbols and a base
to have at most one contract of the expected name (`WellFormed`, which the
constants must satisfy by `SaidAssumption`): Bybit lists a symbol once. The
induction over the rounds
cannot be cited from the library, whose induction rules take an operator; it is
done by hand, from a least round at which the claim fails (`WFMin`, from
`NatLessThanWellFounded`). `SelectionInvariant` carries the result through the
refresh: a snapshot is the evaluation of its answer (`SnapshotsFit`), and a
worker that comes to save one has written the instruments of the answer
(`WorkFits`), so that members have rows (`MembersHaveRows`). It needs no lock.

`PublicationProofs` (`PublicationTyped`, `PublicationOncePerAnalysis`,
`PublicationCooldownKept`, `PublicationLimits`). `Effects` reduces every step to one of six. Once per
analysis: no analyst is at a committed analysis and no two are at the same
(`AtNewInputs`), and a snapshot is committed with its signals (`SavedFirst`).
The cooldown: whoever decides has read every signal that can still cool a symbol
down (`SeesRecent`), because the rows are read under the lock, as far back as
the longest window. The limits: rows are replaced while an analyst decides, so
its set of rows is not the one in the table; but whoever decides has read at
least as many signals since the beginning of its windows as there are
(`SeesEnough`), and a window that gains its signal begins no earlier than its
own. The counting is by cardinalities of sets.

`StrategyProofs` goes from the candles to the trades of a signal. Its middle part
is about a trade plan and the minutes of its signal (`TradePlan`,
`CandleAgreement`), for any setups, fees, buffers, prices and number of trades.

* The plan (`PlanKeepsTheRisk`, `PlanOrdersLevels`, `PlanPaysTheFees`): one that
  is not refused loses at most the risk amount when it is stopped, its levels
  lie in their order, and TP2 lies beyond the breakeven.
* The minute (`PathInvariantHolds`): trades move the status one by one, the
  candle knows the extreme prices only. `PathInvariant` says that there are such
  extremes (`PathHasRange`), that a signal stopped or invalidated in the minute
  had a trade beyond the initial stop (`StopIsSeen`), and which statuses the
  minute can have begun with (`CameFrom`).
* The candle (`CandleMissesNoStop`, `CandleInventsNoProfit`, `CandleAgrees`).
  The first follows from the invariant: the price that stopped the signal is in
  the candle. The second names the order: the trade that reaches the target
  comes first. For the third, every status the candle declares, except
  ambiguous, is what some order of the trades ends in (`SomeOrderEnds`): they
  are split into those put first and the rest (`SomePricesFirst`), and a status
  nothing else moves is kept to the end (`KeptToTheEnd`). If all orders end in
  one status, that is it.
* The replay (`ReplayReportsThePossible`). `ReplayInvariant`: some trades, in
  some order within each minute, lead where the replay is
  (`SomeTradesLeadThere`), which one more candle keeps by `SomeOrderEnds`
  (`ReplayFollows`). The order that keeps a signal waiting must not be stopped,
  so the replay may wait only while the signal is active (`WaitsTogether`), and a
  minute that moves an active signal shows it (`WhyNotActive`).

`CandleAgrees` and `ReplayReportsThePossible` have a hypothesis on the plan,
`LevelsApart`: both targets lie outside the entry zone, and TP1 beyond the
breakeven. The plans the run follows satisfy it, but the code does not guarantee
its last part: TP1 is a multiple of the risk alone (`risk.py:67`). For the setups
of `ClaimBreakeven` TLC refutes both properties: two trades at TP1, which
lies before the breakeven, take the first target and are then beyond the moved
stop, in either order, and the candle says TP1 alone. TLC checked the
two invariants on the instance of the run before they were proved.

The rest of `StrategyProofs` is about the detectors and what is made of them
(`MarketStructure`, `StrategyEvaluation`), for any shapes of candles, lengths of
series and window, and settings. The detectors are pure, so what they compute is
stated in lemmas about any series of candles, with prices of either sign
(`Candles`), and the theorems follow from the invariant that both analyses are
those of the candles closed so far (`StructureInvariant`,
`EvaluationInvariant`).

* The loops (`DetectorsFindWhatIsDocumented`). The scans are recursive functions
  over the candles, and an induction of its own gives each a closed form: a
  property that one more candle keeps holds of every prefix (`RoundByRound`,
  `RuleIsFollowed`, `SameRule`). The swing a candle faces is the newest one
  confirmed before it (`FacingIsLatest`), it stands as long as nothing closed
  beyond it (`BreakState`, `SweepState`), and the trend is the direction of the
  newest break (`TrendAt`). That the loop looks at the low only when the high is
  not broken hides nothing, because no candle closes beyond both (`OneSided`).
* No look-ahead (`ReportedIsFinal`, `ZonesAge`). Of a series and its
  prefix, swings, breaks, sweeps, averages, displacements, gaps and blocks agree
  as far as the prefix goes (the lemmas named `...Prefix`); the first candle that
  touches or ends a zone stays the first (`ZoneAges`).
* The window (`WindowHidesNothing`). A detector run on the last candles finds
  what lies in them, shifted (`...OfWindow`), unless it hangs on a swing from
  before the window.
* What is accepted (`AcceptedIsStillValid`). The entry zone is one zone, and open
  or partly filled (`EntryZoneFacts`), so no later candle has closed on its far
  side (`GapHolds`, `BlockHolds`); the stop lies beyond that side
  (`StopBeyondZone`, from `PlanOrdersLevels`). In a block no candle between its
  source and its break goes the other way (`SourceIsLastOpposite`), so the
  closes only rise up to the break if no candle opens short. An earlier form of
  the property left this condition out: the proof failed here, and TLC found the
  counterexample once the search for the source was longer than the swing
  window.
* Both directions (`RulesAreMirrored`). Two series mirror each other (`Mirrors`)
  when each candle of one is the other's upside down. The relation is symmetric
  (`MirrorsBack`), so it is enough that whatever a detector finds in one is found
  mirrored in the other (`SwingsMirror`, `BreaksMirror`, `SweepsMirror`,
  `DisplacementsMirror`, `GapsMirror`, `BlocksMirror`): the other half is the same
  lemma with the two exchanged. Averages and sizes depend on ranges alone, which
  do not change (`AveragesMirror`, `SizesMirror`). The zone that was created last
  is unique, so the one taken for the entry is mirrored too (`EntryZoneMirrors`),
  and in a context seen from the other side (`Flipped`) so are target, score and
  what suppresses (`TargetsMirror`, `ScoresMirror`, `SuppressionsMirror`). The
  hypothesis `BoundedShapes` says that prices have a bound, as the numeric
  columns of the database do: without a highest price there is nothing to turn
  the market around.

`AggregationProofs` (`AggregationInvariantHolds`, `AggregatesAgree`,
`CheckpointIsCovered`), without a hypothesis. The invariant adds: minutes beyond the checkpoint come from the websocket only, in
order (`NothingBeyond`), so a live candle that does not close its interval finds
it incomplete; aggregates and samples are of complete intervals
(`OnlyComplete`); jobs of a batch have rows (`BatchHasRows`); and what a worker
loaded is up to date as long as it still owns the job (`LoadedFresh`), which is
why `finish_job` compares the claim. The intervals that a live candle has changed
without a job are left out of `LoadedFresh` and of `AggregateOrJob` (`silent`);
every other writer requeues what it changes (`SourceStep`).

`MarketDataProofs` (`MarketDataTyped`, `CheckpointsCovered`, `ReadyIsUnbroken`,
`RecoveredGapsStored`, `DroppedStayOffline`, `RowsOnlyGrow`), for any symbols,
queue size, batch size and number of faults. None of the three properties of the
run is inductive. A checkpoint must have every minute up to it (`Covered`), or
the candle that follows it could make it ready over a gap; what is stored beyond
it came over the connection (`Beyond`); queued candles are in order and newer
than what is stored beyond the checkpoint (`InOrder`), or an old event could
fall behind a ready checkpoint; the target of a backfill has stored what lies
before its cursor (`JobsAgree`), or `complete_gap` could claim too much; and
shards, queue and universe agree while the stream runs (`StreamAgrees`), or a
leftover event could mark a symbol that was dropped.

`SignalTrackingProofs` is the largest: the composition of the lifecycle service
with rows, streams, exchange and restarts, for any signals, symbols, plans,
prices and bounds. Its first part rests on `ServiceInvariant`:

* the types, with the bounds of queue and buffers (`TypeOK`);
* the rows (`RowsFit`): those of the store, and that a used key tells its signal
  and its target, which the status has reached (`KeysTellTargets`), so a
  transition the state machine allows never meets its own key (`KeyIsFresh`);
* the tape is ordered and of the past, and rows do not point beyond it
  (`TapeFits`, `RowsInTime`);
* trades are queued in their order and not before they were received
  (`EventsInOrder`);
* the job is about a remembered signal, and the actions it has yet to apply are
  a path of the state machine from the remembered status, through the commit
  between two actions of one trade (`JobFits`, `ActsAhead`);
* the agenda is about remembered signals, each once, and not about the job's;
  who has no stream is on it (`AgendaFits`);
* memory is not ahead of the rows (`MemoryFits`, `MemoryMatchesRows`).

From it: `TrackingTyped`, `TrackingNeverIllegal`, `TrackingMemoryMatches`,
`TrackingLeavesNothing`. With it every step is a transaction of the store
(`StoreMove`), so the service implements `SignalStore` (`TrackingImplementsStore`)
and inherits its theorems (`TrackingKeepsHistory`); and the rows implement
`VirtualPosition` (`TrackingPosition`), because stop and open part follow from
the status (`PositionFollows`).

Its second part proves `NothingMissed` (`TrackingMissesNothing`) and
`NothingSkippedBelowCheckpoint` (`TrackingSkipsNothing`), for any lag and length
of the REST history. What the code's check of the overlap gives is `EstablishCovers`: if
the history reaches the anchor and meets the buffer, and the answer is not
`Uncertain`, then REST and buffer together have every trade from the anchor to
the newest one received. The trades that REST lacks at its end are those of the
present connection, and a buffer that holds any older trade still holds them
(`BufferRetains`). That the overlap is with a trade of the present connection is
enough for the first clause of `Uncertain` to be false. Without the exception both
properties are false (section 7, `ClaimOverlap` and `ClaimAnchorTie`).
`CoverageInvariant` adds to the service invariant:

* what the connection of a covered signal has passed by was evaluated, is
  queued, or lies behind an announced loss (`Gapless`);
* what is older than a pending anchor was evaluated (`AnchorIsSound`), so that
  a replay from the anchor joins without a gap; this is why a checkpoint may
  only follow what was evaluated, and the two properties depend on each other;
* what is older than a trade of the job was evaluated or is to be
  (`JobIsGapless`), so that the checkpoint at its end is sound;
* a lost connection whose trades are still buffered is announced by an event
  that no ready event follows, or nothing can prove coverage before the next one
  (`LossIsNoticed`), so a reconnection cannot hide the gap; a cancelled stream
  has no buffer, and one that waits to say it is ready is connected
  (`StreamInStep`);
* the buffer loses its oldest trades first (`BufferRetains`).

`SymbolMove` says what any step of the service does to one signal, `ChannelMove`
what a step of a stream does to its queue, and each part of the invariant is
proved from these two. TLC checked `ServiceInvariant` and `CoverageInvariant`
on the instances of the runs before they were proved.

The type invariants of the modules are definitions (`StoreTypeOK`, `TypeOK`, or
`Typed` in a proof module). Those of the store, the tracking, the outbox, the
aggregation, the refresh, the market data and the publication are proved.

Only model-checked: all liveness, which is out of the prover's reach; and
`AgreesWhenOrderIsIrrelevant` and `ReplayIsPossible` for plans whose levels are
not apart, where they may fail.

## 7. Known divergences

One run expects a counterexample:

* `claim_exchange_order` (`docs/signals.md:91`, trades are evaluated in exchange
  order). A coverage batch replays buffered trades that are still queued too;
  `_handle_event` evaluates them again after the batch without looking at the
  checkpoint, so the price of an older trade moves a signal.

Checked by hand, each with the configuration of its name (where two share one,
`tlc -continue` finds both):

* `ClaimEntryCandle` (`docs/signals.md:82`, a target in the entry candle is
  not credited unless it provably came after the entry). A signal is entered by
  a trade, the worker restarts with too short a REST history, and
  `_recover_with_candles` floors its anchor to the minute of the entry: the
  candle credits a target touched before the entry.
* `ClaimReadiness` (`docs/requirements.md:210`, no signals until required gaps
  have been reconciled). `sync_once` reports failed symbols in a summary nobody
  reads; `_mark_ready` follows, and the strategy does not filter by the state of
  checkpoints.
* `ClaimSweep` (`docs/strategy.md:6`, 15m requires a liquidity sweep). A sweep is
  worth 20 points of the score and is no condition: 80 points without one are
  more than the 70 required.
* `ClaimEmptyUniverse` (`docs/tasks.md:71`, provider failure leaves the last
  valid universe active). An answer that lists nothing raises nothing: it is
  saved as an empty universe and deactivates every instrument.
* `ClaimCandles` (`docs/replay.md:69`, ambiguous events can never improve Profit
  Factor). The replay closes a minute with the entry and TP1 as zero, although
  its trades entered and were stopped out in a later minute: a loss left out of
  the sum.
* `ClaimBreakeven` (`docs/requirements.md:142`, after TP1 the stop moves to
  fee-adjusted breakeven). TP1 is a multiple of the risk alone: when the zone is
  narrow against the fees, TP1 lies before the breakeven and a trade stopped
  after TP1 has lost. The candle of such a plan does not see the second half
  close, either (section 6).
* `ClaimRebuild` (`docs/tasks.md:142`, an interrupted rebuild resumes). A job
  interrupted by a restart that is quicker than `stale_job_seconds` stays in
  processing: `recover_stale_jobs` runs once, at the start.
* `ClaimBreaker` (`docs/requirements.md:232`, an abnormal BTC candle pauses new
  signals for 30 minutes): the policy pauses while the newest stored BTC candle
  is abnormal, so the next ordinary one ends the pause.
* `ClaimReadiness` again (`docs/operations.md:15`): a sync that ends during quiescence
  sets the readiness that `begin_quiescence` cleared.
* `ClaimOverlap` (`docs/architecture.md:204`): the buffer outlives a connection,
  so REST trades that lag overlap with its old part and the gap between the two
  connections passes as covered.
* `ClaimAnchorTie` (`docs/architecture.md:213`): the limited REST history begins
  in the middle of trades that share the instant of the anchor, and is taken as
  complete. Both check `OverlapProvesCoverage`, which is `NothingMissed` without
  its exception; they are the two clauses of `Uncertain`.
* `ClaimResume` (`docs/signals.md:86`): after candle recovery, trades of the
  current minute from before the reconnection are never evaluated.
* `ClaimExpiry` (`docs/requirements.md:184`): a trade that fills the entry in
  time waits in the queue while the reconciliation expires the signal.
* `ClaimExpiry` again (`docs/signals.md:55`): a ready event of a cancelled subscription
  counts for the next signal of the symbol.
* `ClaimCandles` again (`docs/signals.md:75`): trades reach TP1, fall back to
  breakeven, then reach TP2; the candle credits TP2.
* `ClaimWindow` (`docs/requirements.md:26`): the notification window is looked
  at when a note is expanded, not when it is sent.

Also seen: a swing that a close has already broken can still be swept later;
the source of an order block is searched 20 candles back, further than the swing
whose break makes the block, so where candles open with a gap the block can lie
beyond the close that made it, and a candidate be accepted whose stop that close
had already passed;
the kind of a break (BOS or CHOCH) and Wilder's average of a window may differ
from those of the whole series, so they are outside `WindowSeesTheSame`; a stop
reached by a jump over the entry zone invalidates the live signal and not the
replayed one; the candle fallback takes a first candle that also touches TP1 as
entered where the replay calls it ambiguous; `services/instrument_sync.py` is
used nowhere; a `data_gaps` row that failed
stays failed, since the next sync makes a new row; `docs/requirements.md:226-229`
gives limits of 5 per hour and 2 per burst where the code and `docs/signals.md`
have 10 and 3; and the cooldown runs from `created_at`, where
`docs/requirements.md:181` has it follow the end of the previous signal.

And, seen from the exceptions of properties that hold:

* A second message after /pause (`docs/operations.md:33` and
  `docs/telegram.md:34`, /pause suppresses proactive delivery). The first was
  being sent when the pause was committed. While the user's next command, for
  example /threshold, holds the settings row, a sweep skips the row
  (`notifications.py:223`) and so does not see that the user has paused; the command
  commits, and the pick (`notifications.py:257`), which does not look at `paused`,
  takes another delivery. With `sincePause[u] <= 1` instead of
  `PauseIsHeeded` the run `telegram_outbox` finds it.
* A stale aggregate without a job (`docs/architecture.md:116`, aggregates are
  recalculated when a repaired candle changes). A backfill stores two minutes and
  requeues their interval; its job is loaded; the live candle of the first minute
  arrives late and differs, and replaces it (`market_data.py:490`), but completes
  no interval and makes no job; `finish_job` writes the aggregate of the old
  minutes and deletes the job. The reconciliation repairs it only if the exchange's own candle of
  the interval differs from the aggregate, which was made of what REST said. With `Intervals` instead of `Intervals \ silent` in `AggregateOrJob`
  the run `aggregation` finds it without a fault.
* A row of `signal_events` that names an outdated status. `record_tracking_event`
  reads the status without a lock (`signals.py:487`), so between two callers the
  row of a candle recovery could follow the transition it does not know of. The
  lifecycle service is the only caller and does one transaction after the other,
  so it does not happen in `SignalTracking`.
* A delivery, or an aggregation job, left in sending or processing by a process
  that died and was started again within `StaleAfter` (`notifications.py:198`,
  `aggregation.py:52`): the recovery runs once, at the start, and finds it too
  fresh. `Orphaned` in both modules; `ClaimRebuild` for the job.
* The order of the universe's rules. `docs/requirements.md:36-40` keeps the first
  30 eligible assets and then intersects them with Bybit and excludes those that
  are not fit; the code filters and intersects first and takes the first 30 of
  what is left, which is what `docs/architecture.md:76-82` says and what
  `FirstEligible` and `SelectionFollowsRank` are about. With a universe of two,
  and the answer `listed` of `MCUniverseRefresh`, the first would keep two assets
  with one contract between them, and the code selects contracts 1 and 3.

## 8. Plan

1. Signals: store, tracking, candle agreement, proofs of store and tracking. Done.
2. Telegram outbox and its proofs. Done.
3. Aggregation and its proofs. Done.
4. Market data and its proofs. Done.
5. Publication and its proofs. Done.
6. Detectors, evaluator, trade plan, replay resolver, and their proofs. Done. Left: the loop of
   the replay runner over closed candles.
7. Universe and its proofs. Done.
8. Operational warnings (bucketed keys, the recovery flag a restart loses), the
   rate limiter, the process pool (a batch cancelled while it waits stays
   counted), maintenance against late jobs, the runtime's drain window.

Every safety property and action property of the runs that should hold has a
theorem; a new component brings its own.

Not planned: rendering, localization, the HTTP API, migrations and clients, which
are formatting and I/O; statistics, which only read.
