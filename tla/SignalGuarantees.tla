-------------------------- MODULE SignalGuarantees --------------------------
(***************************************************************************)
(* What the composition of SignalTracking has to guarantee.                *)
(***************************************************************************)
EXTENDS SignalTracking

ViewRecords == [id : Signals, status : TrackingStatuses, stop : Store!Stops, last : 0..MaxTrades]

StreamEvents == [type : {"trade", "ready", "disconnected"}, sym : Symbols, trade : 0..MaxTrades]

WorkJobs == [phase : {"live", "batch", "candles"}, sym : Symbols, anchor : Nat \cup {NoAnchor},
             todo : SUBSET Nat, at : Nat,
             acts : Seq(TerminalStatuses \cup TrackingStatuses), next : {1, 2, 3}]

FetchJobs == [phase : {"fetch"}, sym : Symbols, anchor : Nat]

TypeOK ==
  /\ Store!StoreTypeOK
  /\ clock \in 0..MaxTime /\ disconnects \in 0..MaxDisconnects /\ crashes \in 0..MaxCrashes
  /\ tape \in [Symbols -> Seq([price : Prices \cup {FirstPrice}, time : 0..MaxTime])]
  /\ link \in [Symbols -> {"off", "down", "open", "buffered", "ready"}]
  /\ received \in [Symbols -> 0..MaxTrades]
  /\ buffer \in [Symbols -> SUBSET (1..MaxTrades)]
  /\ \A s \in Symbols : buffer[s] \subseteq 1..Len(tape[s]) /\ Cardinality(buffer[s]) <= BufferSize
  /\ outgoing \in [Symbols -> Seq(StreamEvents)]
  /\ queue \in Seq(StreamEvents) /\ Len(queue) <= QueueSize
  /\ views \in [Symbols -> ViewRecords \cup {NoView}]
  /\ pending \in [Symbols -> 0..MaxTime \cup {NoAnchor}]
  /\ streamReady \subseteq Symbols /\ agenda \subseteq Symbols \X (0..MaxTime)
  /\ job \in {IdleJob, BootJob, DeadJob} \cup FetchJobs \cup WorkJobs
  /\ opened \in [Symbols -> 0..MaxTrades]
  /\ seen \in [Signals -> SUBSET (1..MaxTrades)] /\ doubtful \subseteq Signals

(* The service never asks for a transition that the state machines reject, *)
(* however trades, disconnects and restarts interleave: the ValueError of  *)
(* transition_signal would end the worker, and the same rows would end it  *)
(* again after every restart.                                              *)
NoIllegalTransition == job # DeadJob

(* What the service remembers of a signal is what its rows say: no         *)
(* decision is ever made on a stale status or stop (_transition replaces   *)
(* the view after every commit).                                           *)
MemoryMatchesRows ==
  \A s \in Symbols : Known(s) =>
    /\ views[s].id \in Store!Tracked(s)
    /\ views[s].status = status[views[s].id]
    /\ views[s].stop = currentStop[views[s].id]

(* Connections and pending anchors belong to tracked signals only: a       *)
(* closed signal leaves no stream running and no coverage to establish,    *)
(* whichever of the service's paths closed it (unsubscribe in _transition  *)
(* and _reconcile).                                                        *)
NothingLeftBehind ==
  \A s \in Symbols : link[s] # "off" \/ pending[s] # NoAnchor => Known(s)

(* A trade the signal could have been moved by: executed since it was      *)
(* created.                                                                *)
Relevant(i, t) == TimeOf(SymbolOf[i], t) >= createdAt[i]

(* A signal that was never recovered with candles; the candles do not      *)
(* account for single trades.                                              *)
TradeByTrade(i) == \A r \in Store!Rows(i) : r.key[1] # "recovered"

(* A signal whose trades are accounted for one by one, on REST answers that*)
(* are as new as the connection and hold the whole instant of the anchor.  *)
(* Nothing else is asked of an answer: how far it reaches back, how far it *)
(* is behind the exchange, and where it meets what is buffered is what     *)
(* merge_trade_coverage has to judge.                                      *)
Accountable(i) == TradeByTrade(i) /\ i \notin doubtful

(* A restart resumes at the checkpoint, so no trade below the checkpoint   *)
(* may have been skipped (checkpoint_trade, coverage_anchor).              *)
NothingSkippedBelowCheckpoint ==
  \A i \in Signals : Accountable(i) =>
    \A t \in 1..checkpoint[i] : Relevant(i, t) => t \in seen[i]

DisconnectAnnounced(s) ==
  \E e \in {queue[k] : k \in DOMAIN queue} \cup {outgoing[s][k] : k \in DOMAIN outgoing[s]} :
    e.sym = s /\ e.type = "disconnected"

(* The trades the service has yet to see of a symbol in their order.       *)
OnTheirWay(s) ==
  {queue[k].trade : k \in {l \in DOMAIN queue : queue[l].sym = s /\ queue[l].type = "trade"}}
    \cup {outgoing[s][k].trade : k \in DOMAIN outgoing[s]}
    \cup (received[s] + 1)..Len(tape[s])
    \cup (IF job.phase \in {"batch"} /\ job.sym = s THEN job.todo ELSE {})

(* The trades of a covered symbol: while its signal is tracked without     *)
(* pending coverage, every trade since its creation has been evaluated or  *)
(* is on its way to be, unless the service is about to learn that its      *)
(* connection was lost.                                                    *)
Covered(s) ==
  pending[s] = NoAnchor /\ link[s] # "off" /\ ~DisconnectAnnounced(s)
    => \A t \in 1..Len(tape[s]) :
         Relevant(views[s].id, t) => t \in seen[views[s].id] \cup OnTheirWay(s)

(* Proven coverage means that no trade is missed (_establish_coverage,     *)
(* merge_trade_coverage).                                                  *)
NothingMissed ==
  \A s \in Symbols : Known(s) /\ Accountable(views[s].id) => Covered(s)

(* The fields of the virtual trade tell one consistent story: they change  *)
(* like the abstract position does, across replays, restarts and candle    *)
(* fallback (apply_transition with the arguments of _apply_action).        *)
Position(i) ==
  CASE tradeStatus[i] = "absent"        -> "none"
    [] tradeStatus[i] = "waiting_entry" -> "waiting"
    [] tradeStatus[i] \in TerminalStatuses -> "closed"
    [] OTHER                            -> remaining[i]

Virtual == INSTANCE VirtualPosition WITH
             position <- [i \in Signals |-> Position(i)], stop <- currentStop

PositionConsistent == Virtual!Spec

-----------------------------------------------------------------------------
(* The event loop runs the service and the blocked stream tasks, and the   *)
(* clock advances. run() starves neither side: a reconciliation that is    *)
(* due comes before the next event, and the one after it is due a poll     *)
(* interval later, while a waiting event is taken at once. Nothing is      *)
(* assumed of the exchange: no trade and no connection need ever come.     *)
Fairness ==
  /\ WF_vars(Tick)
  /\ SF_vars(BeginReconcile)
  /\ \A s \in Symbols, now \in 0..MaxTime : WF_vars(ReconcileSymbol(s, now))
  /\ \A s \in Symbols : WF_vars(PutWaiting(s))
  /\ SF_vars(HandleDisconnected) /\ SF_vars(HandleReady) /\ SF_vars(HandleTrade)
  /\ WF_vars(Act) /\ WF_vars(FinishLive) /\ WF_vars(Establish)
  /\ WF_vars(ReplayTrade) /\ WF_vars(FinishBatch)
  /\ WF_vars(ReplayCandle) /\ WF_vars(FinishCandles)

FairSpec == Spec /\ Fairness

(* A signal does not wait for coverage forever: it becomes active, fails   *)
(* or expires, even when its stream never delivers a trade (_reconcile     *)
(* expires a preparing signal by the clock).                               *)
PreparingResolves ==
  \A i \in Signals :
    status[i] = "preparing" /\ Expires(i) <= MaxTime ~> status[i] # "preparing"

(* Backpressure ends: a stream task blocked on the full queue gets its     *)
(* event in or is cancelled, although the service that drains the queue    *)
(* also waits for REST, for the database and for cancelled stream tasks.   *)
BackpressureEnds == \A s \in Symbols : outgoing[s] # <<>> ~> outgoing[s] = <<>>
=============================================================================
