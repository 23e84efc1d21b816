--------------------------- MODULE MarketDataProofs ---------------------------
(***************************************************************************)
(* Proofs about MarketData, for any number of symbols, any history, queue  *)
(* and batch, and any number of faults and changes of the universe.        *)
(***************************************************************************)
EXTENDS MarketData, TLAPS

USE DEF NoCheckpoint

LEMMA Constants ==
  /\ Horizon \in Nat /\ MaxTime \in Nat /\ MaxTime <= Horizon /\ StartTime \in 0..MaxTime
  /\ QueueSize \in Nat /\ BackfillBatch \in Nat /\ BackfillBatch > 0
  /\ MaxRefreshes \in Nat /\ MaxFaults \in Nat
<1>1. /\ Horizon \in Nat \ {0} /\ QueueSize \in Nat \ {0} /\ BackfillBatch \in Nat \ {0}
      /\ StartTime \in Nat /\ MaxTime \in Nat /\ MaxRefreshes \in Nat /\ MaxFaults \in Nat
      /\ StartTime <= MaxTime /\ MaxTime <= Horizon
  BY MarketDataAssumption
<1>2. QED BY <1>1

Statuses == {"recovering", "recovered", "failed"}
Gaps == [from : Minutes, to : Minutes, status : Statuses]
Jobs == [phase : {"none", "start", "fetch"}, cursor : Nat, to : Int, gap : Nat]
Shards == {"off", "new", "up", "down"}
Steps == {"boot", "inactive", "warming", "connecting", "due", "syncing", "events"}
Streaming == {"connecting", "due", "syncing", "events"}

Typed ==
  /\ now \in 0..MaxTime /\ universe \in SUBSET Symbols
  /\ stored \in [Symbols -> SUBSET Nat]
  /\ \A s \in Symbols : \A m \in stored[s] : m < now
  /\ confirmed \in [Symbols -> Int]
  /\ \A s \in Symbols : NoCheckpoint <= confirmed[s] /\ confirmed[s] < now
  /\ state \in [Symbols -> States]
  /\ gaps \in [Symbols -> Seq(Gaps)]
  /\ subscribed \in SUBSET Symbols
  /\ shard \in [Symbols -> Shards]
  /\ delivered \in [Symbols -> Int]
  /\ \A s \in Symbols : NoCheckpoint <= delivered[s] /\ delivered[s] < now
  /\ queue \in Seq(Events) /\ Len(queue) <= QueueSize
  /\ live \in Steps
  /\ job \in [Symbols -> Jobs]
  /\ ready \in BOOLEAN /\ quiescing \in BOOLEAN
  /\ refreshes \in 0..MaxRefreshes /\ faults \in 0..MaxFaults

(* A target is worked on in a sync alone, from its checkpoint up to the    *)
(* minute that was closed when the sync began. Nothing newer is stored     *)
(* meanwhile, and its gap row is about it.                                 *)
JobsAgree ==
  \A s \in Symbols : job[s].phase # "none" =>
    /\ live = "syncing" /\ s \in universe
    /\ job[s].cursor = confirmed[s] + 1
    /\ job[s].to < now
    /\ \A m \in stored[s] : m <= job[s].to
    /\ job[s].gap # 0 => /\ job[s].gap \in DOMAIN gaps[s]
                         /\ gaps[s][job[s].gap].to = job[s].to

(* Every minute up to the checkpoint is stored.                            *)
Covered == \A s \in Symbols : \A m \in Nat : m <= confirmed[s] => m \in stored[s]

(* What is stored beyond the checkpoint came from the connection, and the  *)
(* candles of the queue are newer than that, in order.                     *)
Beyond == \A s \in Symbols : \A m \in stored[s] : m <= confirmed[s] \/ m <= delivered[s]
Queued(i) == i \in DOMAIN queue /\ queue[i].type = "candle"
InOrder ==
  \A i \in Nat : Queued(i) =>
    /\ queue[i].minute <= delivered[queue[i].symbol]
    /\ \A m \in stored[queue[i].symbol] :
         m <= confirmed[queue[i].symbol] \/ m < queue[i].minute
    /\ \A j \in Nat : Queued(j) /\ i < j /\ queue[j].symbol = queue[i].symbol =>
         queue[i].minute < queue[j].minute

(* Connections and events are of subscribed symbols, which are the         *)
(* selected ones while the stream runs, unless none is left.               *)
StreamAgrees ==
  /\ \A s \in Symbols : shard[s] # "off" => s \in subscribed
  /\ \A i \in Nat : i \in DOMAIN queue => queue[i].symbol \in subscribed
  /\ live \in Streaming => universe = subscribed \/ universe = {}
  /\ live = "warming" => \A s \in Symbols \ universe : state[s] \in {"none", "offline"}

Invariant ==
  /\ Typed /\ JobsAgree /\ Covered /\ Beyond /\ InOrder /\ StreamAgrees
  /\ ReadyIsComplete /\ RecoveredIsStored /\ DroppedIsOffline

LEMMA QueueOps ==
  ASSUME Typed
  PROVE  /\ Len(queue) \in Nat
         /\ HasRoom => \A e \in Events : /\ Append(queue, e) \in Seq(Events)
                                         /\ Len(Append(queue, e)) <= QueueSize
         /\ queue # <<>> => /\ Head(queue) \in Events
                            /\ Tail(queue) \in Seq(Events)
                            /\ Len(Tail(queue)) <= QueueSize
  BY Constants DEF Typed, HasRoom

LEMMA EmptyQueue == <<>> \in Seq(Events) /\ Len(<<>>) <= QueueSize
  BY Constants

LEMMA Arithmetic ==
  ASSUME Typed
  PROVE  /\ now \in Nat /\ now <= Horizon /\ Horizon \in Nat
         /\ LastClosed \in Int /\ BackfillBatch \in Nat /\ BackfillBatch > 0
  BY Constants DEF Typed, LastClosed

(* The clock, the connections and what the queue does not carry.           *)
LEMMA StreamTyped ==
  ASSUME Typed, NEW s \in Symbols, Exchange(s) PROVE Typed'
<1>1. CASE Connect(s)
  <2>1. [type |-> "reconnected", symbol |-> s] \in Events
    BY DEF Events
  <2>2. queue' \in Seq(Events) /\ Len(queue') <= QueueSize
    BY <1>1, <2>1, QueueOps DEF Connect, Typed
  <2>3. QED BY <1>1, <2>2 DEF Connect, Typed, Shards, rows, task, bounds
<1>2. CASE Drop(s)
  <2>1. [type |-> "disconnected", symbol |-> s] \in Events
    BY DEF Events
  <2>2. queue' \in Seq(Events) /\ Len(queue') <= QueueSize
    BY <1>2, <2>1, QueueOps DEF Drop, Typed
  <2>3. faults' \in 0..MaxFaults
    BY <1>2, Constants DEF Drop, Faulty, Typed
  <2>4. QED BY <1>2, <2>2, <2>3 DEF Drop, Typed, Shards, rows, task
<1>3. ASSUME NEW m \in Minutes, Deliver(s, m) PROVE Typed'
  <2>1. [type |-> "candle", symbol |-> s, minute |-> m] \in Events
    BY DEF Events
  <2>2. queue' \in Seq(Events) /\ Len(queue') <= QueueSize
    BY <1>3, <2>1, QueueOps DEF Deliver, Typed
  <2>3. m \in Int /\ NoCheckpoint <= m /\ m < now
    BY <1>3, Arithmetic DEF Deliver, LastClosed, Minutes, Typed
  <2>4. QED BY <1>3, <2>2, <2>3 DEF Deliver, Typed, rows, task, bounds
<1>4. QED BY <1>1, <1>2, <1>3 DEF Exchange

LEMMA RestTyped ==
  ASSUME Typed,
         \/ Tick \/ Quiesce \/ Restart
         \/ \E new \in SUBSET Symbols : Boot(new) \/ RefreshUniverse(new)
         \/ MarkInactive \/ StartStream \/ StreamReady \/ EndSync \/ Reconcile
  PROVE  Typed'
<1>1. CASE Tick
  <2>1. now \in Nat /\ now' = now + 1 /\ now' \in 0..MaxTime
    BY <1>1, Constants DEF Tick, Typed
  <2>2. \A s \in Symbols : \A m \in stored[s] : m < now'
    <3> TAKE s \in Symbols
    <3> TAKE m \in stored[s]
    <3>1. m \in Int /\ m < now
      BY DEF Typed
    <3>2. QED BY <2>1, <3>1
  <2>3. \A s \in Symbols : confirmed[s] < now' /\ delivered[s] < now'
    <3> TAKE s \in Symbols
    <3>1. confirmed[s] \in Int /\ confirmed[s] < now /\ delivered[s] \in Int /\ delivered[s] < now
      BY DEF Typed
    <3>2. QED BY <2>1, <3>1
  <2>4. QED BY <1>1, <2>1, <2>2, <2>3 DEF Tick, Typed, rows, stream, task, bounds
<1>2. CASE Quiesce
  BY <1>2 DEF Quiesce, Typed, rows, stream, bounds
<1>3. CASE Restart
  <2>1. faults' \in 0..MaxFaults
    BY <1>3, Constants DEF Restart, Faulty, Typed
  <2>2. NoTarget \in Jobs
    BY DEF Jobs, NoTarget, Target
  <2>3. job' \in [Symbols -> Jobs] /\ queue' \in Seq(Events) /\ Len(queue') <= QueueSize
    BY <1>3, <2>2, EmptyQueue DEF Restart
  <2>4. QED BY <1>3, <2>1, <2>3 DEF Restart, Typed, Shards, Steps, rows
<1>4. ASSUME NEW new \in SUBSET Symbols, Refreshed(new)
      PROVE  universe' \in SUBSET Symbols /\ refreshes' \in 0..MaxRefreshes
  BY <1>4, Constants DEF Refreshed, Typed
<1>5. ASSUME NEW new \in SUBSET Symbols, Boot(new) PROVE Typed'
  BY <1>4, <1>5 DEF Boot, Typed, Steps, rows, stream
<1>6. ASSUME NEW new \in SUBSET Symbols, RefreshUniverse(new) PROVE Typed'
  BY <1>4, <1>6 DEF RefreshUniverse, Typed, Steps, rows, stream
<1>7. ASSUME NEW S, NEW label \in States PROVE Marked(S, label) \in [Symbols -> States]
  BY <1>7 DEF Marked, Typed
<1>8. CASE MarkInactive
  <2>1. state' \in [Symbols -> States]
    BY <1>7, <1>8 DEF MarkInactive, States
  <2>2. QED BY <1>8, <2>1 DEF MarkInactive, Typed, Steps, stream, bounds
<1>9. CASE StartStream
  <2>1. state' \in [Symbols -> States]
    BY <1>7, <1>9 DEF StartStream, States
  <2>2. QED BY <1>9, <2>1, EmptyQueue DEF StartStream, QueueAtStart, Typed, Steps, Shards, bounds
<1>10. CASE StreamReady
  BY <1>10 DEF StreamReady, Typed, Steps, rows, stream, bounds
<1>11. CASE EndSync
  BY <1>11 DEF EndSync, Typed, Steps, rows, stream, bounds
<1>12. CASE Reconcile
  BY <1>12 DEF Reconcile, Typed, Steps, rows, stream, bounds
<1>13. QED BY <1>1, <1>2, <1>3, <1>5, <1>6, <1>8, <1>9, <1>10, <1>11, <1>12

(* What a sync and the events do to the rows.                              *)
LEMMA SyncTyped ==
  ASSUME Typed, JobsAgree, NEW s \in Symbols, SyncTarget(s) \/ FailTarget(s)
  PROVE  Typed'
<1>0. /\ now \in Nat /\ job[s] \in Jobs /\ confirmed[s] \in Int /\ gaps[s] \in Seq(Gaps)
      /\ job[s].phase # "none"
  BY DEF Typed, SyncTarget, StartTarget, SaveBatch, CompleteTarget, FailTarget
<1>1. /\ job[s].cursor \in Nat /\ job[s].to \in Int /\ job[s].gap \in Nat
      /\ job[s].cursor = confirmed[s] + 1 /\ job[s].to < now
      /\ job[s].gap # 0 => job[s].gap \in DOMAIN gaps[s]
  BY <1>0 DEF Jobs, JobsAgree
<1>2. NoTarget \in Jobs
  BY DEF Jobs, NoTarget, Target
<1>3. CASE StartTarget(s)
  <2>1. state' \in [Symbols -> States]
    BY <1>3 DEF StartTarget, Typed, States
  <2>2. job' \in [Symbols -> Jobs]
    <3>1. \A gap \in Nat : Target("fetch", job[s].cursor, job[s].to, gap) \in Jobs
      BY <1>1 DEF Target, Jobs
    <3>2. Len(gaps[s]) + 1 \in Nat
      BY <1>0
    <3>3. QED BY <1>2, <1>3, <3>1, <3>2 DEF StartTarget, Typed
  <2>3. gaps' \in [Symbols -> Seq(Gaps)]
    <3>1. NeedsGap(s) => GapRow(job[s].cursor, job[s].to, "recovering") \in Gaps
      <4> SUFFICES ASSUME NeedsGap(s) PROVE GapRow(job[s].cursor, job[s].to, "recovering") \in Gaps
        OBVIOUS
      <4>1. job[s].cursor <= job[s].to
        BY DEF NeedsGap, Missing
      <4>2. job[s].cursor \in Minutes /\ job[s].to \in Minutes
        BY <1>0, <1>1, <4>1, Arithmetic DEF Minutes
      <4>3. QED BY <4>2 DEF GapRow, Gaps, Statuses
    <3>2. NeedsGap(s) =>
            Append(gaps[s], GapRow(job[s].cursor, job[s].to, "recovering")) \in Seq(Gaps)
      BY <1>0, <3>1
    <3>3. QED BY <1>3, <3>2 DEF StartTarget, Typed
  <2>4. QED BY <1>3, <2>1, <2>2, <2>3 DEF StartTarget, Typed, stream, bounds
<1>4. \A status \in Statuses : GapBecomes(s, status) => gaps' \in [Symbols -> Seq(Gaps)]
  <2> TAKE status \in Statuses
  <2> HAVE GapBecomes(s, status)
  <2>1. CASE job[s].gap = 0
    BY <2>1 DEF GapBecomes, Typed
  <2>2. CASE job[s].gap # 0
    <3> DEFINE g == job[s].gap
               row == [gaps[s][g] EXCEPT !.status = status]
    <3>1. g \in DOMAIN gaps[s] /\ gaps[s][g] \in Gaps
      BY <1>0, <1>1, <2>2
    <3>2. row \in Gaps
      BY <3>1 DEF Gaps
    <3>3. gaps' = [gaps EXCEPT ![s] = [gaps[s] EXCEPT ![g] = row]]
      BY <2>2 DEF GapBecomes
    <3> HIDE DEF g, row
    <3>4. [gaps[s] EXCEPT ![g] = row] \in Seq(Gaps)
      BY <1>0, <3>1, <3>2
    <3>5. QED BY <3>3, <3>4 DEF Typed
  <2>3. QED BY <2>1, <2>2
<1>5. CASE SaveBatch(s)
  <2> DEFINE end == Least(job[s].cursor + BackfillBatch - 1, job[s].to)
  <2>1. end \in Nat /\ job[s].cursor <= end /\ end <= job[s].to
    BY <1>1, <1>5, Constants DEF SaveBatch, Least
  <2>2. /\ stored' = [stored EXCEPT ![s] = @ \cup (job[s].cursor)..end]
        /\ confirmed' = [confirmed EXCEPT ![s] = Greatest(@, end)]
        /\ job' = [job EXCEPT ![s] = Target("fetch", end + 1, @.to, @.gap)]
        /\ state' = [state EXCEPT ![s] = "recovering"]
        /\ UNCHANGED <<now, universe, gaps, stream, queue, live, ready, quiescing, bounds>>
    BY <1>5 DEF SaveBatch
  <2> HIDE DEF end
  <2>3. Target("fetch", end + 1, job[s].to, job[s].gap) \in Jobs
    BY <1>1, <2>1 DEF Target, Jobs
  <2>4. \A m \in (job[s].cursor)..end : m \in Nat /\ m < now
    BY <1>0, <1>1, <2>1
  <2>5. Greatest(confirmed[s], end) = end
    BY <1>0, <1>1, <2>1 DEF Greatest
  <2>6. end < now
    BY <1>0, <1>1, <2>1
  <2>7. /\ stored' \in [Symbols -> SUBSET Nat]
        /\ \A t \in Symbols : \A m \in stored'[t] : m < now
    BY <2>2, <2>4 DEF Typed
  <2>8. /\ confirmed' \in [Symbols -> Int]
        /\ \A t \in Symbols : NoCheckpoint <= confirmed'[t] /\ confirmed'[t] < now
    BY <2>1, <2>2, <2>5, <2>6 DEF Typed
  <2>9. job' \in [Symbols -> Jobs] /\ state' \in [Symbols -> States]
    BY <2>2, <2>3 DEF Typed, States
  <2>10. QED BY <2>2, <2>7, <2>8, <2>9 DEF Typed, stream, bounds
<1>6. CASE CompleteTarget(s)
  <2>1. gaps' \in [Symbols -> Seq(Gaps)]
    BY <1>4, <1>6 DEF CompleteTarget, Statuses
  <2>2. Greatest(confirmed[s], job[s].to) = confirmed[s]
    BY <1>0, <1>1, <1>6 DEF CompleteTarget, Fetched, Greatest
  <2>3. UNCHANGED confirmed
    BY <1>6, <2>2 DEF CompleteTarget, Typed
  <2>4. job' \in [Symbols -> Jobs] /\ state' \in [Symbols -> States]
    BY <1>2, <1>6 DEF CompleteTarget, Typed, States
  <2>5. QED BY <1>6, <2>1, <2>3, <2>4 DEF CompleteTarget, Typed, stream, bounds
<1>7. CASE FailTarget(s)
  <2>1. gaps' \in [Symbols -> Seq(Gaps)]
    BY <1>4, <1>7 DEF FailTarget, Statuses
  <2>2. job' \in [Symbols -> Jobs] /\ state' \in [Symbols -> States]
    BY <1>2, <1>7 DEF FailTarget, AfterFailure, Typed, States
  <2>3. faults' \in 0..MaxFaults
    BY <1>7, Constants DEF FailTarget, Faulty, Typed
  <2>4. QED BY <1>7, <2>1, <2>2, <2>3 DEF FailTarget, Typed, stream
<1>8. QED BY <1>3, <1>5, <1>6, <1>7 DEF SyncTarget

(* The next event, and the queue without it.                               *)
LEMMA Taken ==
  ASSUME Typed, NEW type, TakesEvent(type)
  PROVE  /\ 1 \in DOMAIN queue /\ Head(queue) = queue[1] /\ queue[1].type = type
         /\ queue[1] \in Events
         /\ queue' \in Seq(Events) /\ Len(queue') <= QueueSize
         /\ \A i \in Nat : i \in DOMAIN queue' =>
              0 < i /\ i + 1 \in DOMAIN queue /\ queue'[i] = queue[i + 1]
<1>1. queue \in Seq(Events) /\ queue # <<>> /\ Head(queue).type = type /\ queue' = Tail(queue)
  BY DEF TakesEvent, Typed
<1>2. Len(queue) \in Nat /\ Len(queue) # 0 /\ DOMAIN queue = 1..Len(queue)
  BY <1>1
<1>3. 1 \in DOMAIN queue
  BY <1>2
<1>4. Head(queue) = queue[1]
  BY <1>1
<1>5. DOMAIN queue' = 1..(Len(queue) - 1) /\ \A i \in DOMAIN queue' : queue'[i] = queue[i + 1]
  BY <1>1, <1>2
<1>6. \A i \in Nat : i \in DOMAIN queue' =>
        0 < i /\ i + 1 \in DOMAIN queue /\ queue'[i] = queue[i + 1]
  BY <1>2, <1>5
<1>7. QED BY <1>1, <1>3, <1>4, <1>6, QueueOps

(* A candle is newer than its checkpoint's minute, or known.               *)
LEMMA CandleTaken ==
  ASSUME Typed, InOrder, HandleCandle
  PROVE  \E s \in Symbols, m \in Nat :
           /\ Queued(1) /\ queue[1].symbol = s /\ queue[1].minute = m /\ m < now
           /\ m <= delivered[s]
           /\ stored' = [stored EXCEPT ![s] = @ \cup {m}]
           /\ state' = [state EXCEPT ![s] = LiveState(s, m)]
           /\ confirmed' = [confirmed EXCEPT ![s] =
                           IF @ # NoCheckpoint /\ m = @ + 1 THEN m ELSE @]
<1>1. TakesEvent("candle")
  BY DEF HandleCandle
<1>2. Queued(1) /\ Head(queue) = queue[1] /\ queue[1] \in Events
  BY <1>1, Taken DEF Queued
<1>3. queue[1].symbol \in Symbols /\ queue[1].minute \in Nat
  BY <1>2, Arithmetic DEF Queued, Events, Minutes
<1>4. PICK s \in Symbols, m \in Nat : queue[1].symbol = s /\ queue[1].minute = m
  BY <1>3
<1>5. m <= delivered[s]
  BY <1>2, <1>4 DEF InOrder
<1>6. m < now
  BY <1>5, Arithmetic DEF Typed
<1>7. /\ stored' = [stored EXCEPT ![s] = @ \cup {m}]
      /\ state' = [state EXCEPT ![s] = LiveState(s, m)]
      /\ confirmed' = IF /\ ~ (confirmed[s] = NoCheckpoint \/ m > confirmed[s] + 1)
                        /\ m = confirmed[s] + 1
                     THEN [confirmed EXCEPT ![s] = m] ELSE confirmed
  BY <1>2, <1>4 DEF HandleCandle
<1>8. confirmed' = [confirmed EXCEPT ![s] = IF @ # NoCheckpoint /\ m = @ + 1 THEN m ELSE @]
  <2>1. confirmed \in [Symbols -> Int]
    BY DEF Typed
  <2>2. CASE confirmed[s] # NoCheckpoint /\ m = confirmed[s] + 1
    BY <1>7, <2>1, <2>2
  <2>3. CASE ~ (confirmed[s] # NoCheckpoint /\ m = confirmed[s] + 1)
    BY <1>7, <2>1, <2>3
  <2>4. QED BY <2>2, <2>3
<1>9. QED BY <1>2, <1>4, <1>5, <1>6, <1>7, <1>8

LEMMA EventTyped ==
  ASSUME Typed, InOrder, BeginSync \/ HandleCandle \/ HandleDisconnected \/ HandleReconnected
  PROVE  Typed'
<1>1. CASE BeginSync
  <2>1. NoTarget \in Jobs
    BY DEF Jobs, NoTarget, Target
  <2>2. \A s \in Symbols : Target("start", confirmed[s] + 1, LastClosed, 0) \in Jobs
    <3> TAKE s \in Symbols
    <3>1. confirmed[s] + 1 \in Nat /\ LastClosed \in Int
      BY Arithmetic DEF Typed
    <3>2. QED BY <3>1 DEF Jobs, Target
  <2>3. job' \in [Symbols -> Jobs]
    BY <1>1, <2>1, <2>2 DEF BeginSync
  <2>4. QED BY <1>1, <2>3 DEF BeginSync, Typed, Steps, rows, stream, bounds
<1>2. CASE HandleDisconnected \/ HandleReconnected
  <2>1. queue' \in Seq(Events) /\ Len(queue') <= QueueSize
    BY <1>2, Taken DEF HandleDisconnected, HandleReconnected
  <2>2. state' \in [Symbols -> States]
    BY <1>2 DEF HandleDisconnected, HandleReconnected, Marked, Typed, States
  <2>3. QED BY <1>2, <2>1, <2>2 DEF HandleDisconnected, HandleReconnected, Typed, Steps, stream, bounds
<1>3. CASE HandleCandle
  <2>1. PICK s \in Symbols, m \in Nat :
          /\ m < now
          /\ stored' = [stored EXCEPT ![s] = @ \cup {m}]
          /\ state' = [state EXCEPT ![s] = LiveState(s, m)]
          /\ confirmed' = [confirmed EXCEPT ![s] = IF @ # NoCheckpoint /\ m = @ + 1 THEN m ELSE @]
    BY <1>3, CandleTaken
  <2>2. queue' \in Seq(Events) /\ Len(queue') <= QueueSize
    BY <1>3, Taken DEF HandleCandle
  <2>3. LiveState(s, m) \in States
    BY DEF LiveState, States, Typed
  <2>4. state' \in [Symbols -> States]
    BY <2>1, <2>3 DEF Typed
  <2>5. stored' \in [Symbols -> SUBSET Nat] /\ \A t \in Symbols : \A n \in stored'[t] : n < now
    BY <2>1 DEF Typed
  <2>6. /\ confirmed' \in [Symbols -> Int]
        /\ \A t \in Symbols : NoCheckpoint <= confirmed'[t] /\ confirmed'[t] < now
    BY <2>1 DEF Typed
  <2>7. /\ UNCHANGED <<now, universe, gaps, stream, job, quiescing, bounds>>
        /\ ready' \in BOOLEAN /\ live' \in Steps
    BY <1>3 DEF HandleCandle, Typed, Steps
  <2>8. QED BY <2>2, <2>4, <2>5, <2>6, <2>7 DEF Typed, stream, bounds
<1>4. QED BY <1>1, <1>2, <1>3

LEMMA TypedStep == ASSUME Typed, JobsAgree, InOrder, [Next]_vars PROVE Typed'
<1>1. CASE UNCHANGED vars
  BY <1>1 DEF vars, Typed, rows, stream, task, bounds
<1>2. ASSUME Next PROVE Typed'
  BY <1>2, StreamTyped, RestTyped, SyncTyped, EventTyped DEF Next, LiveTask
<1>3. QED BY <1>1, <1>2

-----------------------------------------------------------------------------
(* What a batch stores, and what the end of a target confirms.             *)
LEMMA BatchSaved ==
  ASSUME Typed, JobsAgree, NEW s \in Symbols, SaveBatch(s)
  PROVE  \E end \in Nat :
           /\ confirmed[s] < end /\ end <= job[s].to
           /\ stored' = [stored EXCEPT ![s] = @ \cup (confirmed[s] + 1)..end]
           /\ confirmed' = [confirmed EXCEPT ![s] = end]
           /\ job' = [job EXCEPT ![s] = Target("fetch", end + 1, @.to, @.gap)]
<1>1. /\ job[s] \in Jobs /\ confirmed[s] \in Int /\ job[s].phase # "none"
      /\ job[s].cursor <= job[s].to
  BY DEF Typed, SaveBatch
<1>2. /\ job[s].cursor \in Nat /\ job[s].to \in Int /\ job[s].cursor = confirmed[s] + 1
  BY <1>1 DEF Jobs, JobsAgree
<1> DEFINE end == Least(job[s].cursor + BackfillBatch - 1, job[s].to)
<1>3. end \in Nat /\ confirmed[s] < end /\ end <= job[s].to
  BY <1>1, <1>2, Constants DEF Least
<1>4. /\ stored' = [stored EXCEPT ![s] = @ \cup (job[s].cursor)..end]
      /\ confirmed' = [confirmed EXCEPT ![s] = Greatest(@, end)]
      /\ job' = [job EXCEPT ![s] = Target("fetch", end + 1, @.to, @.gap)]
  BY DEF SaveBatch
<1> HIDE DEF end
<1>5. Greatest(confirmed[s], end) = end
  BY <1>1, <1>3 DEF Greatest
<1>6. QED BY <1>2, <1>3, <1>4, <1>5

LEMMA TargetCompleted ==
  ASSUME Typed, JobsAgree, NEW s \in Symbols, CompleteTarget(s)
  PROVE  job[s].to <= confirmed[s] /\ UNCHANGED <<stored, confirmed>>
<1>1. /\ job[s] \in Jobs /\ confirmed[s] \in Int /\ job[s].phase # "none"
      /\ job[s].cursor > job[s].to
  BY DEF Typed, CompleteTarget, Fetched
<1>2. /\ job[s].cursor \in Nat /\ job[s].to \in Int /\ job[s].cursor = confirmed[s] + 1
  BY <1>1 DEF Jobs, JobsAgree
<1>3. job[s].to <= confirmed[s]
  BY <1>1, <1>2
<1>4. Greatest(confirmed[s], job[s].to) = confirmed[s]
  BY <1>1, <1>2, <1>3 DEF Greatest
<1>5. UNCHANGED stored /\ confirmed' = [confirmed EXCEPT ![s] = Greatest(@, job[s].to)]
  BY DEF CompleteTarget
<1>6. QED BY <1>3, <1>4, <1>5 DEF Typed

(* Every other step leaves candles and checkpoints alone.                  *)
LEMMA RowsStay ==
  ASSUME Typed, JobsAgree, Next, ~ HandleCandle, \A s \in Symbols : ~ SaveBatch(s)
  PROVE  UNCHANGED <<stored, confirmed>>
<1>1. ASSUME NEW s \in Symbols, Exchange(s) \/ StartTarget(s) \/ FailTarget(s)
      PROVE  UNCHANGED <<stored, confirmed>>
  BY <1>1 DEF Exchange, Connect, Drop, Deliver, StartTarget, FailTarget, rows
<1>2. ASSUME NEW new \in SUBSET Symbols, RefreshUniverse(new) \/ Boot(new)
      PROVE  UNCHANGED <<stored, confirmed>>
  BY <1>2 DEF RefreshUniverse, Boot, rows
<1>3. ASSUME \/ MarkInactive \/ StartStream \/ StreamReady \/ BeginSync \/ EndSync
             \/ HandleDisconnected \/ HandleReconnected \/ Reconcile
             \/ Tick \/ Quiesce \/ Restart
      PROVE  UNCHANGED <<stored, confirmed>>
  BY <1>3 DEF MarkInactive, StartStream, StreamReady, BeginSync, EndSync, HandleDisconnected,
              HandleReconnected, Reconcile, Tick, Quiesce, Restart, rows
<1>4. QED BY <1>1, <1>2, <1>3, TargetCompleted DEF Next, LiveTask, SyncTarget

(* Steps that touch neither a target nor what it is about.                 *)
LEMMA JobsKept ==
  ASSUME JobsAgree, Typed, UNCHANGED <<job, gaps, confirmed, stored>>, now' >= now, now' \in Int,
         (\E s \in Symbols : job[s].phase # "none") => UNCHANGED <<live, universe>>
  PROVE  JobsAgree'
<1>1. now \in Nat
  BY Arithmetic
<1>2. \A s \in Symbols : job[s].to \in Int
  BY DEF Typed, Jobs
<1>3. QED BY <1>1, <1>2 DEF JobsAgree

LEMMA JobsStep == ASSUME Typed, JobsAgree, InOrder, Next PROVE JobsAgree'
<1>0. now \in Int /\ now >= now
  BY Arithmetic
<1>1. ASSUME NEW s \in Symbols, Exchange(s) PROVE JobsAgree'
  BY <1>0, <1>1, JobsKept DEF Exchange, Connect, Drop, Deliver, rows, task
<1>2. ASSUME NEW new \in SUBSET Symbols, RefreshUniverse(new) \/ Boot(new) PROVE JobsAgree'
  BY <1>0, <1>2, JobsKept DEF RefreshUniverse, Boot, rows, JobsAgree
<1>3. ASSUME \/ MarkInactive \/ StartStream \/ StreamReady \/ Reconcile \/ Quiesce
             \/ HandleDisconnected \/ HandleReconnected
      PROVE  JobsAgree'
  BY <1>0, <1>3, JobsKept DEF MarkInactive, StartStream, StreamReady, Reconcile, Quiesce,
       HandleDisconnected, HandleReconnected, TakesEvent, rows, JobsAgree
<1>4. CASE Tick
  BY <1>4, Arithmetic, JobsKept DEF Tick, rows, task
<1>5. CASE HandleCandle
  <2>1. \A s \in Symbols : job[s].phase = "none"
    BY <1>5 DEF HandleCandle, TakesEvent, JobsAgree
  <2>2. QED BY <1>5, <2>1 DEF HandleCandle, JobsAgree
<1>6. CASE EndSync
  BY <1>6 DEF EndSync, NoTarget, Target, JobsAgree
<1>7. CASE Restart
  BY <1>7 DEF Restart, NoTarget, Target, JobsAgree
<1>8. CASE BeginSync
  <2>1. ASSUME NEW s \in Symbols, job'[s].phase # "none"
        PROVE  s \in universe /\ job'[s] = Target("start", confirmed[s] + 1, LastClosed, 0)
    BY <1>8, <2>1 DEF BeginSync, NoTarget, Target
  <2>2. ASSUME NEW s \in Symbols, NEW m \in stored[s] PROVE m <= LastClosed
    <3>1. m \in Nat /\ m < now
      BY DEF Typed
    <3>2. QED BY <3>1, Arithmetic DEF LastClosed
  <2>3. LastClosed < now
    BY Arithmetic DEF LastClosed
  <2>4. live' = "syncing" /\ UNCHANGED <<now, universe, confirmed, stored, gaps>>
    BY <1>8 DEF BeginSync, rows
  <2>5. ASSUME NEW s \in Symbols, job'[s].phase # "none"
        PROVE  /\ s \in universe /\ job'[s].cursor = confirmed[s] + 1
               /\ job'[s].to = LastClosed /\ job'[s].gap = 0
    <3>1. s \in universe /\ job'[s] = Target("start", confirmed[s] + 1, LastClosed, 0)
      BY <2>1, <2>5
    <3>2. QED BY <3>1 DEF Target
  <2>6. QED BY <2>2, <2>3, <2>4, <2>5 DEF JobsAgree
<1>9. ASSUME NEW s \in Symbols, StartTarget(s) PROVE JobsAgree'
  <2>1. /\ UNCHANGED <<now, universe, stored, confirmed, live>>
        /\ job[s].phase # "none" /\ job[s] \in Jobs /\ gaps[s] \in Seq(Gaps)
    BY <1>9 DEF StartTarget, Typed
  <2>2. /\ live = "syncing" /\ s \in universe /\ job[s].cursor = confirmed[s] + 1
        /\ job[s].to < now /\ \A m \in stored[s] : m <= job[s].to
    BY <2>1 DEF JobsAgree
  <2> DEFINE row == GapRow(job[s].cursor, job[s].to, "recovering")
             gap == IF NeedsGap(s) THEN Len(gaps[s]) + 1 ELSE 0
  <2>3. job' = [job EXCEPT ![s] = IF Missing(s) THEN Target("fetch", job[s].cursor, job[s].to, gap)
                                  ELSE NoTarget]
    BY <1>9 DEF StartTarget
  <2>4. NeedsGap(s) => gaps' = [gaps EXCEPT ![s] = Append(gaps[s], row)]
    BY <1>9 DEF StartTarget
  <2>5. ~ NeedsGap(s) => gaps' = gaps
    BY <1>9 DEF StartTarget
  <2>6. NeedsGap(s) => gap \in DOMAIN gaps'[s] /\ gaps'[s][gap].to = job[s].to
    <3>1. row.to = job[s].to
      BY DEF GapRow
    <3> HIDE DEF row
    <3>2. Len(gaps[s]) + 1 \in DOMAIN Append(gaps[s], row)
          /\ Append(gaps[s], row)[Len(gaps[s]) + 1] = row
      BY <2>1
    <3>3. NeedsGap(s) => gaps'[s] = Append(gaps[s], row)
      BY <2>4 DEF Typed
    <3>4. QED BY <3>1, <3>2, <3>3
  <2> HIDE DEF row, gap
  <2>7. gap # 0 => NeedsGap(s)
    BY DEF gap
  <2>8. job'[s].phase # "none" =>
          job'[s].cursor = job[s].cursor /\ job'[s].to = job[s].to /\ job'[s].gap = gap
    BY <2>3 DEF Target, NoTarget, Typed
  <2>9. \A t \in Symbols \ {s} : job'[t] = job[t] /\ gaps'[t] = gaps[t]
    BY <2>3, <2>4, <2>5 DEF Typed
  <2>10. QED BY <2>1, <2>2, <2>6, <2>7, <2>8, <2>9 DEF JobsAgree
<1>10. ASSUME NEW s \in Symbols, SaveBatch(s) PROVE JobsAgree'
  <2>1. PICK end \in Nat :
          /\ confirmed[s] < end /\ end <= job[s].to
          /\ stored' = [stored EXCEPT ![s] = @ \cup (confirmed[s] + 1)..end]
          /\ confirmed' = [confirmed EXCEPT ![s] = end]
          /\ job' = [job EXCEPT ![s] = Target("fetch", end + 1, @.to, @.gap)]
    BY <1>10, BatchSaved
  <2>2. UNCHANGED <<now, universe, live, gaps>> /\ job[s].phase # "none" /\ job[s].to \in Int
        /\ confirmed[s] \in Int
    BY <1>10 DEF SaveBatch, Typed, Jobs
  <2>3. job'[s] = Target("fetch", end + 1, job[s].to, job[s].gap)
        /\ confirmed'[s] = end /\ stored'[s] = stored[s] \cup (confirmed[s] + 1)..end
    BY <2>1 DEF Typed
  <2>4. \A m \in (confirmed[s] + 1)..end : m <= job[s].to
    BY <2>1, <2>2
  <2>5. \A m \in stored'[s] : m <= job[s].to
    BY <2>2, <2>3, <2>4 DEF JobsAgree
  <2>6. \A t \in Symbols \ {s} : job'[t] = job[t] /\ confirmed'[t] = confirmed[t] /\ stored'[t] = stored[t]
    BY <2>1 DEF Typed
  <2>7. QED BY <2>2, <2>3, <2>5, <2>6 DEF Target, JobsAgree
<1>11. ASSUME NEW s \in Symbols, CompleteTarget(s) \/ FailTarget(s) PROVE JobsAgree'
  <2>1. UNCHANGED <<now, universe, live, stored, confirmed>>
    BY <1>11, TargetCompleted DEF CompleteTarget, FailTarget
  <2>2. job'[s].phase = "none" /\ \A t \in Symbols \ {s} : job'[t] = job[t]
    BY <1>11 DEF CompleteTarget, FailTarget, NoTarget, Target, Typed
  <2>3. \A t \in Symbols \ {s} : gaps'[t] = gaps[t]
    BY <1>11 DEF CompleteTarget, FailTarget, GapBecomes, Typed
  <2>4. ASSUME NEW t \in Symbols, job'[t].phase # "none"
        PROVE  /\ live' = "syncing" /\ t \in universe'
               /\ job'[t].cursor = confirmed'[t] + 1
               /\ job'[t].to < now'
               /\ \A m \in stored'[t] : m <= job'[t].to
               /\ job'[t].gap # 0 => /\ job'[t].gap \in DOMAIN gaps'[t]
                                     /\ gaps'[t][job'[t].gap].to = job'[t].to
    <3>1. t # s
      BY <2>2, <2>4
    <3>2. job'[t] = job[t] /\ gaps'[t] = gaps[t]
      BY <2>2, <2>3, <3>1
    <3>3. job[t].phase # "none"
      BY <2>4, <3>2
    <3>4. QED BY <2>1, <3>2, <3>3 DEF JobsAgree
  <2>5. QED BY <2>4 DEF JobsAgree
<1>12. QED BY <1>1, <1>2, <1>3, <1>4, <1>5, <1>6, <1>7, <1>8, <1>9, <1>10, <1>11
         DEF Next, LiveTask, SyncTarget

-----------------------------------------------------------------------------
(* A minute up to the checkpoint was stored, by whatever brought it there. *)
LEMMA CoveredStep == ASSUME Typed, JobsAgree, InOrder, Covered, Next PROVE Covered'
<1>1. ASSUME NEW s \in Symbols, SaveBatch(s) PROVE Covered'
  <2>1. PICK end \in Nat :
          /\ confirmed[s] < end
          /\ stored' = [stored EXCEPT ![s] = @ \cup (confirmed[s] + 1)..end]
          /\ confirmed' = [confirmed EXCEPT ![s] = end]
    BY <1>1, BatchSaved
  <2>2. ASSUME NEW m \in Nat, m <= end PROVE m \in stored'[s]
    <3>1. confirmed[s] \in Int /\ stored'[s] = stored[s] \cup (confirmed[s] + 1)..end
      BY <2>1 DEF Typed
    <3>2. m <= confirmed[s] => m \in stored[s]
      BY DEF Covered
    <3>3. QED BY <2>2, <3>1, <3>2
  <2>3. confirmed'[s] = end
    BY <2>1 DEF Typed
  <2>4. \A t \in Symbols \ {s} : confirmed'[t] = confirmed[t] /\ stored'[t] = stored[t]
    BY <2>1 DEF Typed
  <2>5. QED BY <2>2, <2>3, <2>4 DEF Covered
<1>2. CASE HandleCandle
  <2>1. PICK s \in Symbols, m \in Nat :
          /\ stored' = [stored EXCEPT ![s] = @ \cup {m}]
          /\ confirmed' = [confirmed EXCEPT ![s] = IF @ # NoCheckpoint /\ m = @ + 1 THEN m ELSE @]
    BY <1>2, CandleTaken
  <2>2. ASSUME NEW n \in Nat, n <= confirmed'[s] PROVE n \in stored'[s]
    <3>1. /\ confirmed[s] \in Int /\ stored'[s] = stored[s] \cup {m}
          /\ confirmed'[s] = IF confirmed[s] # NoCheckpoint /\ m = confirmed[s] + 1
                             THEN m ELSE confirmed[s]
      BY <2>1 DEF Typed
    <3>2. n <= confirmed[s] => n \in stored[s]
      BY DEF Covered
    <3>3. n <= confirmed[s] \/ n = m
      BY <2>2, <3>1
    <3>4. QED BY <3>1, <3>2, <3>3
  <2>3. \A t \in Symbols \ {s} : confirmed'[t] = confirmed[t] /\ stored'[t] = stored[t]
    BY <2>1 DEF Typed
  <2>4. QED BY <2>2, <2>3 DEF Covered
<1>3. CASE ~ HandleCandle /\ \A s \in Symbols : ~ SaveBatch(s)
  BY <1>3, RowsStay DEF Covered
<1>4. QED BY <1>1, <1>2, <1>3

LEMMA BeyondStep == ASSUME Typed, JobsAgree, InOrder, Beyond, Next PROVE Beyond'
<1>1. \A s \in Symbols : delivered'[s] \in Int /\ delivered[s] \in Int /\ delivered[s] <= delivered'[s]
  <2>1. UNCHANGED delivered => \A s \in Symbols : delivered'[s] \in Int /\ delivered[s] <= delivered'[s]
    BY DEF Typed
  <2>2. ASSUME NEW s \in Symbols, Exchange(s)
        PROVE  \A t \in Symbols : delivered'[t] \in Int /\ delivered[t] <= delivered'[t]
    <3>1. CASE Connect(s) \/ Drop(s)
      BY <2>1, <3>1 DEF Connect, Drop
    <3>2. ASSUME NEW m \in Minutes, Deliver(s, m)
          PROVE  \A t \in Symbols : delivered'[t] \in Int /\ delivered[t] <= delivered'[t]
      BY <3>2, Arithmetic DEF Deliver, Typed, Minutes
    <3>3. QED BY <2>2, <3>1, <3>2 DEF Exchange
  <2>3. (\A s \in Symbols : ~ Exchange(s)) => UNCHANGED delivered
    BY DEF Next, LiveTask, SyncTarget, FailTarget, RefreshUniverse, Boot, MarkInactive, StartStream,
           StreamReady, BeginSync, StartTarget, SaveBatch, CompleteTarget, EndSync, HandleCandle,
           HandleDisconnected, HandleReconnected, Reconcile, Tick, Quiesce, Restart, stream
  <2>4. QED BY <2>1, <2>2, <2>3 DEF Typed
<1>2. \A s \in Symbols : confirmed[s] \in Int /\ stored[s] \subseteq Nat
  BY DEF Typed
<1>3. ASSUME UNCHANGED <<stored, confirmed>> PROVE Beyond'
  BY <1>1, <1>2, <1>3 DEF Beyond
<1>4. ASSUME NEW s \in Symbols, SaveBatch(s) PROVE Beyond'
  <2>1. PICK end \in Nat :
          /\ confirmed[s] < end
          /\ stored' = [stored EXCEPT ![s] = @ \cup (confirmed[s] + 1)..end]
          /\ confirmed' = [confirmed EXCEPT ![s] = end]
    BY <1>4, BatchSaved
  <2>2. ASSUME NEW m \in stored'[s] PROVE m <= end \/ m <= delivered'[s]
    <3>1. stored'[s] = stored[s] \cup (confirmed[s] + 1)..end
      BY <2>1 DEF Typed
    <3>2. m \in (confirmed[s] + 1)..end => m <= end
      BY <1>2
    <3>3. m \in stored[s] => m <= end \/ m <= delivered'[s]
      BY <1>1, <1>2, <2>1 DEF Beyond
    <3>4. QED BY <3>1, <3>2, <3>3
  <2>3. confirmed'[s] = end /\ \A t \in Symbols \ {s} : confirmed'[t] = confirmed[t] /\ stored'[t] = stored[t]
    BY <2>1 DEF Typed
  <2>4. QED BY <1>1, <1>2, <2>2, <2>3 DEF Beyond
<1>5. CASE HandleCandle
  <2>1. PICK s \in Symbols, m \in Nat :
          /\ m <= delivered[s]
          /\ stored' = [stored EXCEPT ![s] = @ \cup {m}]
          /\ confirmed' = [confirmed EXCEPT ![s] = IF @ # NoCheckpoint /\ m = @ + 1 THEN m ELSE @]
    BY <1>5, CandleTaken
  <2>2. confirmed[s] <= confirmed'[s] /\ confirmed'[s] \in Int
    BY <1>2, <2>1 DEF Typed
  <2>3. ASSUME NEW n \in stored'[s] PROVE n <= confirmed'[s] \/ n <= delivered'[s]
    <3>1. stored'[s] = stored[s] \cup {m}
      BY <2>1 DEF Typed
    <3>2. n \in stored[s] => n <= confirmed'[s] \/ n <= delivered'[s]
      BY <1>1, <1>2, <2>2 DEF Beyond
    <3>3. m <= delivered'[s]
      BY <1>1, <2>1
    <3>4. QED BY <3>1, <3>2, <3>3
  <2>4. \A t \in Symbols \ {s} : confirmed'[t] = confirmed[t] /\ stored'[t] = stored[t]
    BY <2>1 DEF Typed
  <2>5. QED BY <1>1, <1>2, <2>3, <2>4 DEF Beyond
<1>6. QED BY <1>3, <1>4, <1>5, RowsStay

(* The order of the queue, which the live task takes from its head.        *)
LEMMA OrderStep == ASSUME Typed, JobsAgree, Beyond, InOrder, Next PROVE InOrder'
<1>0. \A i \in Nat : Queued(i) =>
        queue[i] \in Events /\ queue[i].symbol \in Symbols /\ queue[i].minute \in Nat
  BY Arithmetic DEF Queued, Typed, Events, Minutes
<1>1. \A s \in Symbols : confirmed[s] \in Int /\ delivered[s] \in Int /\ stored[s] \subseteq Nat
  BY DEF Typed
<1>2. ASSUME UNCHANGED <<queue, delivered, stored, confirmed>> PROVE InOrder'
  BY <1>2 DEF InOrder, Queued
<1>3. ASSUME queue' = <<>> PROVE InOrder'
  BY <1>3 DEF InOrder, Queued
<1>4. ASSUME NEW s \in Symbols, Connect(s) \/ Drop(s) PROVE InOrder'
  <2>1. UNCHANGED <<delivered, stored, confirmed>>
    BY <1>4 DEF Connect, Drop, rows
  <2>2. CASE UNCHANGED queue
    BY <1>2, <2>1, <2>2
  <2>3. ASSUME NEW e, queue' = Append(queue, e), e.type # "candle" PROVE InOrder'
    <3>1. \A i \in Nat : Queued(i)' => Queued(i) /\ queue'[i] = queue[i]
      BY <2>3 DEF Queued, Typed
    <3>2. QED BY <2>1, <3>1 DEF InOrder
  <2>4. QED BY <1>4, <2>2, <2>3 DEF Connect, Drop
<1>5. ASSUME NEW s \in Symbols, NEW m \in Minutes, Deliver(s, m) PROVE InOrder'
  <2> DEFINE e == [type |-> "candle", symbol |-> s, minute |-> m]
             last == Len(queue) + 1
  <2>1. /\ UNCHANGED <<stored, confirmed>> /\ queue' = Append(queue, e)
        /\ delivered' = [delivered EXCEPT ![s] = m] /\ delivered[s] < m /\ m \in Nat
    BY <1>5, Arithmetic DEF Deliver, rows, Minutes
  <2>2. e.type = "candle" /\ e.symbol = s /\ e.minute = m
    OBVIOUS
  <2>3. delivered'[s] = m /\ \A t \in Symbols \ {s} : delivered'[t] = delivered[t]
    BY <2>1 DEF Typed
  <2> HIDE DEF e
  <2>4. last \in Nat /\ queue'[last] = e
        /\ \A i \in Nat : i \in DOMAIN queue' =>
             i = last \/ (i \in DOMAIN queue /\ i < last /\ queue'[i] = queue[i])
    BY <2>1 DEF Typed
  <2>5. \A i \in Nat : Queued(i)' => i = last \/ (Queued(i) /\ i < last /\ queue'[i] = queue[i])
    BY <2>4 DEF Queued
  <2> HIDE DEF last
  <2>6. ASSUME NEW i \in Nat, Queued(i) PROVE queue[i].minute <= delivered'[queue[i].symbol]
    <3>1. queue[i].minute <= delivered[queue[i].symbol]
      BY <2>6 DEF InOrder
    <3>2. queue[i].symbol \in Symbols /\ queue[i].minute \in Nat
      BY <1>0, <2>6
    <3>3. CASE queue[i].symbol = s
      BY <1>1, <2>1, <2>3, <3>1, <3>2, <3>3
    <3>4. QED BY <2>3, <3>1, <3>2, <3>3
  <2>7. ASSUME NEW i \in Nat, Queued(i), queue[i].symbol = s PROVE queue[i].minute < m
    <3>1. queue[i].minute <= delivered[s] /\ queue[i].minute \in Nat
      BY <1>0, <2>7 DEF InOrder
    <3>2. QED BY <1>1, <2>1, <3>1
  <2>8. \A n \in stored[s] : n <= confirmed[s] \/ n < m
    <3> TAKE n \in stored[s]
    <3>1. n \in Nat /\ (n <= confirmed[s] \/ n <= delivered[s])
      BY <1>1 DEF Beyond
    <3>2. QED BY <1>1, <2>1, <3>1
  <2>9. ASSUME NEW i \in Nat, Queued(i)'
        PROVE  /\ queue'[i].minute <= delivered'[queue'[i].symbol]
               /\ \A n \in stored'[queue'[i].symbol] :
                    n <= confirmed'[queue'[i].symbol] \/ n < queue'[i].minute
               /\ \A j \in Nat : Queued(j)' /\ i < j /\ queue'[j].symbol = queue'[i].symbol =>
                    queue'[i].minute < queue'[j].minute
    <3>1. CASE i = last
      <4>1. \A j \in Nat : Queued(j)' => ~ (i < j)
        BY <2>4, <2>5, <3>1
      <4>2. queue'[i].symbol = s /\ queue'[i].minute = m
        BY <2>2, <2>4, <3>1
      <4>3. QED BY <2>1, <2>3, <2>8, <4>1, <4>2
    <3>2. CASE Queued(i) /\ i < last /\ queue'[i] = queue[i]
      <4>1. \A j \in Nat : Queued(j)' /\ i < j /\ queue'[j].symbol = queue[i].symbol =>
              queue[i].minute < queue'[j].minute
        <5> TAKE j \in Nat
        <5> HAVE Queued(j)' /\ i < j /\ queue'[j].symbol = queue[i].symbol
        <5>1. CASE j = last
          BY <2>2, <2>4, <2>7, <3>2, <5>1
        <5>2. CASE Queued(j) /\ queue'[j] = queue[j]
          BY <3>2, <5>2 DEF InOrder
        <5>3. QED BY <2>5, <5>1, <5>2
      <4>2. \A n \in stored[queue[i].symbol] :
              n <= confirmed[queue[i].symbol] \/ n < queue[i].minute
        BY <3>2 DEF InOrder
      <4>3. QED BY <2>1, <2>6, <3>2, <4>1, <4>2
    <3>3. QED BY <2>5, <2>9, <3>1, <3>2
  <2>10. QED BY <2>9 DEF InOrder
<1>6. ASSUME NEW s \in Symbols, SaveBatch(s) PROVE InOrder'
  <2>1. PICK end \in Nat :
          /\ confirmed[s] < end
          /\ stored' = [stored EXCEPT ![s] = @ \cup (confirmed[s] + 1)..end]
          /\ confirmed' = [confirmed EXCEPT ![s] = end]
    BY <1>6, BatchSaved
  <2>2. UNCHANGED <<queue, delivered>>
    BY <1>6 DEF SaveBatch, stream
  <2>3. /\ confirmed'[s] = end /\ stored'[s] = stored[s] \cup (confirmed[s] + 1)..end
        /\ \A t \in Symbols \ {s} : confirmed'[t] = confirmed[t] /\ stored'[t] = stored[t]
    BY <2>1 DEF Typed
  <2>4. ASSUME NEW i \in Nat, Queued(i), NEW n \in stored'[queue[i].symbol]
        PROVE  n <= confirmed'[queue[i].symbol] \/ n < queue[i].minute
    <3>1. queue[i].symbol \in Symbols /\ queue[i].minute \in Nat
      BY <1>0, <2>4
    <3>2. n \in stored[queue[i].symbol] => n <= confirmed[queue[i].symbol] \/ n < queue[i].minute
      BY <2>4 DEF InOrder
    <3>3. CASE queue[i].symbol # s
      BY <2>3, <2>4, <3>1, <3>2, <3>3
    <3>4. CASE queue[i].symbol = s /\ n \in stored[s]
      <4>1. n \in Nat /\ confirmed[s] \in Int /\ (n <= confirmed[s] \/ n < queue[i].minute)
        BY <1>1, <3>2, <3>4
      <4>2. QED BY <2>1, <2>3, <3>1, <3>4, <4>1
    <3>5. CASE queue[i].symbol = s /\ n \in (confirmed[s] + 1)..end
      BY <1>1, <2>1, <2>3, <3>5
    <3>6. QED BY <2>3, <2>4, <3>3, <3>4, <3>5
  <2>5. QED BY <2>2, <2>4 DEF InOrder, Queued
<1>7. ASSUME HandleDisconnected \/ HandleReconnected PROVE InOrder'
  <2>1. \A i \in Nat : i \in DOMAIN queue' => i + 1 \in DOMAIN queue /\ queue'[i] = queue[i + 1]
    BY <1>7, Taken DEF HandleDisconnected, HandleReconnected
  <2>2. UNCHANGED <<delivered, stored, confirmed>>
    BY <1>7 DEF HandleDisconnected, HandleReconnected, stream
  <2>3. \A i \in Nat : Queued(i)' => i + 1 \in Nat /\ Queued(i + 1) /\ queue'[i] = queue[i + 1]
    BY <2>1 DEF Queued
  <2>4. \A i, j \in Nat : i < j => i + 1 < j + 1
    OBVIOUS
  <2>5. QED BY <2>2, <2>3, <2>4 DEF InOrder
<1>8. CASE HandleCandle
  <2>1. PICK s \in Symbols, m \in Nat :
          /\ Queued(1) /\ queue[1].symbol = s /\ queue[1].minute = m
          /\ stored' = [stored EXCEPT ![s] = @ \cup {m}]
          /\ confirmed' = [confirmed EXCEPT ![s] = IF @ # NoCheckpoint /\ m = @ + 1 THEN m ELSE @]
    BY <1>8, CandleTaken
  <2>2. \A i \in Nat : i \in DOMAIN queue' => 0 < i /\ i + 1 \in DOMAIN queue /\ queue'[i] = queue[i + 1]
    BY <1>8, Taken DEF HandleCandle
  <2>3. UNCHANGED delivered
    BY <1>8 DEF HandleCandle, stream
  <2>4. \A i \in Nat : Queued(i)' => 0 < i /\ i + 1 \in Nat /\ Queued(i + 1) /\ queue'[i] = queue[i + 1]
    BY <2>2 DEF Queued
  <2>5. /\ confirmed'[s] \in Int /\ confirmed[s] <= confirmed'[s] /\ stored'[s] = stored[s] \cup {m}
        /\ \A t \in Symbols \ {s} : confirmed'[t] = confirmed[t] /\ stored'[t] = stored[t]
    BY <1>1, <2>1 DEF Typed
  <2>6. ASSUME NEW i \in Nat, Queued(i)', NEW n \in stored'[queue'[i].symbol]
        PROVE  n <= confirmed'[queue'[i].symbol] \/ n < queue'[i].minute
    <3> DEFINE k == i + 1
    <3>1. k \in Nat /\ Queued(k) /\ queue'[i] = queue[k] /\ 1 < k
      BY <2>4, <2>6
    <3> HIDE DEF k
    <3>2. queue[k].symbol \in Symbols /\ queue[k].minute \in Nat
      BY <1>0, <3>1
    <3>3. n \in stored[queue[k].symbol] => n <= confirmed[queue[k].symbol] \/ n < queue[k].minute
      BY <3>1 DEF InOrder
    <3>4. CASE queue[k].symbol # s
      BY <2>5, <2>6, <3>1, <3>2, <3>3, <3>4
    <3>5. CASE queue[k].symbol = s /\ n \in stored[s]
      <4>1. n \in Nat /\ confirmed[s] \in Int /\ (n <= confirmed[s] \/ n < queue[k].minute)
        BY <1>1, <3>3, <3>5
      <4>2. QED BY <2>5, <3>1, <3>2, <3>5, <4>1
    <3>6. CASE queue[k].symbol = s /\ n = m
      BY <2>1, <3>1, <3>6 DEF InOrder
    <3>7. QED BY <2>5, <2>6, <3>1, <3>4, <3>5, <3>6
  <2>7. \A i, j \in Nat : i < j => i + 1 < j + 1
    OBVIOUS
  <2>8. QED BY <2>3, <2>4, <2>6, <2>7 DEF InOrder
<1>9. CASE StartStream \/ Restart
  BY <1>3, <1>9 DEF StartStream, QueueAtStart, Restart
<1>10. CASE \/ \E s \in Symbols : StartTarget(s) \/ CompleteTarget(s) \/ FailTarget(s)
            \/ \E new \in SUBSET Symbols : Boot(new) \/ RefreshUniverse(new)
            \/ MarkInactive \/ StreamReady \/ BeginSync \/ EndSync \/ Reconcile \/ Tick \/ Quiesce
  BY <1>2, <1>10, TargetCompleted DEF StartTarget, CompleteTarget, FailTarget, Boot, RefreshUniverse,
       MarkInactive, StreamReady, BeginSync, EndSync, Reconcile, Tick, Quiesce, rows, stream
<1>11. QED BY <1>4, <1>5, <1>6, <1>7, <1>8, <1>9, <1>10 DEF Next, LiveTask, SyncTarget, Exchange

-----------------------------------------------------------------------------
(* Who may be heard of: connections, events, and the labels of symbols     *)
(* that were dropped.                                                      *)
LEMMA StreamStep ==
  ASSUME Typed, JobsAgree, InOrder, StreamAgrees, DroppedIsOffline, Next
  PROVE  StreamAgrees' /\ DroppedIsOffline'
<1>1. ASSUME UNCHANGED <<subscribed, shard, queue, universe, live, state>>
      PROVE  StreamAgrees' /\ DroppedIsOffline'
  BY <1>1 DEF StreamAgrees, DroppedIsOffline
<1>2. ASSUME NEW s \in Symbols, Exchange(s) PROVE StreamAgrees' /\ DroppedIsOffline'
  <2>1. UNCHANGED <<subscribed, universe, live, state>>
    BY <1>2 DEF Exchange, Connect, Drop, Deliver, rows, task
  <2>2. s \in subscribed /\ \A t \in Symbols : shard'[t] # "off" => t \in subscribed
    BY <1>2 DEF Exchange, Connect, Drop, Deliver, StreamAgrees, Typed
  <2>3. UNCHANGED queue \/ \E e \in Events : queue' = Append(queue, e) /\ e.symbol = s
    <3>1. CASE Connect(s) \/ Drop(s)
      <4>1. \A type \in {"disconnected", "reconnected"} :
              [type |-> type, symbol |-> s] \in Events /\ [type |-> type, symbol |-> s].symbol = s
        BY DEF Events
      <4>2. QED BY <3>1, <4>1 DEF Connect, Drop
    <3>2. ASSUME NEW m \in Minutes, Deliver(s, m)
          PROVE  \E e \in Events : queue' = Append(queue, e) /\ e.symbol = s
      <4>1. LET e == [type |-> "candle", symbol |-> s, minute |-> m]
            IN  e \in Events /\ e.symbol = s /\ queue' = Append(queue, e)
        BY <3>2 DEF Events, Deliver
      <4>2. QED BY <4>1
    <3>3. QED BY <1>2, <3>1, <3>2 DEF Exchange
  <2>4. \A i \in Nat : i \in DOMAIN queue' => queue'[i].symbol \in subscribed
    <3>1. ASSUME NEW e \in Events, queue' = Append(queue, e), e.symbol = s
          PROVE  \A i \in Nat : i \in DOMAIN queue' => queue'[i].symbol \in subscribed
      <4>0. queue \in Seq(Events)
        BY DEF Typed
      <4>1. \A i \in DOMAIN Append(queue, e) :
              Append(queue, e)[i] = e \/ (i \in DOMAIN queue /\ Append(queue, e)[i] = queue[i])
        BY <4>0
      <4>2. QED BY <2>2, <3>1, <4>1 DEF StreamAgrees
    <3>2. QED BY <2>3, <3>1 DEF StreamAgrees
  <2>5. QED BY <2>1, <2>2, <2>4 DEF StreamAgrees, DroppedIsOffline
<1>3. ASSUME NEW new \in SUBSET Symbols, Boot(new) PROVE StreamAgrees' /\ DroppedIsOffline'
  BY <1>3 DEF Boot, stream, StreamAgrees, DroppedIsOffline, Streaming
<1>4. ASSUME NEW new \in SUBSET Symbols, RefreshUniverse(new) PROVE StreamAgrees' /\ DroppedIsOffline'
  BY <1>4 DEF RefreshUniverse, Refreshed, rows, stream, StreamAgrees, DroppedIsOffline, Streaming
<1>5. CASE MarkInactive
  BY <1>5 DEF MarkInactive, Marked, stream, StreamAgrees, DroppedIsOffline, Streaming
<1>6. CASE StartStream
  <2>1. /\ subscribed' = universe /\ universe' = universe /\ live' = "connecting"
        /\ \A s \in Symbols : shard'[s] # "off" => s \in universe
    BY <1>6 DEF StartStream
  <2>2. \A i \in Nat : ~ (i \in DOMAIN queue')
    BY <1>6 DEF StartStream, QueueAtStart
  <2>3. \A s \in Symbols \ universe : state'[s] \in {"none", "offline"}
    BY <1>6 DEF StartStream, Marked, StreamAgrees
  <2>4. QED BY <2>1, <2>2, <2>3 DEF StreamAgrees, DroppedIsOffline, Streaming
<1>7. CASE Restart
  BY <1>7 DEF Restart, StreamAgrees, DroppedIsOffline, Streaming
<1>8. CASE StreamReady \/ BeginSync \/ EndSync \/ Reconcile \/ Tick \/ Quiesce
  BY <1>8 DEF StreamReady, BeginSync, EndSync, Reconcile, Tick, Quiesce, rows, stream, task,
       StreamAgrees, DroppedIsOffline, Streaming
<1>9. ASSUME NEW s \in Symbols, SyncTarget(s) \/ FailTarget(s) PROVE StreamAgrees' /\ DroppedIsOffline'
  <2>1. UNCHANGED <<subscribed, shard, queue, universe, live>> /\ job[s].phase # "none"
    BY <1>9 DEF SyncTarget, StartTarget, SaveBatch, CompleteTarget, FailTarget, stream
  <2>2. live = "syncing" /\ s \in subscribed
    BY <2>1 DEF JobsAgree, StreamAgrees, Streaming
  <2>3. \A t \in Symbols \ subscribed : state'[t] = state[t]
    <3>1. \A t \in Symbols \ {s} : state'[t] = state[t]
      BY <1>9 DEF SyncTarget, StartTarget, SaveBatch, CompleteTarget, FailTarget, Typed
    <3>2. QED BY <2>2, <3>1
  <2>4. QED BY <2>1, <2>2, <2>3 DEF StreamAgrees, DroppedIsOffline
<1>10. ASSUME HandleCandle \/ HandleDisconnected \/ HandleReconnected
       PROVE  StreamAgrees' /\ DroppedIsOffline'
  <2>1. /\ live = "events" /\ live' \in Streaming /\ UNCHANGED <<subscribed, shard, universe>>
    BY <1>10 DEF HandleCandle, HandleDisconnected, HandleReconnected, TakesEvent, Streaming, stream
  <2>2. /\ 1 \in DOMAIN queue /\ Head(queue) = queue[1]
        /\ \A i \in Nat : i \in DOMAIN queue' => i + 1 \in DOMAIN queue /\ queue'[i] = queue[i + 1]
    BY <1>10, Taken DEF HandleCandle, HandleDisconnected, HandleReconnected
  <2>3. Head(queue).symbol \in subscribed
    BY <2>2 DEF StreamAgrees
  <2>4. \A t \in Symbols \ subscribed : state'[t] = state[t]
    BY <1>10, <2>3 DEF HandleCandle, HandleDisconnected, HandleReconnected, Marked, Typed
  <2>5. \A i \in Nat : i \in DOMAIN queue' => queue'[i].symbol \in subscribed
    BY <2>2 DEF StreamAgrees
  <2>6. QED BY <2>1, <2>4, <2>5 DEF StreamAgrees, DroppedIsOffline, Streaming
<1>11. QED BY <1>2, <1>3, <1>4, <1>5, <1>6, <1>7, <1>8, <1>9, <1>10 DEF Next, LiveTask

-----------------------------------------------------------------------------
(* What a checkpoint that says ready promises.                             *)
LEMMA ReadyStep ==
  ASSUME Typed, JobsAgree, Covered, InOrder, ReadyIsComplete, Next
  PROVE  ReadyIsComplete'
<1>0. \A s \in Symbols : confirmed[s] \in Int /\ confirmed[s] >= NoCheckpoint /\ stored[s] \subseteq Nat
  BY DEF Typed
<1>1. ASSUME NEW s \in Symbols, \A m \in stored[s] : m <= confirmed[s]
      PROVE  stored[s] = 0..confirmed[s]
  <2>1. \A m \in stored[s] : m \in Nat /\ m <= confirmed[s]
    BY <1>0, <1>1
  <2>2. \A m \in Nat : m <= confirmed[s] => m \in stored[s]
    BY DEF Covered
  <2>3. \A m : m \in stored[s] <=> m \in 0..confirmed[s]
    BY <1>0, <2>1, <2>2
  <2>4. QED BY <2>3
<1>2. ASSUME NEW s \in Symbols, job[s].phase # "none", job[s].to <= confirmed[s]
      PROVE  stored[s] = 0..confirmed[s]
  <2>1. \A m \in stored[s] : m <= job[s].to
    BY <1>2 DEF JobsAgree
  <2>2. job[s].to \in Int
    BY DEF Typed, Jobs
  <2>3. \A m \in stored[s] : m <= confirmed[s]
    BY <1>0, <1>2, <2>1, <2>2
  <2>4. QED BY <1>1, <2>3
<1>3. ASSUME UNCHANGED <<stored, confirmed>>,
             \A s \in Symbols : state'[s] = "ready" =>
               state[s] = "ready" \/ stored[s] = 0..confirmed[s]
      PROVE  ReadyIsComplete'
  BY <1>3 DEF ReadyIsComplete
<1>4. ASSUME NEW s \in Symbols, StartTarget(s) PROVE ReadyIsComplete'
  <2>1. UNCHANGED <<stored, confirmed>> /\ job[s].phase # "none" /\ job[s] \in Jobs
    BY <1>4 DEF StartTarget, Typed
  <2>2. job[s].cursor = confirmed[s] + 1 /\ job[s].to \in Int
    BY <2>1 DEF JobsAgree, Jobs
  <2>3. ~ Missing(s) => job[s].to <= confirmed[s]
    BY <1>0, <2>2 DEF Missing
  <2>4. \A t \in Symbols : state'[t] = "ready" => state[t] = "ready" \/ (t = s /\ ~ Missing(s))
    BY <1>4 DEF StartTarget, Typed
  <2>5. QED BY <1>2, <1>3, <2>1, <2>3, <2>4
<1>5. ASSUME NEW s \in Symbols, CompleteTarget(s) PROVE ReadyIsComplete'
  <2>1. UNCHANGED <<stored, confirmed>> /\ job[s].to <= confirmed[s]
    BY <1>5, TargetCompleted
  <2>2. job[s].phase # "none" /\ \A t \in Symbols \ {s} : state'[t] = state[t]
    BY <1>5 DEF CompleteTarget, Typed
  <2>3. QED BY <1>2, <1>3, <2>1, <2>2
<1>6. ASSUME NEW s \in Symbols, SaveBatch(s) PROVE ReadyIsComplete'
  <2>1. PICK end \in Nat :
          /\ stored' = [stored EXCEPT ![s] = @ \cup (confirmed[s] + 1)..end]
          /\ confirmed' = [confirmed EXCEPT ![s] = end]
    BY <1>6, BatchSaved
  <2>2. state' = [state EXCEPT ![s] = "recovering"]
    BY <1>6 DEF SaveBatch
  <2>3. QED BY <2>1, <2>2 DEF ReadyIsComplete, Typed
<1>7. CASE HandleCandle
  <2>1. PICK s \in Symbols, m \in Nat :
          /\ Queued(1) /\ queue[1].symbol = s /\ queue[1].minute = m
          /\ stored' = [stored EXCEPT ![s] = @ \cup {m}]
          /\ state' = [state EXCEPT ![s] = LiveState(s, m)]
          /\ confirmed' = [confirmed EXCEPT ![s] = IF @ # NoCheckpoint /\ m = @ + 1 THEN m ELSE @]
    BY <1>7, CandleTaken
  <2>2. \A t \in Symbols \ {s} : /\ state'[t] = state[t] /\ stored'[t] = stored[t]
                               /\ confirmed'[t] = confirmed[t]
    BY <2>1 DEF Typed
  <2>3. /\ state'[s] = LiveState(s, m) /\ stored'[s] = stored[s] \cup {m}
        /\ confirmed'[s] = IF confirmed[s] # NoCheckpoint /\ m = confirmed[s] + 1
                           THEN m ELSE confirmed[s]
    BY <2>1 DEF Typed
  <2>4. ASSUME state'[s] = "ready" PROVE stored'[s] = 0..confirmed'[s]
    <3>1. CASE confirmed[s] = NoCheckpoint \/ m > confirmed[s] + 1
      BY <2>3, <2>4, <3>1 DEF LiveState
    <3>2. CASE confirmed[s] # NoCheckpoint /\ m = confirmed[s] + 1
      <4>1. \A n \in stored[s] : n \in Nat /\ (n <= confirmed[s] \/ n < m)
        BY <1>0, <2>1 DEF InOrder
      <4>2. \A n \in stored[s] : n <= confirmed[s]
        BY <1>0, <3>2, <4>1
      <4>3. stored[s] = 0..confirmed[s]
        BY <1>1, <4>2
      <4>4. confirmed'[s] = confirmed[s] + 1 /\ stored'[s] = (0..confirmed[s]) \cup {confirmed[s] + 1}
        BY <2>3, <3>2, <4>3
      <4>5. (0..confirmed[s]) \cup {confirmed[s] + 1} = 0..(confirmed[s] + 1)
        BY <1>0, <3>2
      <4>6. QED BY <4>4, <4>5
    <3>3. CASE confirmed[s] # NoCheckpoint /\ m <= confirmed[s]
      <4>1. state[s] = "ready" /\ m # confirmed[s] + 1
        BY <1>0, <2>3, <2>4, <3>3 DEF LiveState
      <4>2. m \in stored[s]
        BY <3>3 DEF Covered
      <4>3. QED BY <2>3, <4>1, <4>2 DEF ReadyIsComplete
    <3>4. QED BY <1>0, <3>1, <3>2, <3>3
  <2>5. QED BY <2>2, <2>4 DEF ReadyIsComplete
<1>8. CASE \/ \E s \in Symbols : Exchange(s) \/ FailTarget(s)
           \/ \E new \in SUBSET Symbols : Boot(new) \/ RefreshUniverse(new)
           \/ MarkInactive \/ StartStream \/ StreamReady \/ BeginSync \/ EndSync
           \/ HandleDisconnected \/ HandleReconnected \/ Reconcile \/ Tick \/ Quiesce \/ Restart
  <2>1. UNCHANGED <<stored, confirmed>>
    BY <1>8 DEF Exchange, Connect, Drop, Deliver, FailTarget, Boot, RefreshUniverse, MarkInactive,
         StartStream, StreamReady, BeginSync, EndSync, HandleDisconnected, HandleReconnected,
         Reconcile, Tick, Quiesce, Restart, rows
  <2>2. \A t \in Symbols : state'[t] = "ready" => state[t] = "ready"
    BY <1>8 DEF Exchange, Connect, Drop, Deliver, FailTarget, AfterFailure, Boot, RefreshUniverse,
         MarkInactive, StartStream, StreamReady, BeginSync, EndSync, HandleDisconnected,
         HandleReconnected, Reconcile, Tick, Quiesce, Restart, Marked, rows, Typed
  <2>3. QED BY <1>3, <2>1, <2>2
<1>9. QED BY <1>4, <1>5, <1>6, <1>7, <1>8 DEF Next, LiveTask, SyncTarget

(* A gap row that says recovered was completed by a target that had saved  *)
(* every minute up to its end.                                             *)
LEMMA RecoveredStep ==
  ASSUME Typed, JobsAgree, Covered, InOrder, RecoveredIsStored, Next
  PROVE  RecoveredIsStored'
<1>1. \A s \in Symbols : stored[s] \subseteq stored'[s]
  <2>1. ASSUME NEW s \in Symbols, SaveBatch(s) PROVE \A t \in Symbols : stored[t] \subseteq stored'[t]
    <3>1. PICK end \in Nat : stored' = [stored EXCEPT ![s] = @ \cup (confirmed[s] + 1)..end]
      BY <2>1, BatchSaved
    <3>2. QED BY <3>1 DEF Typed
  <2>2. ASSUME HandleCandle PROVE \A t \in Symbols : stored[t] \subseteq stored'[t]
    <3>1. PICK s \in Symbols, m \in Nat : stored' = [stored EXCEPT ![s] = @ \cup {m}]
      BY <2>2, CandleTaken
    <3>2. QED BY <3>1 DEF Typed
  <2>3. QED BY <2>1, <2>2, RowsStay
<1>2. ASSUME NEW s \in Symbols, NEW row, row.status = "recovered",
             row.from..row.to \subseteq stored[s]
      PROVE  row.from..row.to \subseteq stored'[s]
  BY <1>1, <1>2
<1>3. ASSUME \A s \in Symbols : \A i \in DOMAIN gaps'[s] :
               gaps'[s][i].status = "recovered" =>
                 gaps'[s][i].from..gaps'[s][i].to \subseteq stored[s]
      PROVE  RecoveredIsStored'
  BY <1>1, <1>3 DEF RecoveredIsStored
<1>4. ASSUME UNCHANGED gaps PROVE RecoveredIsStored'
  BY <1>3, <1>4 DEF RecoveredIsStored
<1>5. ASSUME NEW s \in Symbols, StartTarget(s) PROVE RecoveredIsStored'
  <2> DEFINE row == GapRow(job[s].cursor, job[s].to, "recovering")
  <2>1. UNCHANGED gaps \/ gaps' = [gaps EXCEPT ![s] = Append(gaps[s], row)]
    BY <1>5 DEF StartTarget
  <2>2. row.status = "recovering"
    BY DEF GapRow
  <2> HIDE DEF row
  <2>3. gaps[s] \in Seq(Gaps)
    BY DEF Typed
  <2>4. \A i \in DOMAIN Append(gaps[s], row) :
          Append(gaps[s], row)[i] = row \/ (i \in DOMAIN gaps[s] /\ Append(gaps[s], row)[i] = gaps[s][i])
    BY <2>3
  <2>5. ASSUME gaps' = [gaps EXCEPT ![s] = Append(gaps[s], row)], NEW t \in Symbols,
               NEW i \in DOMAIN gaps'[t], gaps'[t][i].status = "recovered"
        PROVE  gaps'[t][i].from..gaps'[t][i].to \subseteq stored[t]
    <3>1. i \in DOMAIN gaps[t] /\ gaps'[t][i] = gaps[t][i]
      BY <2>2, <2>4, <2>5 DEF Typed
    <3>2. QED BY <2>5, <3>1 DEF RecoveredIsStored
  <2>6. QED BY <1>3, <1>4, <2>1, <2>5
<1>6. ASSUME NEW s \in Symbols, NEW status \in Statuses, GapBecomes(s, status),
             job[s].phase # "none", status = "recovered" => job[s].to <= confirmed[s]
      PROVE  RecoveredIsStored'
  <2>1. CASE job[s].gap = 0
    BY <1>4, <1>6, <2>1 DEF GapBecomes
  <2>2. CASE job[s].gap # 0
    <3> DEFINE g == job[s].gap
    <3>1. g \in DOMAIN gaps[s] /\ gaps[s][g].to = job[s].to /\ gaps[s][g] \in Gaps
      BY <1>6, <2>2 DEF JobsAgree, Typed
    <3>2. gaps' = [gaps EXCEPT ![s] = [gaps[s] EXCEPT ![g] = [gaps[s][g] EXCEPT !.status = status]]]
      BY <1>6, <2>2 DEF GapBecomes
    <3>3. /\ \A t \in Symbols \ {s} : gaps'[t] = gaps[t]
          /\ gaps'[s] = [gaps[s] EXCEPT ![g] = [gaps[s][g] EXCEPT !.status = status]]
      BY <3>2 DEF Typed
    <3> HIDE DEF g
    <3>4. /\ DOMAIN gaps'[s] = DOMAIN gaps[s]
          /\ \A i \in DOMAIN gaps[s] \ {g} : gaps'[s][i] = gaps[s][i]
          /\ gaps'[s][g] = [gaps[s][g] EXCEPT !.status = status]
      BY <3>1, <3>3
    <3>5. gaps'[s][g].status = status /\ gaps'[s][g].from = gaps[s][g].from
          /\ gaps'[s][g].to = job[s].to
      BY <3>1, <3>4 DEF Gaps
    <3>6. status = "recovered" => gaps[s][g].from..job[s].to \subseteq stored[s]
      <4>1. gaps[s][g].from \in Nat /\ job[s].to \in Int /\ confirmed[s] \in Int
        BY <3>1, Arithmetic DEF Gaps, Minutes, Typed, Jobs
      <4>2. ASSUME status = "recovered", NEW m \in gaps[s][g].from..job[s].to PROVE m \in stored[s]
        <5>1. m \in Nat /\ m <= confirmed[s]
          BY <1>6, <4>1, <4>2
        <5>2. QED BY <5>1 DEF Covered
      <4>3. QED BY <4>2
    <3>7. ASSUME NEW t \in Symbols, NEW i \in DOMAIN gaps'[t], gaps'[t][i].status = "recovered"
          PROVE  gaps'[t][i].from..gaps'[t][i].to \subseteq stored[t]
      <4>1. CASE t # s \/ i # g
        <5>1. i \in DOMAIN gaps[t] /\ gaps'[t][i] = gaps[t][i]
          BY <3>3, <3>4, <3>7, <4>1
        <5>2. QED BY <3>7, <5>1 DEF RecoveredIsStored
      <4>2. CASE t = s /\ i = g
        BY <3>5, <3>6, <3>7, <4>2
      <4>3. QED BY <4>1, <4>2
    <3>8. QED BY <1>3, <3>7
  <2>3. QED BY <2>1, <2>2
<1>7. ASSUME NEW s \in Symbols, CompleteTarget(s) PROVE RecoveredIsStored'
  BY <1>6, <1>7, TargetCompleted DEF CompleteTarget, Statuses
<1>8. ASSUME NEW s \in Symbols, FailTarget(s) PROVE RecoveredIsStored'
  BY <1>6, <1>8 DEF FailTarget, Statuses
<1>9. CASE \/ \E s \in Symbols : Exchange(s) \/ SaveBatch(s)
           \/ \E new \in SUBSET Symbols : Boot(new) \/ RefreshUniverse(new)
           \/ MarkInactive \/ StartStream \/ StreamReady \/ BeginSync \/ EndSync \/ HandleCandle
           \/ HandleDisconnected \/ HandleReconnected \/ Reconcile \/ Tick \/ Quiesce \/ Restart
  BY <1>4, <1>9 DEF Exchange, Connect, Drop, Deliver, SaveBatch, Boot, RefreshUniverse, MarkInactive,
       StartStream, StreamReady, BeginSync, EndSync, HandleCandle, HandleDisconnected,
       HandleReconnected, Reconcile, Tick, Quiesce, Restart, rows
<1>10. QED BY <1>5, <1>7, <1>8, <1>9 DEF Next, LiveTask, SyncTarget

-----------------------------------------------------------------------------
LEMMA InvariantInit == Init => Invariant
<1> SUFFICES ASSUME Init PROVE Invariant
  OBVIOUS
<1>1. Typed
  <2>1. NoTarget \in Jobs
    BY DEF Jobs, NoTarget, Target
  <2>2. <<>> \in Seq(Gaps) /\ queue \in Seq(Events) /\ Len(queue) <= QueueSize
    BY EmptyQueue DEF Init
  <2>3. now \in 0..MaxTime /\ FirstUniverse \in SUBSET Symbols
    BY Constants, MarketDataAssumption DEF Init
  <2>4. NoCheckpoint \in Int /\ NoCheckpoint <= NoCheckpoint /\ NoCheckpoint < now
    BY <2>3, Constants
  <2>5. \A s \in Symbols : confirmed[s] = NoCheckpoint /\ delivered[s] = NoCheckpoint /\ stored[s] = {}
    BY DEF Init
  <2>6. /\ stored \in [Symbols -> SUBSET Nat] /\ confirmed \in [Symbols -> Int]
        /\ delivered \in [Symbols -> Int] /\ state \in [Symbols -> States]
        /\ gaps \in [Symbols -> Seq(Gaps)] /\ shard \in [Symbols -> Shards]
        /\ job \in [Symbols -> Jobs]
    BY <2>1, <2>2 DEF Init, States, Shards
  <2>7. refreshes \in 0..MaxRefreshes /\ faults \in 0..MaxFaults
    BY Constants DEF Init
  <2>8. /\ universe \in SUBSET Symbols /\ subscribed \in SUBSET Symbols /\ live \in Steps
        /\ ready \in BOOLEAN /\ quiescing \in BOOLEAN
    BY <2>3 DEF Init, Steps
  <2> HIDE DEF NoCheckpoint
  <2>9. QED BY <2>2, <2>3, <2>4, <2>5, <2>6, <2>7, <2>8 DEF Typed
<1>2. JobsAgree /\ Covered /\ Beyond /\ InOrder /\ StreamAgrees
  BY DEF Init, JobsAgree, NoTarget, Target, Covered, Beyond, InOrder, Queued, StreamAgrees, Streaming
<1>3. ReadyIsComplete /\ RecoveredIsStored /\ DroppedIsOffline
  BY DEF Init, ReadyIsComplete, RecoveredIsStored, DroppedIsOffline
<1>4. QED BY <1>1, <1>2, <1>3 DEF Invariant

LEMMA InvariantNext == Invariant /\ [Next]_vars => Invariant'
<1> SUFFICES ASSUME Invariant, [Next]_vars PROVE Invariant'
  OBVIOUS
<1>1. Typed'
  BY TypedStep DEF Invariant
<1>2. CASE Next
  <2>1. JobsAgree' /\ Covered' /\ Beyond' /\ InOrder'
    BY <1>2, JobsStep, CoveredStep, BeyondStep, OrderStep DEF Invariant
  <2>2. StreamAgrees' /\ DroppedIsOffline' /\ ReadyIsComplete' /\ RecoveredIsStored'
    BY <1>2, StreamStep, ReadyStep, RecoveredStep DEF Invariant
  <2>3. QED BY <1>1, <2>1, <2>2 DEF Invariant
<1>3. CASE UNCHANGED vars
  BY <1>1, <1>3 DEF Invariant, vars, rows, stream, task, bounds, JobsAgree, Covered, Beyond, InOrder,
       Queued, StreamAgrees, ReadyIsComplete, RecoveredIsStored, DroppedIsOffline
<1>4. QED BY <1>2, <1>3

LEMMA Invariance == Spec => []Invariant
<1>1. QED BY InvariantInit, InvariantNext, PTL DEF Spec

(* The variables have their types: no row, event or target is ever         *)
(* written that the others cannot read.                                    *)
THEOREM MarketDataTyped == Spec => []TypeOK
<1>1. Typed /\ JobsAgree => TypeOK
  <2> SUFFICES ASSUME Typed, JobsAgree PROVE TypeOK
    OBVIOUS
  <2>1. now \in Nat /\ LastClosed = now - 1
    BY Arithmetic DEF LastClosed
  <2>2. stored \in [Symbols -> SUBSET (0..LastClosed)]
    <3>1. ASSUME NEW s \in Symbols PROVE stored[s] \in SUBSET (0..LastClosed)
      <4>1. \A m \in stored[s] : m \in Nat /\ m < now
        BY DEF Typed
      <4>2. QED BY <2>1, <4>1
    <3>2. QED BY <3>1 DEF Typed
  <2>3. /\ confirmed \in [Symbols -> NoCheckpoint..LastClosed]
        /\ delivered \in [Symbols -> NoCheckpoint..LastClosed]
    <3>1. ASSUME NEW s \in Symbols
          PROVE  /\ confirmed[s] \in NoCheckpoint..LastClosed
                 /\ delivered[s] \in NoCheckpoint..LastClosed
      BY <2>1 DEF Typed
    <3>2. QED BY <3>1 DEF Typed
  <2>4. ASSUME NEW s \in Symbols
        PROVE  /\ \A i \in DOMAIN gaps[s] : gaps[s][i] \in Gaps
               /\ job[s].phase \in {"none", "start", "fetch"}
               /\ job[s].phase = "fetch" => job[s].gap \in 0..Len(gaps[s])
    <3>1. gaps[s] \in Seq(Gaps) /\ job[s] \in Jobs
      BY DEF Typed
    <3>2. job[s].phase = "fetch" /\ job[s].gap # 0 => job[s].gap \in DOMAIN gaps[s]
      BY DEF JobsAgree
    <3>3. QED BY <3>1, <3>2 DEF Jobs
  <2>5. \A i \in DOMAIN queue : queue[i] \in Events
    BY DEF Typed
  <2>6. QED BY <2>2, <2>3, <2>4, <2>5 DEF Typed, TypeOK, Gaps, Statuses, Shards, Steps
<1>2. QED BY <1>1, Invariance, PTL DEF Invariant

(* A checkpoint never runs ahead of the candles: each minute up to it is   *)
(* stored, whether a batch brought it or the stream (save_batch,           *)
(* ingest_live_candle).                                                    *)
THEOREM CheckpointsCovered == Spec => []Covered
<1>1. QED BY Invariance, PTL DEF Invariant

(* A checkpoint that says ready stands for an unbroken history that ends   *)
(* at it, with nothing stored beyond.                                      *)
THEOREM ReadyIsUnbroken == Spec => []ReadyIsComplete
<1>1. QED BY Invariance, PTL DEF Invariant

(* complete_gap is reached with every minute of the gap saved, whatever    *)
(* batches failed and were taken up again before.                          *)
THEOREM RecoveredGapsStored == Spec => []RecoveredIsStored
<1>1. QED BY Invariance, PTL DEF Invariant

(* No event of an old connection outlives the change of the universe.      *)
THEOREM DroppedStayOffline == Spec => []DroppedIsOffline
<1>1. QED BY Invariance, PTL DEF Invariant

(* Candles are never deleted and a checkpoint never goes back, through     *)
(* every restart (the GREATEST of save_batch and complete_gap, the         *)
(* condition of ingest_live_candle).                                       *)
Forward ==
  \A s \in Symbols : stored[s] \subseteq stored'[s] /\ confirmed[s] <= confirmed'[s]

THEOREM RowsOnlyGrow == Spec => [][Forward]_vars
<1>1. ASSUME Invariant, Next PROVE Forward
  <2>1. \A s \in Symbols : confirmed[s] \in Int
    BY <1>1 DEF Invariant, Typed
  <2>2. ASSUME NEW s \in Symbols, SaveBatch(s) PROVE Forward
    <3>1. PICK end \in Nat :
            /\ confirmed[s] < end
            /\ stored' = [stored EXCEPT ![s] = @ \cup (confirmed[s] + 1)..end]
            /\ confirmed' = [confirmed EXCEPT ![s] = end]
      BY <1>1, <2>2, BatchSaved DEF Invariant
    <3>2. QED BY <1>1, <2>1, <3>1 DEF Forward, Invariant, Typed
  <2>3. ASSUME HandleCandle PROVE Forward
    <3>1. PICK s \in Symbols, m \in Nat :
            /\ stored' = [stored EXCEPT ![s] = @ \cup {m}]
            /\ confirmed' = [confirmed EXCEPT ![s] = IF @ # NoCheckpoint /\ m = @ + 1 THEN m ELSE @]
      BY <1>1, <2>3, CandleTaken DEF Invariant
    <3>2. QED BY <1>1, <2>1, <3>1 DEF Forward, Invariant, Typed
  <2>4. CASE ~ HandleCandle /\ \A s \in Symbols : ~ SaveBatch(s)
    BY <1>1, <2>1, <2>4, RowsStay DEF Forward, Invariant
  <2>5. QED BY <2>2, <2>3, <2>4
<1>2. Invariant /\ [Next]_vars => [Forward]_vars
  BY <1>1
<1>3. QED BY <1>2, Invariance, PTL DEF Spec
=============================================================================
