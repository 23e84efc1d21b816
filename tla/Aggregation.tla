----------------------------- MODULE Aggregation -----------------------------
(***************************************************************************)
(* Aggregates of one symbol and the jobs that make them                    *)
(* (aggregation/service.py, db/repositories/aggregation.py), together with *)
(* the tasks that write its 1m candles: the live task, which ingests       *)
(* candles of the websocket and backfills, and the reconciliation of       *)
(* sampled aggregates. Each action is one transaction, so the tasks        *)
(* interleave, and a crash falls, between any two of them.                 *)
(*                                                                         *)
(* Minutes are counted from the start of the symbol's history. A candle is *)
(* told apart from other candles of its minute by the number of times it   *)
(* was revised: the websocket and REST may say different things of it, and *)
(* REST when it is asked again.                                            *)
(***************************************************************************)
EXTENDS Integers, FiniteSets

CONSTANTS
  Timeframes,       \* minutes of each aggregated timeframe
  Horizon,          \* minutes of the history
  MaxVersion,       \* how often what a candle says can change, counted from 1
  BackfillBatch, SourceBatch, JobBatch,    \* batch sizes
  StaleAfter,       \* stale_job_seconds, in minutes
  RetryDelays,      \* minutes a failed job may have to wait
  StartTime,        \* minutes that are closed when the system first starts
  MaxTime, MaxFaults      \* bounds of the model

Minutes == 0..(Horizon - 1)

IntervalStart(m, d) == m - (m % d)

ASSUME AggregationAssumption ==
  /\ Timeframes \subseteq Nat \ {0} /\ Horizon \in Nat
  /\ \A m \in Minutes, d \in Timeframes :
       IntervalStart(m, d) \in Nat /\ IntervalStart(m, d) + d <= Horizon
  /\ {MaxVersion, BackfillBatch, SourceBatch, JobBatch} \subseteq Nat \ {0}
  /\ RetryDelays \subseteq Nat
  /\ {StaleAfter, StartTime, MaxTime, MaxFaults} \subseteq Nat

Intervals == {<<d, IntervalStart(m, d)>> : d \in Timeframes, m \in Minutes}
MinutesOf(i) == i[2]..(i[2] + i[1] - 1)
IntervalsOf(m) == {i \in Intervals : m \in MinutesOf(i)}
Closes(m, i) == m + 1 = i[2] + i[1]

VARIABLES
  now,          \* the clock; minute m is closed when m < now
  source,       \* candles_1m: version of each minute, 0 when it is missing
  confirmed,    \* last_confirmed_open_time of the checkpoint, or NoCheckpoint
  delivered,    \* newest minute the websocket has delivered, or NoCheckpoint
  sync,         \* the backfill of the live task
  aggregate,    \* candles_agg: the versions an aggregate was made of, or Withheld
  jobs,         \* aggregation_jobs
  cursor,       \* last_scanned_open_time of the cursor, or NoCheckpoint
  worker,       \* what run() of the aggregation service comes to next
  batch,        \* claimed jobs it has yet to process
  loaded,       \* the job in process, with the aggregate of the source it has read
  samples,      \* sampled aggregates to be reconciled
  silent,       \* history: intervals in which a live candle has replaced another
                \* without a job, since their minutes were last loaded
  overlooked,   \* history: processing jobs the last start has left alone
  faults        \* repairs, failed jobs, candles delivered twice and restarts so far

sourceVars == <<source, confirmed, delivered, sync>>
workerVars == <<worker, batch, loaded>>
histories == <<silent, overlooked>>
vars == <<now, sourceVars, aggregate, jobs, cursor, workerVars, samples, histories, faults>>

NoCheckpoint == -1
Withheld == <<>>
NoJob == [state |-> "none"]
Nothing == [interval |-> <<>>]
Least(S) == CHOOSE x \in S : \A y \in S : x <= y
Greatest(S) == CHOOSE x \in S : \A y \in S : y <= x
Least2(a, b) == IF a <= b THEN a ELSE b
Greater(a, b) == IF a <= b THEN b ELSE a

(* The last closed minute of the history. *)
LastClosed == Least2(now, Horizon) - 1

Idle == [phase |-> "idle", to |-> NoCheckpoint]
SyncDue == [phase |-> "due", to |-> NoCheckpoint]

Stored == {m \in Minutes : source[m] # 0}

(* aggregate_candles: withheld unless every minute of the interval is there. *)
Aggregate(i) ==
  IF MinutesOf(i) \subseteq Stored THEN [m \in MinutesOf(i) |-> source[m]] ELSE Withheld

-----------------------------------------------------------------------------
(* _upsert_candles and _enqueue_aggregation_jobs, in one transaction.      *)
Upserted(S, revised) ==
  [m \in Minutes |->
     IF m \in S /\ (source[m] = 0 \/ (revised /\ source[m] < MaxVersion))
     THEN source[m] + 1 ELSE source[m]]

(* A row as a transaction of now leaves it. *)
Job(state, priority, available) ==
  [state |-> state, priority |-> priority, available |-> available, updated |-> now]

(* Faulty variant: a job that is being processed is left alone. *)
EnqueuedUnlessClaimed(I, priority) ==
  [i \in Intervals |->
     IF i \in I /\ jobs[i] = NoJob
     THEN Job("pending", priority, now)
     ELSE jobs[i]]

Enqueued(I, priority) ==
  [i \in Intervals |->
     IF i \in I
     THEN Job("pending",
              IF jobs[i] = NoJob THEN priority ELSE Least2(jobs[i].priority, priority), now)
     ELSE jobs[i]]

(* Intervals with a minute in S; those S completes as it arrives live.     *)
Affected(S) == UNION {IntervalsOf(m) : m \in S}
Completed(m) == {i \in IntervalsOf(m) : Closes(m, i)}

(* Faulty variant: any newer candle moves the checkpoint. *)
ConfirmedAnyNewer(m) == IF confirmed # NoCheckpoint THEN Greater(confirmed, m) ELSE confirmed

(* The checkpoint after a live candle: it moves by one minute or not at all. *)
ConfirmedLive(m) ==
  IF confirmed # NoCheckpoint /\ m = confirmed + 1 THEN m ELSE confirmed

(* Intervals whose minute a live candle may change without a job: it makes *)
(* one only for what it completes (completed_only).                        *)
ChangedSilently(m) ==
  IF source[m] # 0 /\ source'[m] # source[m] THEN IntervalsOf(m) \ Completed(m) ELSE {}

(* ingest_live_candle. The websocket delivers closed minutes in order; it  *)
(* may leave some out, or repeat one, and what it says may differ from     *)
(* what is stored. A gap makes the live task backfill.                     *)
IngestLive(m, revised) ==
  /\ sync = Idle
  /\ delivered <= m /\ m <= LastClosed
  /\ IF m = delivered THEN faults < MaxFaults /\ faults' = faults + 1
     ELSE UNCHANGED faults
  /\ source' = Upserted({m}, revised)
  /\ jobs' = Enqueued(Completed(m), 0)
  /\ delivered' = m
  /\ confirmed' = ConfirmedLive(m)
  /\ sync' = IF confirmed = NoCheckpoint \/ m > confirmed + 1 THEN SyncDue ELSE Idle
  /\ silent' = silent \cup ChangedSilently(m)
  /\ UNCHANGED <<now, aggregate, cursor, workerVars, samples, overlooked>>

(* sync_once: at the start, after a gap or a reconnection, and periodically. *)
BeginSync ==
  /\ sync \in {Idle, SyncDue} /\ confirmed < LastClosed
  /\ sync' = [phase |-> "running", to |-> LastClosed]
  /\ UNCHANGED <<now, source, confirmed, delivered, aggregate, jobs, cursor, workerVars,
                 samples, histories, faults>>

BatchEnd == Least2(confirmed + BackfillBatch, sync.to)

(* _sync_target, one contiguous batch from the checkpoint (save_batch).    *)
SaveBatch(revised) ==
  /\ sync.phase = "running" /\ confirmed < sync.to
  /\ LET fetched == (confirmed + 1)..BatchEnd
     IN /\ source' = Upserted(fetched, revised)
        /\ jobs' = Enqueued(Affected(fetched), 100)
  /\ confirmed' = BatchEnd
  /\ UNCHANGED <<now, delivered, sync, aggregate, cursor, workerVars, samples, histories, faults>>

(* The backfill is complete, or REST failed and it is given up.            *)
EndSync ==
  /\ sync.phase = "running"
  /\ sync' = Idle
  /\ UNCHANGED <<now, source, confirmed, delivered, aggregate, jobs, cursor, workerVars,
                 samples, histories, faults>>

-----------------------------------------------------------------------------
(* AggregationService.run, from one await to the next. *)
Stale(i) == jobs[i].state = "processing" /\ jobs[i].updated + StaleAfter < now

(* recover_stale_jobs, only as the service starts. *)
RecoverStale ==
  /\ worker = "start"
  /\ jobs' = [i \in Intervals |->
                IF Stale(i)
                THEN Job("pending", jobs[i].priority, now)
                ELSE jobs[i]]
  /\ overlooked' = {i \in Intervals : jobs[i].state = "processing" /\ ~Stale(i)}
  /\ worker' = "seed"
  /\ UNCHANGED <<now, sourceVars, aggregate, cursor, batch, loaded, samples, silent, faults>>

(* The next minutes the cursor has not scanned. *)
Unscanned == {m \in Stored : m > cursor}
NextScan == {m \in Unscanned : Cardinality({n \in Unscanned : n < m}) < SourceBatch}

(* seed_next_batch. *)
Seed ==
  /\ worker = "seed"
  /\ IF Unscanned = {} THEN UNCHANGED <<jobs, cursor>>
     ELSE /\ jobs' = Enqueued(Affected(NextScan), 100)
          /\ cursor' = Greatest(NextScan)
  /\ worker' = "claim"
  /\ UNCHANGED <<now, sourceVars, aggregate, batch, loaded, samples, histories, faults>>

Due(i) == jobs[i].state = "pending" /\ jobs[i].available <= now

(* ORDER BY priority, open_time (and an id that says nothing more). *)
Before(i, j) ==
  \/ jobs[i].priority < jobs[j].priority
  \/ jobs[i].priority = jobs[j].priority /\ i[2] < j[2]

(* claim_jobs: the first of the due jobs; none of them, and run() sleeps.  *)
Claim ==
  /\ worker = "claim"
  /\ \E claimed \in SUBSET {i \in Intervals : Due(i)} :
       LET others == {i \in Intervals : Due(i)} \ claimed
       IN /\ Cardinality(claimed) <= JobBatch
          /\ others # {} => Cardinality(claimed) = JobBatch
          /\ \A i \in claimed, j \in others : ~Before(j, i)
          /\ jobs' = [i \in Intervals |->
                        IF i \in claimed
                        THEN Job("processing", jobs[i].priority, jobs[i].available)
                        ELSE jobs[i]]
          /\ batch' = {[interval |-> i, priority |-> jobs[i].priority, at |-> now] :
                         i \in claimed}
          /\ overlooked' = overlooked \ claimed
          /\ worker' = IF claimed = {} THEN "seed" ELSE "load"
  /\ UNCHANGED <<now, sourceVars, aggregate, cursor, loaded, samples, silent, faults>>

(* load_source_candles and aggregate_candles for the next job of the batch. *)
Load(job) ==
  /\ worker = "load" /\ job \in batch
  /\ \A other \in batch :
       \/ job.priority < other.priority
       \/ job.priority = other.priority /\ job.interval[2] <= other.interval[2]
  /\ batch' = batch \ {job}
  /\ loaded' = [interval |-> job.interval, at |-> job.at, result |-> Aggregate(job.interval)]
  /\ silent' = silent \ {job.interval}
  /\ worker' = "finish"
  /\ UNCHANGED <<now, sourceVars, aggregate, jobs, cursor, samples, overlooked, faults>>

NextInBatch ==
  /\ worker' = IF batch = {} THEN "seed" ELSE "load"
  /\ loaded' = Nothing
  /\ UNCHANGED batch

(* Faulty variant: the job ends even if it was requeued meanwhile. *)
OwnsAny(job) == TRUE

(* The row is still as the worker claimed it. *)
Owns(job) ==
  jobs[job.interval].state = "processing" /\ jobs[job.interval].updated = job.at

(* finish_job: the aggregate is written, or deleted when it is withheld,   *)
(* whoever owns the job; the job is deleted by its owner only.             *)
Finish ==
  /\ worker = "finish"
  /\ aggregate' = [aggregate EXCEPT ![loaded.interval] = loaded.result]
  /\ jobs' = IF Owns(loaded) THEN [jobs EXCEPT ![loaded.interval] = NoJob] ELSE jobs
  /\ NextInBatch
  /\ UNCHANGED <<now, sourceVars, cursor, samples, histories, faults>>

(* Faulty variant: the job is put off, and its row stays in processing. *)
FailOnHold(delay) ==
  /\ worker = "finish" /\ faults < MaxFaults
  /\ faults' = faults + 1
  /\ jobs' = IF Owns(loaded)
             THEN [jobs EXCEPT ![loaded.interval] = Job("processing", @.priority, now + delay)]
             ELSE jobs
  /\ NextInBatch
  /\ UNCHANGED <<now, sourceVars, aggregate, cursor, samples, histories>>

(* An exception while loading or finishing: fail_job puts the job off.     *)
Fail(delay) ==
  /\ worker = "finish" /\ faults < MaxFaults
  /\ faults' = faults + 1
  /\ jobs' = IF Owns(loaded)
             THEN [jobs EXCEPT ![loaded.interval] = Job("pending", @.priority, now + delay)]
             ELSE jobs
  /\ NextInBatch
  /\ UNCHANGED <<now, sourceVars, aggregate, cursor, samples, histories>>

-----------------------------------------------------------------------------
(* AggregationReconciliationService: the newest aggregate of each timeframe *)
(* is compared with the exchange, and its minutes are fetched again.       *)
Newest(i) ==
  /\ aggregate[i] # Withheld
  /\ \A j \in Intervals : j[1] = i[1] /\ aggregate[j] # Withheld => j[2] <= i[2]

Sample ==
  /\ samples = {} /\ faults < MaxFaults
  /\ samples' = {i \in Intervals : Newest(i)}
  /\ UNCHANGED <<now, sourceVars, aggregate, jobs, cursor, workerVars, histories, faults>>

(* The sample matches, REST fails, or it returns no candles.               *)
PassOver(i) ==
  /\ i \in samples
  /\ samples' = samples \ {i}
  /\ UNCHANGED <<now, sourceVars, aggregate, jobs, cursor, workerVars, histories, faults>>

(* repair_candles with what REST returns of the interval.                  *)
Repair(i, S, revised) ==
  /\ i \in samples /\ S # {} /\ S \subseteq MinutesOf(i)
  /\ faults < MaxFaults
  /\ faults' = faults + 1
  /\ source' = Upserted(S, revised)
  /\ jobs' = Enqueued(Affected(S), 10)
  /\ samples' = samples \ {i}
  /\ UNCHANGED <<now, confirmed, delivered, sync, aggregate, cursor, workerVars, histories>>

-----------------------------------------------------------------------------
Tick ==
  /\ now < MaxTime
  /\ now' = now + 1
  /\ UNCHANGED <<sourceVars, aggregate, jobs, cursor, workerVars, samples, histories, faults>>

(* The worker process dies and starts again: only the rows survive.        *)
Restart ==
  /\ faults < MaxFaults
  /\ faults' = faults + 1
  /\ worker' = "start" /\ batch' = {} /\ loaded' = Nothing
  /\ sync' = SyncDue /\ samples' = {}
  /\ UNCHANGED <<now, source, confirmed, delivered, aggregate, jobs, cursor, histories>>

Init ==
  /\ now = StartTime
  /\ source = [m \in Minutes |-> 0]
  /\ confirmed = NoCheckpoint /\ delivered = NoCheckpoint /\ sync = SyncDue
  /\ aggregate = [i \in Intervals |-> Withheld]
  /\ jobs = [i \in Intervals |-> NoJob]
  /\ cursor = NoCheckpoint
  /\ worker = "start" /\ batch = {} /\ loaded = Nothing
  /\ samples = {} /\ silent = {} /\ overlooked = {}
  /\ faults = 0

Writer ==
  \/ \E revised \in BOOLEAN :
       SaveBatch(revised) \/ \E m \in Minutes : IngestLive(m, revised)
  \/ BeginSync \/ EndSync

Aggregator ==
  RecoverStale \/ Seed \/ Claim \/ (\E job \in batch : Load(job)) \/ Finish

Reconciler ==
  \/ Sample
  \/ \E i \in samples :
       \/ PassOver(i)
       \/ \E S \in SUBSET MinutesOf(i), revised \in BOOLEAN : Repair(i, S, revised)

Next ==
  Writer \/ Aggregator \/ (\E delay \in RetryDelays : Fail(delay)) \/ Reconciler \/ Tick \/ Restart

Spec == Init /\ [][Next]_vars

(* The clock advances and the service is scheduled; nothing is assumed of  *)
(* the exchange.                                                           *)
FairSpec == Spec /\ WF_vars(Tick) /\ WF_vars(Aggregator)

-----------------------------------------------------------------------------
Jobs == [state : {"pending", "processing"}, priority : {0, 10, 100},
         available : Nat, updated : 0..MaxTime]

(* Types; and nothing of a minute that is still open is stored.             *)
TypeOK ==
  /\ now \in 0..MaxTime
  /\ source \in [Minutes -> 0..MaxVersion]
  /\ {confirmed, delivered, cursor} \subseteq NoCheckpoint..LastClosed
  /\ sync \in [phase : {"idle", "due", "running"}, to : NoCheckpoint..LastClosed]
  /\ \A i \in Intervals : aggregate[i] \in [MinutesOf(i) -> 1..MaxVersion] \cup {Withheld}
  /\ DOMAIN aggregate = Intervals
  /\ jobs \in [Intervals -> Jobs \cup {NoJob}]
  /\ worker \in {"start", "seed", "claim", "load", "finish"}
  /\ batch \subseteq [interval : Intervals, priority : {0, 10, 100}, at : 0..MaxTime]
  /\ {samples, silent, overlooked} \subseteq SUBSET Intervals
  /\ faults \in 0..MaxFaults

(* Every minute up to the checkpoint is stored: a restart resumes there    *)
(* (save_batch, ingest_live_candle).                                       *)
CheckpointCovered == 0..confirmed \subseteq Stored

(* An aggregate agrees with its source, or a job will see to it: a candle  *)
(* repaired or stored between the load and the finish of a job, or live    *)
(* and out of turn, never leaves a wrong aggregate behind (finish_job,     *)
(* _enqueue_aggregation_jobs). In particular nothing is aggregated from an *)
(* incomplete interval and left so. The one exception is silent: a live    *)
(* candle that says something else of a minute that is stored replaces it, *)
(* and makes a job only for an interval it completes.                      *)
AggregateOrJob ==
  \A i \in Intervals \ silent : jobs[i] = NoJob => aggregate[i] = Aggregate(i)

(* A job that was being processed when the worker died, and that its next  *)
(* start has found too fresh to recover, is not looked at again, unless    *)
(* one of its minutes is written once more.                                *)
Orphaned(i) == jobs[i].state = "processing" /\ i \in overlooked
BeyondTheClock(i) == jobs[i] # NoJob /\ jobs[i].available > MaxTime

(* Every other job ends, whatever fails and is retried (run, fail_job).    *)
JobsEnd ==
  \A i \in Intervals :
    jobs[i] # NoJob ~> jobs[i] = NoJob \/ Orphaned(i) \/ BeyondTheClock(i)

(* docs/tasks.md: restarting an interrupted rebuild resumes from its       *)
(* durable checkpoint. Then no job is left over for good.                  *)
RebuildResumes == \A i \in Intervals : jobs[i] # NoJob ~> jobs[i] = NoJob
=============================================================================
