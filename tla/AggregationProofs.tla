-------------------------- MODULE AggregationProofs --------------------------
(***************************************************************************)
(* Proofs about Aggregation, for any timeframes, history, batch sizes and  *)
(* numbers of faults.                                                      *)
(***************************************************************************)
EXTENDS Aggregation, TLAPS

(* What the properties need to know of the types.                          *)
Typed ==
  /\ now \in Nat
  /\ source \in [Minutes -> Nat]
  /\ confirmed \in Minutes \cup {NoCheckpoint}
  /\ delivered \in Minutes \cup {NoCheckpoint}
  /\ sync.to \in Minutes \cup {NoCheckpoint}
  /\ jobs \in [Intervals -> [state : {"pending", "processing"}, priority : Nat,
                             available : Nat, updated : Nat] \cup {NoJob}]
  /\ aggregate = [i \in Intervals |-> aggregate[i]]
  /\ batch \subseteq [interval : Intervals, priority : Nat, at : Nat]
  /\ worker = "finish" => loaded.interval \in Intervals
  /\ samples \subseteq Intervals

(* A minute beyond the checkpoint came from the websocket: nothing else    *)
(* writes ahead of it, so a live candle that does not close its interval   *)
(* finds the interval incomplete.                                          *)
NothingBeyond == \A m \in Stored : m <= confirmed \/ m <= delivered

(* An aggregate was made of a complete interval, and only such an interval *)
(* is sampled and repaired.                                                *)
Complete(i) == MinutesOf(i) \subseteq Stored
OnlyComplete ==
  /\ \A i \in Intervals : aggregate[i] # Withheld => Complete(i)
  /\ \A i \in samples : Complete(i)
  /\ worker = "finish" /\ loaded.result # Withheld => Complete(loaded.interval)

(* The jobs of a batch are distinct and have their rows.                   *)
BatchHasRows ==
  /\ \A job \in batch : jobs[job.interval] # NoJob
  /\ \A job, other \in batch : job.interval = other.interval => job = other
  /\ worker = "finish" => /\ jobs[loaded.interval] # NoJob
                          /\ \A job \in batch : job.interval # loaded.interval

(* Nothing has changed under a loaded job that the worker still owns,      *)
(* unless a live candle has changed it silently.                           *)
LoadedFresh ==
  worker = "finish" /\ Owns(loaded) /\ loaded.interval \notin silent
    => loaded.result = Aggregate(loaded.interval)

AggregationInvariant ==
  /\ Typed /\ CheckpointCovered /\ NothingBeyond /\ OnlyComplete /\ BatchHasRows
  /\ LoadedFresh /\ AggregateOrJob

-----------------------------------------------------------------------------
LEMMA IntervalBounds ==
  ASSUME NEW i \in Intervals
  PROVE  /\ i[1] \in Nat \ {0} /\ i[2] \in Nat
         /\ MinutesOf(i) \subseteq Minutes
         /\ i[2] + i[1] - 1 \in MinutesOf(i)
<1>1. PICK d \in Timeframes, m \in Minutes : i = <<d, IntervalStart(m, d)>>
  BY DEF Intervals
<1>2. d \in Nat \ {0} /\ m \in Nat /\ Horizon \in Nat
  BY AggregationAssumption DEF Minutes
<1>3. IntervalStart(m, d) \in Nat /\ IntervalStart(m, d) + d <= Horizon
  BY AggregationAssumption
<1>4. QED BY <1>1, <1>2, <1>3 DEF MinutesOf, Minutes

(* A live candle that closes no interval of its minute finds them all      *)
(* incomplete, if it stores anything, and leaves them so.                  *)
LEMMA OtherIntervalsIncomplete ==
  ASSUME Typed, CheckpointCovered, NothingBeyond,
         NEW m \in Minutes, delivered <= m, source[m] = 0,
         NEW i \in Intervals, m \in MinutesOf(i), ~Closes(m, i)
  PROVE  i[2] + i[1] - 1 \in Minutes \ (Stored \cup {m})
<1>1. DEFINE closing == i[2] + i[1] - 1
<1>2. closing \in Minutes /\ closing > m
  BY IntervalBounds DEF MinutesOf, Closes, Minutes
<1>3. closing \notin Stored
  <2>1. SUFFICES ASSUME closing \in Stored PROVE FALSE
    OBVIOUS
  <2>2. closing <= confirmed
    BY <1>2, <2>1 DEF NothingBeyond, Typed, Minutes, NoCheckpoint
  <2>3. m \in 0..confirmed
    BY <1>2, <2>2 DEF Minutes, Typed, NoCheckpoint
  <2>4. QED BY <2>3 DEF CheckpointCovered, Stored
<1>4. QED BY <1>2, <1>3 DEF Minutes

(* What a write to the source does to intervals and their jobs.            *)
SourceStep ==
  /\ jobs' \in [Intervals -> [state : {"pending", "processing"}, priority : Nat,
                              available : Nat, updated : Nat] \cup {NoJob}]
  /\ \A i \in Intervals :
       \/ jobs'[i].state = "pending" /\ jobs'[i] # NoJob
       \/ jobs'[i] = jobs[i] /\ (Aggregate(i)' = Aggregate(i) \/ i \in silent')
  /\ silent \subseteq silent'

LEMMA UpsertedStores ==
  ASSUME Typed, NEW S \in SUBSET Minutes, NEW revised \in BOOLEAN,
         source' = Upserted(S, revised)
  PROVE  /\ source' \in [Minutes -> Nat]
         /\ Stored' = Stored \cup S
         /\ \A m \in Minutes \ S : source'[m] = source[m]
         /\ ~revised => \A m \in Stored : source'[m] = source[m]
  BY DEF Typed, Upserted, Stored

LEMMA EnqueuedTyped ==
  ASSUME Typed, NEW I, NEW priority \in Nat
  PROVE  /\ Enqueued(I, priority) \in
              [Intervals -> [state : {"pending", "processing"}, priority : Nat,
                             available : Nat, updated : Nat] \cup {NoJob}]
         /\ \A i \in Intervals :
              IF i \in I THEN /\ Enqueued(I, priority)[i].state = "pending"
                              /\ Enqueued(I, priority)[i] # NoJob
              ELSE Enqueued(I, priority)[i] = jobs[i]
  BY DEF Typed, Enqueued, Job, NoJob, Least2

LEMMA AffectedStep ==
  ASSUME Typed, NEW S \in SUBSET Minutes, NEW revised \in BOOLEAN, NEW priority \in Nat,
         source' = Upserted(S, revised), jobs' = Enqueued(Affected(S), priority),
         silent' = silent
  PROVE  SourceStep
<1>1. jobs' \in [Intervals -> [state : {"pending", "processing"}, priority : Nat,
                               available : Nat, updated : Nat] \cup {NoJob}]
  BY EnqueuedTyped
<1>2. SUFFICES ASSUME NEW i \in Intervals, i \notin Affected(S)
               PROVE  jobs'[i] = jobs[i] /\ Aggregate(i)' = Aggregate(i)
  BY <1>1, EnqueuedTyped DEF SourceStep
<1>3. jobs'[i] = jobs[i]
  BY <1>2, EnqueuedTyped
<1>4. MinutesOf(i) \cap S = {}
  BY <1>2 DEF Affected, IntervalsOf
<1>5. \A m \in MinutesOf(i) : m \in Minutes /\ source'[m] = source[m]
  BY <1>4, UpsertedStores, IntervalBounds
<1>6. Aggregate(i)' = Aggregate(i)
  BY <1>5 DEF Aggregate, Stored
<1>7. QED BY <1>3, <1>6

LEMMA LiveStep ==
  ASSUME Typed, CheckpointCovered, NothingBeyond,
         NEW m \in Minutes, NEW revised \in BOOLEAN, delivered <= m,
         source' = Upserted({m}, revised), jobs' = Enqueued(Completed(m), 0),
         silent' = silent \cup ChangedSilently(m)
  PROVE  SourceStep
<1>1. jobs' \in [Intervals -> [state : {"pending", "processing"}, priority : Nat,
                               available : Nat, updated : Nat] \cup {NoJob}]
  BY EnqueuedTyped
<1>2. SUFFICES ASSUME NEW i \in Intervals, i \notin Completed(m)
               PROVE  jobs'[i] = jobs[i] /\ (Aggregate(i)' = Aggregate(i) \/ i \in silent')
  BY <1>1, EnqueuedTyped DEF SourceStep
<1>3. jobs'[i] = jobs[i]
  BY <1>2, EnqueuedTyped
<1>4. CASE m \notin MinutesOf(i) \/ source'[m] = source[m]
  <2>0. \A n \in Minutes \ {m} : source'[n] = source[n]
    BY UpsertedStores
  <2>1. \A n \in MinutesOf(i) : n \in Minutes /\ source'[n] = source[n]
    BY <1>4, <2>0, IntervalBounds
  <2>2. Aggregate(i)' = Aggregate(i)
    BY <2>1 DEF Aggregate, Stored
  <2>3. QED BY <1>3, <2>2
<1>5. CASE m \in MinutesOf(i) /\ m \notin Stored
  <2>1. ~Closes(m, i)
    BY <1>2, <1>5 DEF Completed, IntervalsOf
  <2>2. i[2] + i[1] - 1 \in Minutes \ (Stored \cup {m})
    BY <1>5, <2>1, OtherIntervalsIncomplete DEF Stored
  <2>3. i[2] + i[1] - 1 \in MinutesOf(i) /\ i[2] + i[1] - 1 \notin Stored'
    BY <2>2, IntervalBounds, UpsertedStores
  <2>4. ~(MinutesOf(i) \subseteq Stored) /\ ~(MinutesOf(i) \subseteq Stored')
    BY <2>2, <2>3
  <2>5. Aggregate(i) = Withheld /\ Aggregate(i)' = Withheld
    BY <2>4 DEF Aggregate
  <2>6. QED BY <1>3, <2>5
<1>6. CASE m \in MinutesOf(i) /\ m \in Stored /\ source'[m] # source[m]
  <2>1. i \in ChangedSilently(m)
    BY <1>2, <1>6 DEF ChangedSilently, IntervalsOf, Stored
  <2>2. QED BY <1>3, <2>1
<1>7. QED BY <1>4, <1>5, <1>6

(* A write to the source disturbs neither the aggregates nor the worker.   *)
LEMMA SourceStepKeeps ==
  ASSUME AggregationInvariant, SourceStep, UNCHANGED <<aggregate, workerVars>>,
         Stored \subseteq Stored', samples' \subseteq samples
  PROVE  OnlyComplete' /\ BatchHasRows' /\ LoadedFresh' /\ AggregateOrJob'
<1>1. AggregateOrJob'
  BY DEF SourceStep, AggregationInvariant, AggregateOrJob
<1>2. LoadedFresh'
  <2>1. SUFFICES ASSUME worker' = "finish", Owns(loaded)', loaded'.interval \notin silent'
                 PROVE  loaded'.result = Aggregate(loaded.interval)'
    BY DEF LoadedFresh, workerVars
  <2>2. loaded.interval \in Intervals /\ worker = "finish" /\ loaded' = loaded
    BY <2>1 DEF workerVars, AggregationInvariant, Typed
  <2>3. jobs'[loaded.interval].state = "processing"
    BY <2>1, <2>2 DEF Owns
  <2>4. /\ jobs'[loaded.interval] = jobs[loaded.interval]
        /\ Aggregate(loaded.interval)' = Aggregate(loaded.interval)
        /\ loaded.interval \notin silent
    BY <2>1, <2>2, <2>3 DEF SourceStep
  <2>5. Owns(loaded)
    BY <2>1, <2>2, <2>4 DEF Owns
  <2>6. QED BY <2>2, <2>4, <2>5 DEF AggregationInvariant, LoadedFresh
<1>3. BatchHasRows'
  BY DEF SourceStep, AggregationInvariant, BatchHasRows, Typed, workerVars
<1>4. OnlyComplete'
  BY DEF AggregationInvariant, OnlyComplete, Complete, MinutesOf, workerVars
<1>5. QED BY <1>1, <1>2, <1>3, <1>4

-----------------------------------------------------------------------------
LEMMA LastClosedIsMinute ==
  ASSUME Typed
  PROVE  LastClosed \in Int /\ \A m \in 0..LastClosed : m \in Minutes
  BY AggregationAssumption DEF Typed, LastClosed, Least2, Minutes

LEMMA InitEstablishes == Init => AggregationInvariant
<1>1. SUFFICES ASSUME Init PROVE AggregationInvariant
  OBVIOUS
<1>2. Typed /\ CheckpointCovered /\ NothingBeyond /\ BatchHasRows /\ LoadedFresh
  BY <1>1, AggregationAssumption
     DEF Init, Typed, SyncDue, NoCheckpoint, CheckpointCovered, NothingBeyond, Stored,
         BatchHasRows, LoadedFresh
<1>3. OnlyComplete
  BY <1>1 DEF Init, OnlyComplete
<1>4. \A i \in Intervals : Aggregate(i) = Withheld
  BY <1>1, IntervalBounds DEF Init, Aggregate, Stored
<1>5. AggregateOrJob
  BY <1>1, <1>4 DEF Init, AggregateOrJob
<1>6. QED BY <1>2, <1>3, <1>5 DEF AggregationInvariant

LEMMA LiveCandleKeeps ==
  ASSUME AggregationInvariant,
         NEW m \in Minutes, NEW revised \in BOOLEAN, IngestLive(m, revised)
  PROVE  AggregationInvariant'
<1>1. /\ delivered <= m /\ source' = Upserted({m}, revised)
      /\ silent' = silent \cup ChangedSilently(m)
      /\ jobs' = Enqueued(Completed(m), 0) /\ delivered' = m
      /\ confirmed' = ConfirmedLive(m)
      /\ sync' = IF confirmed = NoCheckpoint \/ m > confirmed + 1 THEN SyncDue ELSE Idle
      /\ UNCHANGED <<now, aggregate, workerVars, samples>>
  BY DEF IngestLive
<1>2. Typed /\ CheckpointCovered /\ NothingBeyond
  BY DEF AggregationInvariant
<1>3. SourceStep
  BY <1>1, <1>2, LiveStep
<1>4. source' \in [Minutes -> Nat] /\ Stored' = Stored \cup {m}
  BY <1>1, <1>2, UpsertedStores
<1>5. OnlyComplete' /\ BatchHasRows' /\ LoadedFresh' /\ AggregateOrJob'
  BY <1>1, <1>3, <1>4, SourceStepKeeps
<1>6. /\ confirmed' \in Minutes \cup {NoCheckpoint}
      /\ confirmed' = confirmed \/ (confirmed' = m /\ m = confirmed + 1)
  BY <1>1, <1>2 DEF ConfirmedLive, Typed
<1>7. Typed'
  BY <1>1, <1>2, <1>3, <1>4, <1>6 DEF Typed, SourceStep, workerVars, SyncDue, Idle
<1>8. CheckpointCovered'
  BY <1>2, <1>4, <1>6 DEF CheckpointCovered, Minutes, Typed, NoCheckpoint
<1>9. NothingBeyond'
  <2>1. {confirmed, delivered} \subseteq Int /\ Stored \subseteq Int /\ m \in Int
    BY <1>2 DEF Typed, Minutes, NoCheckpoint, Stored
  <2>2. confirmed' \in Int /\ confirmed <= confirmed' /\ delivered' = m
    BY <1>1, <1>6, <2>1
  <2>3. QED
    BY <1>1, <1>2, <1>4, <2>1, <2>2 DEF NothingBeyond
<1>10. QED BY <1>5, <1>7, <1>8, <1>9 DEF AggregationInvariant

LEMMA SaveBatchKeeps ==
  ASSUME AggregationInvariant, NEW revised \in BOOLEAN, SaveBatch(revised)
  PROVE  AggregationInvariant'
<1> DEFINE fetched == (confirmed + 1)..BatchEnd
<1>1. /\ confirmed < sync.to
      /\ source' = Upserted(fetched, revised) /\ jobs' = Enqueued(Affected(fetched), 100)
      /\ confirmed' = BatchEnd
      /\ UNCHANGED <<now, delivered, sync, aggregate, workerVars, samples, silent>>
  BY DEF SaveBatch, histories
<1>2. Typed /\ CheckpointCovered /\ NothingBeyond
  BY DEF AggregationInvariant
<1>3. BatchEnd \in Minutes /\ confirmed \in Int /\ -1 <= confirmed /\ confirmed < BatchEnd
  <2>1. confirmed \in Int /\ sync.to \in Minutes /\ confirmed >= -1
    BY <1>1, <1>2 DEF Typed, Minutes, NoCheckpoint
  <2>2. BackfillBatch \in Nat \ {0}
    BY AggregationAssumption
  <2>3. sync.to \in Nat /\ confirmed < sync.to
    BY <1>1, <2>1 DEF Minutes
  <2> DEFINE far == confirmed + BackfillBatch
  <2>4. far \in Int /\ confirmed < far
    BY <2>1, <2>2
  <2>5. BatchEnd = IF far <= sync.to THEN far ELSE sync.to
    BY DEF BatchEnd, Least2
  <2> HIDE DEF far
  <2>6. BatchEnd \in Int /\ confirmed < BatchEnd /\ BatchEnd <= sync.to
    BY <2>1, <2>3, <2>4, <2>5
  <2>7. BatchEnd \in Minutes
    BY <2>1, <2>6, AggregationAssumption DEF Minutes
  <2>8. QED BY <2>1, <2>6, <2>7
<1>4. fetched \in SUBSET Minutes
  BY <1>3, AggregationAssumption DEF Minutes
<1> HIDE DEF fetched
<1>5. SourceStep
  BY <1>1, <1>2, <1>4, AffectedStep
<1>6. source' \in [Minutes -> Nat] /\ Stored' = Stored \cup fetched
  BY <1>1, <1>2, <1>4, UpsertedStores
<1>7. OnlyComplete' /\ BatchHasRows' /\ LoadedFresh' /\ AggregateOrJob'
  BY <1>1, <1>5, <1>6, SourceStepKeeps
<1>8. Typed'
  BY <1>1, <1>2, <1>3, <1>5, <1>6 DEF Typed, SourceStep, workerVars
<1>9. CheckpointCovered'
  BY <1>1, <1>2, <1>3, <1>6 DEF fetched, CheckpointCovered, Minutes, Typed, NoCheckpoint
<1>10. NothingBeyond'
  BY <1>1, <1>2, <1>3, <1>6 DEF fetched, NothingBeyond, Typed, Minutes, NoCheckpoint, Stored
<1>11. QED BY <1>7, <1>8, <1>9, <1>10 DEF AggregationInvariant

LEMMA RepairKeeps ==
  ASSUME AggregationInvariant, NEW i \in samples, NEW S \in SUBSET MinutesOf(i),
         NEW revised \in BOOLEAN, Repair(i, S, revised)
  PROVE  AggregationInvariant'
<1>1. /\ source' = Upserted(S, revised) /\ jobs' = Enqueued(Affected(S), 10)
      /\ samples' = samples \ {i}
      /\ UNCHANGED <<now, confirmed, delivered, sync, aggregate, workerVars, silent>>
  BY DEF Repair, histories
<1>2. Typed /\ CheckpointCovered /\ NothingBeyond
  BY DEF AggregationInvariant
<1>3. S \subseteq Stored /\ S \in SUBSET Minutes
  BY DEF AggregationInvariant, OnlyComplete, Complete, Stored
<1>4. SourceStep
  BY <1>1, <1>2, <1>3, AffectedStep
<1>5. source' \in [Minutes -> Nat] /\ Stored' = Stored
  BY <1>1, <1>2, <1>3, UpsertedStores
<1>6. OnlyComplete' /\ BatchHasRows' /\ LoadedFresh' /\ AggregateOrJob'
  BY <1>1, <1>4, <1>5, SourceStepKeeps
<1>7. Typed'
  BY <1>1, <1>2, <1>4, <1>5 DEF Typed, SourceStep, workerVars
<1>8. CheckpointCovered' /\ NothingBeyond'
  BY <1>1, <1>2, <1>5 DEF CheckpointCovered, NothingBeyond
<1>9. QED BY <1>6, <1>7, <1>8 DEF AggregationInvariant

(* A step of the aggregator that leaves source and aggregates alone.       *)
LEMMA JobsStepKeeps ==
  ASSUME AggregationInvariant, UNCHANGED <<now, sourceVars, aggregate, samples, silent>>,
         jobs' \in [Intervals -> [state : {"pending", "processing"}, priority : Nat,
                                  available : Nat, updated : Nat] \cup {NoJob}],
         \A i \in Intervals : jobs'[i] = NoJob => jobs[i] = NoJob,
         batch' \subseteq [interval : Intervals, priority : Nat, at : Nat],
         worker' # "finish",
         \A job \in batch' : jobs'[job.interval] # NoJob,
         \A job, other \in batch' : job.interval = other.interval => job = other
  PROVE  AggregationInvariant'
<1>1. Typed'
  BY DEF AggregationInvariant, Typed, sourceVars
<1>2. CheckpointCovered' /\ NothingBeyond' /\ OnlyComplete'
  BY DEF AggregationInvariant, CheckpointCovered, NothingBeyond, OnlyComplete, Complete,
         MinutesOf, Stored, sourceVars
<1>3. BatchHasRows' /\ LoadedFresh'
  BY DEF BatchHasRows, LoadedFresh
<1>4. AggregateOrJob'
  BY DEF AggregationInvariant, AggregateOrJob, Aggregate, Stored, sourceVars
<1>5. QED BY <1>1, <1>2, <1>3, <1>4 DEF AggregationInvariant

LEMMA RecoverKeeps ==
  ASSUME AggregationInvariant, RecoverStale
  PROVE  AggregationInvariant'
<1>1. Typed /\ BatchHasRows
  BY DEF AggregationInvariant
<1>2. /\ jobs' \in [Intervals -> [state : {"pending", "processing"}, priority : Nat,
                                  available : Nat, updated : Nat] \cup {NoJob}]
      /\ \A i \in Intervals : jobs'[i] = NoJob => jobs[i] = NoJob
  BY <1>1 DEF RecoverStale, Stale, Job, NoJob, Typed
<1>3. batch' = batch /\ \A job \in batch : job.interval \in Intervals
  BY <1>1 DEF RecoverStale, Typed
<1>4. QED
  BY <1>1, <1>2, <1>3, JobsStepKeeps DEF RecoverStale, Typed, BatchHasRows

LEMMA SeedKeeps ==
  ASSUME AggregationInvariant, Seed
  PROVE  AggregationInvariant'
<1>1. Typed /\ BatchHasRows
  BY DEF AggregationInvariant
<1>2. /\ jobs' \in [Intervals -> [state : {"pending", "processing"}, priority : Nat,
                                  available : Nat, updated : Nat] \cup {NoJob}]
      /\ \A i \in Intervals : jobs'[i] = NoJob => jobs[i] = NoJob
  BY <1>1, EnqueuedTyped DEF Seed, Typed
<1>3. batch' = batch /\ \A job \in batch : job.interval \in Intervals
  BY <1>1 DEF Seed, Typed
<1>4. QED
  BY <1>1, <1>2, <1>3, JobsStepKeeps DEF Seed, histories, Typed, BatchHasRows

LEMMA ClaimKeeps ==
  ASSUME AggregationInvariant, Claim
  PROVE  AggregationInvariant'
<1>1. Typed
  BY DEF AggregationInvariant
<1>2. PICK claimed \in SUBSET {i \in Intervals : Due(i)} :
        /\ jobs' = [i \in Intervals |->
                      IF i \in claimed
                      THEN Job("processing", jobs[i].priority, jobs[i].available)
                      ELSE jobs[i]]
        /\ batch' = {[interval |-> i, priority |-> jobs[i].priority, at |-> now] :
                       i \in claimed}
        /\ worker' = IF claimed = {} THEN "seed" ELSE "load"
  BY DEF Claim
<1>3. UNCHANGED <<now, sourceVars, aggregate, samples, silent>>
  BY DEF Claim
<1>4. \A i \in claimed : i \in Intervals /\ jobs[i] # NoJob
  BY <1>2 DEF Due, NoJob
<1>5. /\ jobs' \in [Intervals -> [state : {"pending", "processing"}, priority : Nat,
                                  available : Nat, updated : Nat] \cup {NoJob}]
      /\ \A i \in Intervals : jobs'[i] = NoJob => jobs[i] = NoJob
  BY <1>1, <1>2, <1>4 DEF Typed, Job, NoJob
<1>6. batch' \subseteq [interval : Intervals, priority : Nat, at : Nat]
  BY <1>1, <1>2, <1>4 DEF Typed, NoJob
<1>7. /\ \A job \in batch' : jobs'[job.interval] # NoJob
      /\ \A job, other \in batch' : job.interval = other.interval => job = other
  BY <1>2, <1>4, <1>5
<1>8. QED BY <1>2, <1>3, <1>5, <1>6, <1>7, JobsStepKeeps

LEMMA LoadKeeps ==
  ASSUME AggregationInvariant, NEW job \in batch, Load(job)
  PROVE  AggregationInvariant'
<1>1. /\ batch' = batch \ {job} /\ worker' = "finish"
      /\ loaded' = [interval |-> job.interval, at |-> job.at,
                    result |-> Aggregate(job.interval)]
      /\ UNCHANGED <<now, sourceVars, aggregate, jobs, samples>>
      /\ silent' = silent \ {job.interval}
  BY DEF Load
<1>2. job.interval \in Intervals
  BY DEF AggregationInvariant, Typed
<1>3. Typed'
  BY <1>1, <1>2 DEF AggregationInvariant, Typed, sourceVars
<1>4. CheckpointCovered' /\ NothingBeyond'
  BY <1>1 DEF AggregationInvariant, CheckpointCovered, NothingBeyond, Stored, sourceVars
<1>5. OnlyComplete'
  BY <1>1 DEF AggregationInvariant, OnlyComplete, Complete, MinutesOf, Stored, sourceVars,
              Aggregate
<1>6. BatchHasRows'
  BY <1>1 DEF AggregationInvariant, BatchHasRows
<1>7. LoadedFresh'
  BY <1>1 DEF LoadedFresh, Aggregate, Stored, MinutesOf, sourceVars
<1>8. AggregateOrJob'
  <2>1. jobs'[job.interval] # NoJob
    BY <1>1 DEF AggregationInvariant, BatchHasRows
  <2>2. \A i \in Intervals \ silent' : jobs'[i] = NoJob => i \in Intervals \ silent
    BY <1>1, <2>1
  <2>3. QED
    BY <1>1, <2>2 DEF AggregationInvariant, AggregateOrJob, Aggregate, Stored, sourceVars
<1>9. QED BY <1>3, <1>4, <1>5, <1>6, <1>7, <1>8 DEF AggregationInvariant

LEMMA FinishKeeps ==
  ASSUME AggregationInvariant, Finish
  PROVE  AggregationInvariant'
<1> DEFINE x == loaded.interval
<1>1. /\ worker = "finish" /\ x \in Intervals
      /\ aggregate' = [aggregate EXCEPT ![x] = loaded.result]
      /\ jobs' = IF Owns(loaded) THEN [jobs EXCEPT ![x] = NoJob] ELSE jobs
      /\ worker' # "finish" /\ batch' = batch
      /\ UNCHANGED <<now, sourceVars, samples, silent>>
  BY DEF Finish, histories, NextInBatch, AggregationInvariant, Typed
<1>2. Typed /\ OnlyComplete /\ BatchHasRows /\ LoadedFresh /\ AggregateOrJob
  BY DEF AggregationInvariant
<1>3. \A i \in Intervals : aggregate'[i] = IF i = x THEN loaded.result ELSE aggregate[i]
  BY <1>1, <1>2 DEF Typed
<1>4. Typed'
  BY <1>1, <1>2 DEF Typed, sourceVars, NoJob
<1>5. CheckpointCovered' /\ NothingBeyond'
  BY <1>1 DEF AggregationInvariant, CheckpointCovered, NothingBeyond, Stored, sourceVars
<1>6. OnlyComplete'
  BY <1>1, <1>2, <1>3 DEF OnlyComplete, Complete, MinutesOf, Stored, sourceVars
<1>7. BatchHasRows' /\ LoadedFresh'
  BY <1>1, <1>2 DEF BatchHasRows, LoadedFresh, Typed
<1>8. AggregateOrJob'
  <2>1. SUFFICES ASSUME NEW i \in Intervals \ silent', jobs'[i] = NoJob
                 PROVE  aggregate'[i] = Aggregate(i)'
    BY DEF AggregateOrJob
  <2>2. Aggregate(i)' = Aggregate(i)
    BY <1>1 DEF Aggregate, MinutesOf, Stored, sourceVars
  <2>3. CASE i = x
    BY <1>1, <1>2, <1>3, <2>1, <2>2, <2>3 DEF BatchHasRows, LoadedFresh
  <2>4. CASE i # x
    BY <1>1, <1>2, <1>3, <2>1, <2>2, <2>4 DEF AggregateOrJob, Typed
  <2>5. QED BY <2>3, <2>4
<1>9. QED BY <1>4, <1>5, <1>6, <1>7, <1>8 DEF AggregationInvariant

LEMMA FailKeeps ==
  ASSUME AggregationInvariant, NEW delay \in Nat, Fail(delay)
  PROVE  AggregationInvariant'
<1>1. Typed /\ BatchHasRows
  BY DEF AggregationInvariant
<1>2. loaded.interval \in Intervals /\ worker = "finish"
  BY <1>1 DEF Fail, Typed
<1>3. Owns(loaded) => jobs[loaded.interval] # NoJob
  BY DEF Owns, NoJob
<1>4. /\ jobs' \in [Intervals -> [state : {"pending", "processing"}, priority : Nat,
                                  available : Nat, updated : Nat] \cup {NoJob}]
      /\ \A i \in Intervals : jobs'[i] = NoJob => jobs[i] = NoJob
  BY <1>1, <1>2, <1>3 DEF Fail, Job, NoJob, Typed
<1>5. batch' = batch /\ worker' # "finish" /\ \A job \in batch : job.interval \in Intervals
  BY <1>1 DEF Fail, NextInBatch, Typed
<1>6. QED
  BY <1>1, <1>4, <1>5, JobsStepKeeps DEF Fail, histories, Typed, BatchHasRows

(* A step that moves none of the variables the invariant relates.          *)
LEMMA OtherStepKeeps ==
  ASSUME AggregationInvariant,
         UNCHANGED <<source, confirmed, delivered, aggregate, jobs, workerVars, silent>>,
         now' \in Nat, sync'.to \in Minutes \cup {NoCheckpoint},
         samples' \subseteq Intervals, \A i \in samples' : Complete(i)
  PROVE  AggregationInvariant'
<1>1. Typed'
  BY DEF AggregationInvariant, Typed, workerVars
<1>2. CheckpointCovered' /\ NothingBeyond' /\ OnlyComplete' /\ AggregateOrJob'
  BY DEF AggregationInvariant, CheckpointCovered, NothingBeyond, OnlyComplete, Complete,
         AggregateOrJob, Aggregate, MinutesOf, Stored, workerVars
<1>3. BatchHasRows' /\ LoadedFresh'
  BY DEF AggregationInvariant, BatchHasRows, LoadedFresh, Owns, Aggregate, Stored, workerVars
<1>4. QED BY <1>1, <1>2, <1>3 DEF AggregationInvariant

LEMMA AggregationStep ==
  ASSUME AggregationInvariant, [Next]_vars
  PROVE  AggregationInvariant'
<1>1. /\ now \in Nat /\ sync.to \in Minutes \cup {NoCheckpoint} /\ samples \subseteq Intervals
      /\ \A i \in samples : Complete(i)
  BY DEF AggregationInvariant, Typed, OnlyComplete
<1>2. CASE \E revised \in BOOLEAN : SaveBatch(revised)
  BY <1>2, SaveBatchKeeps
<1>3. CASE \E revised \in BOOLEAN, m \in Minutes : IngestLive(m, revised)
  BY <1>3, LiveCandleKeeps
<1>4. CASE BeginSync
  <2>1. sync'.to = LastClosed /\ confirmed < LastClosed /\ confirmed \in Int /\ confirmed >= -1
    BY <1>4 DEF BeginSync, AggregationInvariant, Typed, Minutes, NoCheckpoint
  <2>2. sync'.to \in Minutes
    BY <2>1, LastClosedIsMinute DEF AggregationInvariant
  <2>3. QED BY <1>1, <1>4, <2>2, OtherStepKeeps DEF BeginSync, workerVars, histories
<1>5. CASE EndSync
  BY <1>1, <1>5, OtherStepKeeps DEF EndSync, Idle, workerVars, histories
<1>6. CASE RecoverStale
  BY <1>6, RecoverKeeps
<1>7. CASE Seed
  BY <1>7, SeedKeeps
<1>8. CASE Claim
  BY <1>8, ClaimKeeps
<1>9. CASE \E job \in batch : Load(job)
  BY <1>9, LoadKeeps
<1>10. CASE Finish
  BY <1>10, FinishKeeps
<1>11. CASE \E delay \in RetryDelays : Fail(delay)
  BY <1>11, FailKeeps, AggregationAssumption
<1>12. CASE Sample
  <2>1. \A i \in samples' : i \in Intervals /\ Complete(i)
    BY <1>12 DEF Sample, Newest, AggregationInvariant, OnlyComplete
  <2>2. QED BY <1>1, <1>12, <2>1, OtherStepKeeps DEF Sample, sourceVars, workerVars, histories
<1>13. CASE \E i \in samples : PassOver(i)
  BY <1>1, <1>13, OtherStepKeeps DEF PassOver, sourceVars, workerVars, histories
<1>14. CASE \E i \in samples, revised \in BOOLEAN :
              \E S \in SUBSET MinutesOf(i) : Repair(i, S, revised)
  BY <1>14, RepairKeeps
<1>15. CASE Tick
  BY <1>1, <1>15, OtherStepKeeps DEF Tick, sourceVars, workerVars, histories
<1>16. CASE Restart
  <2>1. /\ source' = source /\ confirmed' = confirmed /\ delivered' = delivered /\ now' = now
        /\ aggregate' = aggregate /\ jobs' = jobs /\ worker' = "start" /\ batch' = {}
        /\ samples' = {} /\ sync'.to = NoCheckpoint /\ silent' = silent
    BY <1>16 DEF Restart, SyncDue, histories
  <2>2. Typed'
    BY <1>1, <2>1 DEF AggregationInvariant, Typed
  <2>3. CheckpointCovered' /\ NothingBeyond' /\ OnlyComplete' /\ AggregateOrJob'
    BY <2>1 DEF AggregationInvariant, CheckpointCovered, NothingBeyond, OnlyComplete,
                Complete, AggregateOrJob, Aggregate, MinutesOf, Stored
  <2>4. BatchHasRows' /\ LoadedFresh'
    BY <2>1 DEF BatchHasRows, LoadedFresh
  <2>5. QED BY <2>2, <2>3, <2>4 DEF AggregationInvariant
<1>17. CASE UNCHANGED vars
  BY <1>1, <1>17, OtherStepKeeps DEF vars, sourceVars, workerVars, histories
<1>18. QED
  BY <1>2, <1>3, <1>4, <1>5, <1>6, <1>7, <1>8, <1>9, <1>10, <1>11, <1>12, <1>13, <1>14, <1>15,
     <1>16, <1>17 DEF Next, Writer, Aggregator, Reconciler

-----------------------------------------------------------------------------
(* The invariant holds in every reachable state, with every interleaving   *)
(* of the live task, the aggregation service and the reconciliation.       *)
THEOREM AggregationInvariantHolds == Spec => []AggregationInvariant
<1>1. Init => AggregationInvariant
  BY InitEstablishes
<1>2. AggregationInvariant /\ [Next]_vars => AggregationInvariant'
  BY AggregationStep
<1>3. QED BY <1>1, <1>2, PTL DEF Spec

(* Whenever an aggregate does not agree with its minutes there is a job    *)
(* for it: finish_job gives up a job that was requeued after it was        *)
(* claimed, and a write of a minute requeues it. The only way out of this  *)
(* is a live candle that replaces a stored one inside its interval.        *)
THEOREM AggregatesAgree == Spec => []AggregateOrJob
<1>1. AggregationInvariant => AggregateOrJob
  BY DEF AggregationInvariant
<1>2. QED BY <1>1, AggregationInvariantHolds, PTL

(* No minute up to the checkpoint is missing, so the backfill may resume   *)
(* from it after any failure or restart.                                   *)
THEOREM CheckpointIsCovered == Spec => []CheckpointCovered
<1>1. AggregationInvariant => CheckpointCovered
  BY DEF AggregationInvariant
<1>2. QED BY <1>1, AggregationInvariantHolds, PTL
=============================================================================
