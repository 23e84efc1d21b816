---------------------------- MODULE Publication -----------------------------
(***************************************************************************)
(* From stored candles to published signals: the analysis cycle of         *)
(* StrategyAnalysisService, the transaction of save_analysis and           *)
(* publish_candidates, and the rules of evaluate_publication.              *)
(*                                                                         *)
(* One tick of the clock is a 5m candle.  The deployment runs one analyst; *)
(* the unique signature and the advisory lock are there for more, as when  *)
(* a new worker starts before the old one has gone, so there is a set of   *)
(* them.  A candidate is its direction: scores and plans are payload, and  *)
(* which the evaluator accepts is none or any set of Outcomes.  No rule    *)
(* looks at a suppressed signal, so signals are the published ones.        *)
(***************************************************************************)
EXTENDS Integers, FiniteSets, FiniteSetsExt

CONSTANTS
  Symbols, Btc,                        \* Btc is the symbol of the circuit breaker
  Outcomes,                            \* sets of directions that may be accepted together
  Analysts,                            \* strategy services at work at one time
  Lifetime,                            \* signal_lifetime_minutes
  Cooldown, MaxActive, MaxPerHour,     \* SignalPolicyConfig
  BurstWindow, MaxBurst, PauseOnAbnormal,
  Hour,                                \* one hour, in ticks
  Wild,                                \* ticks at which an abnormal candle of Btc closes
  BreakerPause,                        \* the pause the requirements speak of
  MaxTime, MaxCycles                   \* bounds: the clock, analysis cycles

Directions == {"long", "short"}
Nobody == "nobody"

ASSUME PublicationAssumption ==
  /\ Nobody \notin Analysts
  /\ Btc \in Symbols /\ Outcomes \subseteq (SUBSET Directions) \ {{}}
  /\ {Cooldown} \subseteq Nat /\ PauseOnAbnormal \in BOOLEAN
  /\ {Lifetime, MaxActive, MaxPerHour, BurstWindow, MaxBurst, Hour} \subseteq Nat \ {0}
  /\ {BreakerPause, MaxTime, MaxCycles} \subseteq Nat /\ Wild \subseteq Nat

VARIABLES
  now,        \* the clock
  stored,     \* per symbol, close time of the newest stored candle
  snapshots,  \* committed analysis_snapshots: <<symbol, cutoff>>
  signals,    \* committed rows of signals that were published
  holder,     \* the analyst that has the advisory lock
  cycles,     \* how many analysis cycles have begun
  work        \* per analyst, what its cycle is at

vars == <<now, stored, snapshots, signals, holder, cycles, work>>

Ticks == 0..MaxTime
Inputs == Symbols \X Ticks
NoInput == <<>>

Signal == [symbol : Symbols, cutoff : Ticks, direction : Directions,
           status : {"tracked", "closed"}, created : Ticks]

\* phase: "cycle" between two symbols (idle once todo is empty), "waiting" for
\* the lock with the snapshot flushed, "deciding" with the lock and the rows.
Work == [phase : {"cycle", "waiting", "deciding"}, todo : SUBSET Inputs,
         abnormal : BOOLEAN, input : Inputs \cup {NoInput},
         accepted : SUBSET Directions, time : Ticks, seen : SUBSET Signal]

(* The rows and the loops have their types.                                *)
TypeOK ==
  /\ now \in Ticks /\ stored \in [Symbols -> Ticks]
  /\ snapshots \subseteq Inputs /\ signals \subseteq Signal
  /\ holder \in Analysts \cup {Nobody} /\ cycles \in 0..MaxCycles
  /\ work \in [Analysts -> Work]
  /\ \A a \in Analysts :
       /\ work[a].phase = "cycle" <=> work[a].input = NoInput
       /\ work[a].phase = "deciding" <=> holder = a

-----------------------------------------------------------------------------
(* The rules of evaluate_publication *)

Tracked(rows) == {r \in rows : r.status = "tracked"}
Since(rows, time) == {r \in rows : r.created > time}
OfSymbol(rows, s) == {r \in rows : r.symbol = s}

Expired(cutoff, time) == cutoff + Lifetime <= time

\* A faulty variant: a signal that has closed no longer cools its symbol down.
CoolingWhileTracked(s, rows, time) ==
  Since(OfSymbol(Tracked(rows), s), time - Cooldown) # {}

Cooling(s, rows, time) == Since(OfSymbol(rows, s), time - Cooldown) # {}

Publishable(input, abnormal, rows, time) ==
  /\ ~Expired(input[2], time)
  /\ ~(PauseOnAbnormal /\ abnormal)
  /\ OfSymbol(Tracked(rows), input[1]) = {}
  /\ ~Cooling(input[1], rows, time)
  /\ Cardinality(Tracked(rows)) < MaxActive
  /\ Cardinality(Since(rows, time - Hour)) < MaxPerHour
  /\ Cardinality(Since(rows, time - BurstWindow)) < MaxBurst

\* The rows publish_candidates reads under the lock.
Earliest(time) == time - Max({Hour, Cooldown, BurstWindow})
Observed(time) == Tracked(signals) \cup Since(signals, Earliest(time))

Decided(w, d, rows) ==
  IF d \in w.accepted /\ Publishable(w.input, w.abnormal, rows, w.time)
  THEN {[symbol |-> w.input[1], cutoff |-> w.input[2], direction |-> d,
         status |-> "tracked", created |-> w.time]}
  ELSE {}

\* What the loop of publish_candidates adds: long, then short, which sees it.
NewRows(w) ==
  LET long == Decided(w, "long", w.seen)
  IN  long \cup Decided(w, "short", w.seen \cup long)

-----------------------------------------------------------------------------
(* Time and candles *)

Tick ==
  /\ now < MaxTime /\ now' = now + 1
  /\ UNCHANGED <<stored, snapshots, signals, holder, cycles, work>>

\* Ingestion or a backfill stores what is missing of a symbol.
StoreCandles(s) ==
  /\ stored[s] < now /\ stored' = [stored EXCEPT ![s] = now]
  /\ UNCHANGED <<now, snapshots, signals, holder, cycles, work>>

\* A tracked signal comes to its end, by trades, candles or expiration.
Close(r) ==
  /\ r.status = "tracked"
  /\ signals' = (signals \ {r}) \cup {[r EXCEPT !.status = "closed"]}
  /\ UNCHANGED <<now, stored, snapshots, holder, cycles, work>>

-----------------------------------------------------------------------------
(* The analysis cycle *)

Idle == [phase |-> "cycle", todo |-> {}, abnormal |-> FALSE, input |-> NoInput,
         accepted |-> {}, time |-> 0, seen |-> {}]

\* The cycle of w without input i, between two symbols.
After(w, i) ==
  LET rest == w.todo \ {i}
  IN  [Idle EXCEPT !.todo = rest, !.abnormal = rest # {} /\ w.abnormal]

Leave(a, i) == work' = [work EXCEPT ![a] = After(work[a], i)]

\* analyze_once loads the candles of every profile.  Whether Btc moves
\* abnormally is read off its newest stored candle, for the whole cycle.
BeginCycle(a) ==
  /\ work[a] = Idle
  /\ cycles < MaxCycles /\ cycles' = cycles + 1
  /\ work' = [work EXCEPT ![a].todo = {<<s, stored[s]>> : s \in Symbols},
                          ![a].abnormal = stored[Btc] \in Wild]
  /\ UNCHANGED <<now, stored, snapshots, signals, holder>>

\* A symbol without enough history or a ticker, or whose analysis raises.
Skip(a, i) ==
  /\ work[a].phase = "cycle" /\ i \in work[a].todo
  /\ Leave(a, i)
  /\ UNCHANGED <<now, stored, snapshots, signals, holder, cycles>>

\* A faulty variant: the signature covers what the ticker says at the moment.
SignatureWithTicker(i) == <<i[1], i[2], now>>

Signature(i) == i

\* An insert of the same signature waits for the transaction that holds it.
Held(a, i) == \E b \in Analysts \ {a} : work[b].input = i

\* save_analysis finds the signature and commits nothing.
Duplicate(a, i) ==
  /\ work[a].phase = "cycle" /\ i \in work[a].todo
  /\ Signature(i) \in snapshots
  /\ Leave(a, i)
  /\ UNCHANGED <<now, stored, snapshots, signals, holder, cycles>>

\* No candidate is accepted: publish_candidates returns at once and the
\* snapshot is committed.
SaveWithout(a, i) ==
  /\ work[a].phase = "cycle" /\ i \in work[a].todo
  /\ Signature(i) \notin snapshots /\ ~Held(a, i)
  /\ snapshots' = snapshots \cup {Signature(i)}
  /\ Leave(a, i)
  /\ UNCHANGED <<now, stored, signals, holder, cycles>>

\* The snapshot is flushed, not committed, and the publication time is taken
\* before the advisory lock is asked for.
Save(a, i) ==
  /\ work[a].phase = "cycle" /\ i \in work[a].todo
  /\ Signature(i) \notin snapshots /\ ~Held(a, i)
  /\ \E accepted \in Outcomes :
       work' = [work EXCEPT ![a].phase = "waiting", ![a].input = i,
                            ![a].accepted = accepted, ![a].time = now]
  /\ UNCHANGED <<now, stored, snapshots, signals, holder, cycles>>

\* A faulty variant: the rows are read without the lock.
AnyoneMayLock(a) == TRUE

MayLock(a) == holder = Nobody

\* pg_advisory_xact_lock is granted, and the rows are read.
Lock(a) ==
  /\ work[a].phase = "waiting" /\ MayLock(a)
  /\ holder' = a
  /\ work' = [work EXCEPT ![a].phase = "deciding", ![a].seen = Observed(work[a].time)]
  /\ UNCHANGED <<now, stored, snapshots, signals, cycles>>

\* The partial unique index uq_signals_one_active_per_symbol.
IndexHolds(rows) ==
  \A r1, r2 \in Tracked(rows) : r1.symbol = r2.symbol => r1 = r2

\* The rows are decided and inserted; the commit releases the lock.
Publish(a) ==
  LET w == work[a] IN
  /\ w.phase = "deciding"
  /\ signals' = signals \cup NewRows(w) /\ IndexHolds(signals')
  /\ snapshots' = snapshots \cup {Signature(w.input)}
  /\ holder' = Nobody
  /\ Leave(a, w.input)
  /\ UNCHANGED <<now, stored, cycles>>

Released(a) == IF holder = a THEN Nobody ELSE holder

\* The transaction fails and is rolled back; analyze_once goes on.
Fail(a) ==
  /\ work[a].phase # "cycle"
  /\ holder' = Released(a)
  /\ Leave(a, work[a].input)
  /\ UNCHANGED <<now, stored, snapshots, signals, cycles>>

\* The process ends, and what it had not committed with it.
Restart(a) ==
  /\ work[a] # Idle
  /\ holder' = Released(a)
  /\ work' = [work EXCEPT ![a] = Idle]
  /\ UNCHANGED <<now, stored, snapshots, signals, cycles>>

-----------------------------------------------------------------------------
Init ==
  /\ now = 0 /\ stored = [s \in Symbols |-> 0]
  /\ snapshots = {} /\ signals = {} /\ holder = Nobody /\ cycles = 0
  /\ work = [a \in Analysts |-> Idle]

Analyse(a) ==
  \/ BeginCycle(a) \/ Lock(a) \/ Publish(a) \/ Fail(a) \/ Restart(a)
  \/ \E i \in work[a].todo :
       Skip(a, i) \/ Duplicate(a, i) \/ SaveWithout(a, i) \/ Save(a, i)

Next ==
  \/ Tick
  \/ \E s \in Symbols : StoreCandles(s)
  \/ \E r \in signals : Close(r)
  \/ \E a \in Analysts : Analyse(a)

Spec == Init /\ [][Next]_vars

-----------------------------------------------------------------------------
(* What is promised *)

Window(first, length) == {r \in signals : r.created \in first..(first + length - 1)}

(* The limits of the portfolio hold in every window, wherever it begins,   *)
(* although the time of a signal is older than the lock it is decided      *)
(* under (publish_candidates, evaluate_publication).                       *)
PortfolioLimits ==
  /\ Cardinality(Tracked(signals)) <= MaxActive
  /\ \A t \in Ticks : /\ Cardinality(Window(t, Hour)) <= MaxPerHour
                      /\ Cardinality(Window(t, BurstWindow)) <= MaxBurst

(* Two published signals of a symbol are a cooldown apart, whichever was   *)
(* decided first and whatever became of it (evaluate_publication).         *)
CooldownKept ==
  \A r1, r2 \in signals :
    r1.symbol = r2.symbol /\ r1 # r2 =>
      r1.created + Cooldown <= r2.created \/ r2.created + Cooldown <= r1.created

(* An analysis publishes once, however often its candles are analysed, by  *)
(* the next cycle, after a restart or by another analyst (save_analysis).  *)
OncePerAnalysis ==
  \A r1, r2 \in signals :
    r1.symbol = r2.symbol /\ r1.cutoff = r2.cutoff => r1 = r2

(* requirements.md: after an abnormal candle of Btc the global circuit     *)
(* breaker pauses new signals for 30 minutes; here, once that candle is    *)
(* stored (evaluate_publication).                                          *)
BreakerPauses ==
  [][\A r \in Tracked(signals') \ signals :
       ~\E w \in Wild : w <= stored[Btc] /\ now < w + BreakerPause]_vars
=============================================================================
