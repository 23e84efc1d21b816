--------------------------- MODULE UniverseRefresh ---------------------------
(***************************************************************************)
(* UniverseRefreshService.refresh (services/universe_refresh.py) in every  *)
(* worker that runs, with the advisory lock, the two transactions and the  *)
(* unique index of db/repositories/universe.py and instruments.py, and     *)
(* what the live task of a worker does about it (market_data/live.py).     *)
(*                                                                         *)
(* Workers overlap when one is replaced by another. A worker may end at    *)
(* any time, and the connection that holds its lock may be lost while it   *)
(* goes on.                                                                *)
(***************************************************************************)
EXTENDS UniversePolicy

CONSTANTS
  Workers, NoWorker,
  Said,                   \* what the providers may answer: [name -> Answer(...)]
  MaxAnswers, MaxFaults   \* bounds of the model

ASSUME RefreshAssumption == NoWorker \notin Workers /\ {MaxAnswers, MaxFaults} \subseteq Nat
ASSUME SaidAssumption == \A name \in DOMAIN Said : WellFormed(Said[name])

VARIABLES
  instruments,  \* [symbol -> is_active] of the rows there are
  snapshots,    \* universe_snapshots in the order of their ids
  lock,         \* the holder of the advisory lock, or NoWorker
  pc,           \* what each worker comes to next
  streaming,    \* symbols the live task of each worker streams, {} when it has not begun
  fetched,      \* the answer each worker works on, by its number
  seen,         \* active snapshots the UPDATE of each worker found
  answers,      \* the answers so far, by name
  written,      \* history: answer the instrument rows are from
  overlapping,  \* history: a lock was lost
  faults

rows == <<instruments, snapshots>>
work == <<pc, streaming, fetched, seen>>
history == <<answers, written, overlapping>>
vars == <<rows, lock, work, history, faults>>

(* What is selected after each answer and what is listed in it.            *)
Selection == {<<name, Selected(Evaluate(Said[name]))>> : name \in DOMAIN Said}
Listing == {<<name, Symbols(Said[name].instruments)>> : name \in DOMAIN Said}

ActiveIds == {k \in DOMAIN snapshots : snapshots[k].active}
ActiveSelection == UNION {snapshots[k].selected : k \in ActiveIds}

Go(w, step) == pc' = [pc EXCEPT ![w] = step]

-----------------------------------------------------------------------------
(* refresh_lock: pg_try_advisory_lock. A worker that does not get it goes  *)
(* on without a refresh.                                                   *)
(* Faulty variant: the answer of the database is not looked at. *)
MayLockAlways(w) == TRUE
MayLock(w) == lock = NoWorker

TryLock(w) ==
  /\ pc[w] = "due"
  /\ IF MayLock(w) THEN lock' = w /\ Go(w, "fetch")
     ELSE Go(w, "follow") /\ UNCHANGED lock
  /\ UNCHANGED <<rows, streaming, fetched, seen, history, faults>>

(* gather of the three requests.                                           *)
Fetch(w, answer) ==
  /\ pc[w] = "fetch" /\ Len(answers) < MaxAnswers
  /\ answers' = Append(answers, answer)
  /\ fetched' = [fetched EXCEPT ![w] = Len(answers) + 1]
  /\ Go(w, "replace")
  /\ UNCHANGED <<rows, lock, streaming, seen, written, overlapping, faults>>

(* Faulty variant: an early return that forgets the lock. *)
StepAfterFailureLocked == "follow"
StepAfterFailure == "unlock"

ProvidersFail(w) ==
  /\ pc[w] = "fetch"
  /\ Go(w, StepAfterFailure)
  /\ UNCHANGED <<rows, lock, streaming, fetched, seen, history, faults>>

(* replace_active_set, a transaction of its own.                           *)
ReplaceInstruments(w) ==
  /\ pc[w] = "replace"
  /\ \E listed \in {l[2] : l \in {t \in Listing : t[1] = answers[fetched[w]]}} :
       instruments' = [s \in DOMAIN instruments \cup listed |-> s \in listed]
  /\ written' = fetched[w]
  /\ Go(w, "supersede")
  /\ UNCHANGED <<snapshots, lock, streaming, fetched, seen, answers, overlapping, faults>>

(* save_snapshot: the UPDATE finds the active snapshot there is ...        *)
Supersede(w) ==
  /\ pc[w] = "supersede"
  /\ seen' = [seen EXCEPT ![w] = ActiveIds]
  /\ Go(w, "save")
  /\ UNCHANGED <<rows, lock, streaming, fetched, history, faults>>

(* ... and the INSERT fails if another was committed since: the index on   *)
(* is_active allows a single one. Then nothing of it is committed, and the *)
(* exception ends the worker once the lock is released.                    *)
(* Faulty variant: no unique index. *)
IndexAllowsAnother(w) == TRUE
IndexAllows(w) == ActiveIds \subseteq seen[w]

Save(w) ==
  /\ pc[w] = "save"
  /\ IF IndexAllows(w)
     THEN /\ \E selected \in {s[2] : s \in {t \in Selection : t[1] = answers[fetched[w]]}} :
               snapshots' =
                 Append([k \in DOMAIN snapshots |->
                           IF k \in seen[w] THEN [snapshots[k] EXCEPT !.active = FALSE]
                           ELSE snapshots[k]],
                        [answer |-> fetched[w], active |-> TRUE, selected |-> selected])
          /\ Go(w, "unlock")
     ELSE Go(w, "fail") /\ UNCHANGED snapshots
  /\ UNCHANGED <<instruments, lock, streaming, fetched, seen, history, faults>>

(* pg_advisory_unlock on the connection that took the lock; when that is   *)
(* lost it raises.                                                         *)
Unlock(w) ==
  /\ pc[w] \in {"unlock", "fail"}
  /\ lock' = IF lock = w THEN NoWorker ELSE lock
  /\ Go(w, IF lock = w /\ pc[w] = "unlock" THEN "follow" ELSE "off")
  /\ streaming' = IF lock = w /\ pc[w] = "unlock" THEN streaming
                  ELSE [streaming EXCEPT ![w] = {}]
  /\ UNCHANGED <<rows, fetched, seen, history, faults>>

(* run and _replace_symbols_if_changed: without any universe a worker does *)
(* not start, and one that runs keeps the symbols it has.                  *)
Follow(w) ==
  /\ pc[w] = "follow"
  /\ streaming' = [streaming EXCEPT ![w] = IF ActiveSelection = {} THEN @ ELSE ActiveSelection]
  /\ Go(w, IF streaming'[w] = {} THEN "off" ELSE "running")
  /\ UNCHANGED <<rows, lock, fetched, seen, history, faults>>

(* The interval between two refreshes is over.                             *)
RefreshDue(w) ==
  /\ pc[w] = "running" /\ Len(answers) < MaxAnswers
  /\ Go(w, "due")
  /\ UNCHANGED <<rows, lock, streaming, fetched, seen, history, faults>>

-----------------------------------------------------------------------------
Start(w) ==
  /\ pc[w] = "off"
  /\ Len(answers) < MaxAnswers
  /\ Go(w, "due")
  /\ UNCHANGED <<rows, lock, streaming, fetched, seen, history, faults>>

(* The database ends the session of a worker that is gone, with its lock   *)
(* and the transaction that was open.                                      *)
Crash(w) ==
  /\ pc[w] # "off" /\ faults < MaxFaults
  /\ faults' = faults + 1
  /\ lock' = IF lock = w THEN NoWorker ELSE lock
  /\ streaming' = [streaming EXCEPT ![w] = {}]
  /\ Go(w, "off")
  /\ UNCHANGED <<rows, fetched, seen, history>>

LoseLock(w) ==
  /\ lock = w /\ faults < MaxFaults
  /\ faults' = faults + 1
  /\ lock' = NoWorker /\ overlapping' = TRUE
  /\ UNCHANGED <<rows, work, answers, written>>

Init ==
  /\ instruments = <<>> /\ snapshots = <<>> /\ answers = <<>>
  /\ lock = NoWorker /\ written = 0 /\ overlapping = FALSE /\ faults = 0
  /\ pc = [w \in Workers |-> "off"]
  /\ streaming = [w \in Workers |-> {}]
  /\ fetched = [w \in Workers |-> 0]
  /\ seen = [w \in Workers |-> {}]

Refreshing(w) ==
  TryLock(w) \/ (\E a \in DOMAIN Said : Fetch(w, a)) \/ ProvidersFail(w) \/ ReplaceInstruments(w)
  \/ Supersede(w) \/ Save(w) \/ Unlock(w) \/ Follow(w)

Next == \E w \in Workers : Refreshing(w) \/ RefreshDue(w) \/ Start(w) \/ Crash(w) \/ LoseLock(w)

(* Every statement and request is answered or fails in the end.            *)
Spec == Init /\ [][Next]_vars /\ \A w \in Workers : WF_vars(Refreshing(w))

-----------------------------------------------------------------------------
(* Once there is a universe there is always exactly one, whatever fails    *)
(* and however refreshes overlap: the UPDATE, the unique index and the     *)
(* transaction of save_snapshot do not need the lock for it.               *)
OneUniverse ==
  /\ Cardinality(ActiveIds) <= 1
  /\ snapshots # <<>> => ActiveIds # {}

(* While no lock is lost the universe and the instrument rows only move on *)
(* to newer answers, the rows first, and every contract of a snapshot has  *)
(* its row (the foreign key of universe_members).                          *)
AnswersMoveOn ==
  /\ \A j, k \in DOMAIN snapshots : j < k => snapshots[j].answer < snapshots[k].answer
  /\ \A k \in DOMAIN snapshots : snapshots[k].answer <= written

MembersHaveRows == \A k \in DOMAIN snapshots : snapshots[k].selected \subseteq DOMAIN instruments

NothingGoesBack == ~overlapping => AnswersMoveOn /\ MembersHaveRows

(* What is selected are the first Size contracts that eligible assets have *)
(* in order of their rank, each once, and the limit counts contracts that  *)
(* pass every filter, not assets (docs/architecture.md, section 4.1;       *)
(* UniversePolicy.evaluate).                                               *)
Expected == {<<name, FirstEligible(Said[name])>> : name \in DOMAIN Said}

SelectionFollowsRank ==
  \A k \in DOMAIN snapshots :
    <<answers[snapshots[k].answer], snapshots[k].selected>> \in Expected

(* No refresh keeps the lock (the finally of refresh_lock), so refreshes   *)
(* cannot stop for good.                                                   *)
LockIsReleased == \A w \in Workers : (lock = w) ~> (lock # w)

(* docs/tasks.md, M1: provider failure leaves the last valid universe      *)
(* active. An answer that lists nothing is not taken for a failure.        *)
ValidUniverseStays ==
  [][ActiveSelection # {} => ActiveSelection' # {}]_vars
=============================================================================
