--------------------------- MODULE TelegramOutbox ---------------------------
(***************************************************************************)
(* Delivery of the notification outbox to Telegram users: the rows of      *)
(* notification_outbox, notification_deliveries and telegram_user_settings *)
(* (db/repositories/notifications.py), and the process that expands,       *)
(* claims and sends them (telegram/outbox.py, telegram/transport.py), next *)
(* to users who change their settings and a clock. The process may die     *)
(* between any two transactions, in particular between a message and the   *)
(* row that says it was sent. One process delivers (telegram/__main__.py). *)
(***************************************************************************)
EXTENDS Integers, FiniteSets

CONSTANTS
  Users,         \* telegram_allowed_user_ids, all configured
  Notes,         \* ids of notification_outbox rows
  NewSignals,    \* those of event type new_signal
  ScoreOf,       \* score in the payload of a note
  MaxAttempts, BatchSize, RetryBase, StaleAfter,   \* settings
  RetryAfters,   \* delays Telegram may ask for
  DayTicks,      \* ticks of the clock in a day
  Schedules,     \* <<start, end>> of notification windows
  Thresholds,    \* minimum scores
  MaxTime, MaxCrashes, MaxChanges   \* bounds of the model

ASSUME OutboxAssumption ==
  /\ Notes \subseteq Nat /\ IsFiniteSet(Notes) /\ NewSignals \subseteq Notes
  /\ ScoreOf \in [Notes -> Nat] /\ Thresholds \subseteq Nat
  /\ {MaxAttempts, BatchSize, RetryBase, StaleAfter, DayTicks} \subseteq Nat \ {0}
  /\ RetryAfters \subseteq Nat
  /\ Schedules \subseteq (0..DayTicks) \X (0..DayTicks)
  /\ {MaxTime, MaxCrashes, MaxChanges} \subseteq Nat

Deliveries == Notes \X Users

VARIABLES
  note,          \* status of an outbox row: absent, pending or expanded
  status,        \* status of a delivery row, "absent" when there is none
  attempts, nextAttempt, updatedAt,   \* its other columns
  paused, minimumScore, schedule,     \* telegram_user_settings
  phase,         \* what run() does next
  editing,       \* users whose settings row an open command has locked
  seenPaused,    \* paused users as the open claim transaction saw them
  claimed,       \* the delivery being sent, or NoDelivery
  result,        \* how the send ended: a status, or the delay of a retry
  accepted,      \* history: messages of a delivery that Telegram has accepted
  sincePause,    \* history: messages a user was sent since the last /pause
  commands,      \* history: commands a user has had since then
  overlooked,    \* history: deliveries in sending that the last start left alone
  clock, crashes, changes

rows == <<note, status, attempts, nextAttempt, updatedAt>>
settings == <<paused, minimumScore, schedule>>
process == <<phase, seenPaused, claimed, result>>
pauses == <<sincePause, commands>>
bounds == <<clock, crashes, changes>>
vars == <<rows, settings, editing, process, accepted, pauses, overlooked, bounds>>

NoDelivery == <<>>
NoResult == [status |-> "none", delay |-> 0]
Outcome(s) == [status |-> s, delay |-> 0]

Init ==
  /\ note = [n \in Notes |-> "absent"]
  /\ status = [d \in Deliveries |-> "absent"]
  /\ attempts = [d \in Deliveries |-> 0]
  /\ nextAttempt = [d \in Deliveries |-> 0]
  /\ updatedAt = [d \in Deliveries |-> 0]
  /\ paused \in [Users -> {FALSE}]
  /\ minimumScore \in [Users -> Thresholds]
  /\ schedule \in [Users -> Schedules]
  /\ editing = {}
  /\ phase = "boot" /\ seenPaused = {} /\ claimed = NoDelivery /\ result = NoResult
  /\ accepted = [d \in Deliveries |-> 0] /\ overlooked = {}
  /\ sincePause = [u \in Users |-> 0] /\ commands = [u \in Users |-> 0]
  /\ clock = 0 /\ crashes = 0 /\ changes = 0

-----------------------------------------------------------------------------
(* notification_window_is_open; the window may span midnight. *)
WindowOpen(window, now) ==
  LET start == window[1]
      end   == window[2]
      time  == now % DayTicks
  IN  IF start <= end THEN start = end \/ (start <= time /\ time < end)
      ELSE start <= time \/ time < end

(* delivery_policy: the status a delivery row is created with. *)
Policy(n, u, now) ==
  IF paused[u] THEN "skipped"
  ELSE IF n \notin NewSignals THEN "pending"
  ELSE IF ScoreOf[n] < minimumScore[u] \/ ~WindowOpen(schedule[u], now) THEN "skipped"
  ELSE "pending"

(* Another component commits an outbox row. *)
Enqueue(n) ==
  /\ note[n] = "absent"
  /\ \A m \in Notes : m < n => note[m] # "absent"
  /\ note' = [note EXCEPT ![n] = "pending"]
  /\ UNCHANGED <<status, attempts, nextAttempt, updatedAt, settings, editing, process, accepted,
                 pauses, overlooked, bounds>>

Tick ==
  /\ clock < MaxTime
  /\ clock' = clock + 1
  /\ UNCHANGED <<rows, settings, editing, process, accepted, pauses, overlooked, crashes, changes>>

(* update_user holds the row of the user from its select to its commit. It *)
(* waits for another command of the user, and for a claim that has locked  *)
(* the row by sweeping a pending delivery of the user.                     *)
BeginCommand(u) ==
  /\ changes < MaxChanges
  /\ u \notin editing
  /\ ~(phase = "claim" /\ u \in seenPaused /\ \E n \in Notes : status[<<n, u>>] = "pending")
  /\ changes' = changes + 1
  /\ editing' = editing \cup {u}
  /\ UNCHANGED <<rows, settings, process, accepted, pauses, overlooked, clock, crashes>>

(* Its commit: /pause and /resume change paused, others the score or the   *)
(* window, and those that change neither are like one that sets the score  *)
(* it finds.                                                               *)
CommitCommand(u) ==
  /\ u \in editing
  /\ editing' = editing \ {u}
  /\ \/ /\ paused' = [paused EXCEPT ![u] = ~@]
        /\ sincePause' = [sincePause EXCEPT ![u] = 0]
        /\ commands' = [commands EXCEPT ![u] = 0]
        /\ UNCHANGED <<minimumScore, schedule>>
     \/ /\ \/ /\ \E score \in Thresholds : minimumScore' = [minimumScore EXCEPT ![u] = score]
              /\ UNCHANGED schedule
           \/ /\ \E window \in Schedules : schedule' = [schedule EXCEPT ![u] = window]
              /\ UNCHANGED minimumScore
        /\ commands' = [commands EXCEPT ![u] = IF paused[u] THEN @ + 1 ELSE @]
        /\ UNCHANGED <<paused, sincePause>>
  /\ UNCHANGED <<rows, process, accepted, overlooked, bounds>>

-----------------------------------------------------------------------------
(* run() starts with recover_stale_sending: what was being sent and has    *)
(* not changed for a while ends as delivery_unknown.                       *)
Stale(d) == status[d] = "sending" /\ updatedAt[d] < clock - StaleAfter

Recover ==
  /\ phase = "boot"
  /\ phase' = "expand"
  /\ status' = [d \in Deliveries |-> IF Stale(d) THEN "delivery_unknown" ELSE status[d]]
  /\ updatedAt' = [d \in Deliveries |-> IF Stale(d) THEN clock ELSE updatedAt[d]]
  /\ overlooked' = {d \in Deliveries : status[d] = "sending" /\ ~Stale(d)}
  /\ UNCHANGED <<note, attempts, nextAttempt, settings, editing, seenPaused, claimed, result,
                 accepted, pauses, bounds>>

(* materialize_pending: the oldest pending outbox rows become deliveries,  *)
(* one per user; a delivery that exists is left alone.                     *)
Batch ==
  LET pending == {n \in Notes : note[n] = "pending"}
  IN  {n \in pending : Cardinality({m \in pending : m <= n}) <= BatchSize}

(* The rows inserted for the batch. *)
Created == {d \in Deliveries : d[1] \in Batch /\ status[d] = "absent"}

Materialize ==
  /\ phase = "expand"
  /\ phase' = "sweep"
  /\ note' = [n \in Notes |-> IF n \in Batch THEN "expanded" ELSE note[n]]
  /\ status' = [d \in Deliveries |->
       IF d \in Created THEN Policy(d[1], d[2], clock) ELSE status[d]]
  /\ nextAttempt' = [d \in Deliveries |-> IF d \in Created THEN clock ELSE nextAttempt[d]]
  /\ updatedAt' = [d \in Deliveries |-> IF d \in Created THEN clock ELSE updatedAt[d]]
  /\ UNCHANGED <<attempts, settings, editing, seenPaused, claimed, result, accepted, pauses,
                 overlooked, bounds>>

(* claim_delivery is one transaction of several statements, and a command  *)
(* may be committed between the one that sweeps the deliveries of paused   *)
(* users and the one that picks a delivery. Both skip what is locked: a    *)
(* paused user whose row an open command holds is not seen.                *)
ReadPaused ==
  /\ phase = "sweep"
  /\ phase' = "claim"
  /\ seenPaused' = {u \in Users : paused[u]} \ editing
  /\ UNCHANGED <<rows, settings, editing, claimed, result, accepted, pauses, overlooked, bounds>>

(* Faulty variants: a delivery that is being sent is swept as well; only   *)
(* paused users are swept; only exhausted deliveries are.                  *)
SweptWhileSending(d) ==
  IF status[d] \in {"pending", "sending"} /\ d[2] \in seenPaused THEN "skipped" ELSE status[d]
SweptExhausted(d) ==
  IF status[d] = "pending" /\ attempts[d] >= MaxAttempts THEN "failed" ELSE status[d]

(* What its first two updates do to a pending delivery. *)
Swept(d) ==
  IF status[d] # "pending" THEN status[d]
  ELSE IF d[2] \in seenPaused THEN "skipped"
  ELSE IF attempts[d] >= MaxAttempts THEN "failed"
  ELSE "pending"

(* What the claim may pick: it takes no delivery of a user whose row is    *)
(* locked, and does not look at paused again.                              *)
Due == {d \in Deliveries : /\ Swept(d) = "pending" /\ nextAttempt[d] <= clock
                           /\ d[2] \notin editing}

(* The due delivery with the lowest id: deliveries are created in the      *)
(* order of their notes.                                                   *)
NextDelivery(d) == d \in Due /\ \A e \in Due : d[1] <= e[1]

Claim ==
  /\ phase = "claim"
  /\ seenPaused' = {}
  /\ \/ /\ Due = {}
        /\ phase' = "expand"
        /\ status' = [e \in Deliveries |-> Swept(e)]
        /\ updatedAt' = [e \in Deliveries |-> IF Swept(e) # status[e] THEN clock ELSE updatedAt[e]]
        /\ UNCHANGED <<attempts, claimed>>
     \/ \E d \in Deliveries :
          /\ NextDelivery(d)
          /\ phase' = "send"
          /\ claimed' = d
          /\ status' = [e \in Deliveries |-> IF e = d THEN "sending" ELSE Swept(e)]
          /\ updatedAt' = [e \in Deliveries |->
               IF e = d \/ Swept(e) # status[e] THEN clock ELSE updatedAt[e]]
          /\ attempts' = [attempts EXCEPT ![d] = @ + 1]
  /\ UNCHANGED <<note, nextAttempt, settings, editing, result, accepted, pauses, overlooked, bounds>>

-----------------------------------------------------------------------------
(* AiogramSender.send. Telegram either accepts the message, and the answer *)
(* arrives or is lost on the network; or it does not, and asks to retry    *)
(* later, refuses for good, or is not reached.                             *)
Backoff(n) == RetryBase * 2^(n - 1)

SendAccepted ==
  /\ phase = "send"
  /\ phase' = "mark"
  /\ accepted' = [accepted EXCEPT ![claimed] = @ + 1]
  /\ sincePause' = [sincePause EXCEPT ![claimed[2]] = IF paused[claimed[2]] THEN @ + 1 ELSE @]
  /\ result' \in {Outcome("sent"), Outcome("delivery_unknown")}
  /\ UNCHANGED <<rows, settings, editing, seenPaused, claimed, commands, overlooked, bounds>>

(* Faulty variant: a network error is taken for a refusal to retry. *)
SendErrorRetried ==
  /\ phase = "send"
  /\ phase' = "mark"
  /\ \E accept \in {0, 1} : accepted' = [accepted EXCEPT ![claimed] = @ + accept]
  /\ result' = [status |-> "retry", delay |-> Backoff(attempts[claimed])]
  /\ UNCHANGED <<rows, settings, editing, seenPaused, claimed, pauses, overlooked, bounds>>

SendRejected ==
  /\ phase = "send"
  /\ phase' = "mark"
  /\ result' \in {Outcome("failed"), Outcome("delivery_unknown")}
       \cup {[status |-> "retry",
              delay |-> IF r > Backoff(attempts[claimed]) THEN r ELSE Backoff(attempts[claimed])] :
               r \in RetryAfters}
  /\ UNCHANGED <<rows, settings, editing, seenPaused, claimed, accepted, pauses, overlooked, bounds>>

(* Faulty variant: a retry is put off, and the row stays in sending. *)
MarkOnHold ==
  /\ phase = "mark"
  /\ phase' = "expand"
  /\ claimed' = NoDelivery /\ result' = NoResult
  /\ status' = [status EXCEPT ![claimed] =
                  IF @ # "sending" \/ result.status = "retry" THEN @ ELSE result.status]
  /\ nextAttempt' = [nextAttempt EXCEPT ![claimed] = clock + result.delay]
  /\ updatedAt' = [updatedAt EXCEPT ![claimed] = clock]
  /\ UNCHANGED <<note, attempts, settings, editing, seenPaused, accepted, pauses, overlooked, bounds>>

(* mark_sent, mark_retry and mark_failed change the row only while it is   *)
(* being sent.                                                             *)
Mark ==
  /\ phase = "mark"
  /\ phase' = "expand"
  /\ claimed' = NoDelivery /\ result' = NoResult
  /\ IF status[claimed] # "sending" THEN UNCHANGED <<status, nextAttempt, updatedAt>>
     ELSE /\ status' = [status EXCEPT ![claimed] =
               IF result.status = "retry" THEN "pending" ELSE result.status]
          /\ nextAttempt' = IF result.status # "retry" THEN nextAttempt
                            ELSE [nextAttempt EXCEPT ![claimed] = clock + result.delay]
          /\ updatedAt' = [updatedAt EXCEPT ![claimed] = clock]
  /\ UNCHANGED <<note, attempts, settings, editing, seenPaused, accepted, pauses, overlooked, bounds>>

(* The process dies and is started again. The commands run in it as well:  *)
(* open transactions are lost, of the loop and of commands.                *)
Restart ==
  /\ crashes < MaxCrashes
  /\ crashes' = crashes + 1
  /\ phase' = "boot" /\ seenPaused' = {} /\ claimed' = NoDelivery /\ result' = NoResult
  /\ editing' = {}
  /\ UNCHANGED <<rows, settings, accepted, pauses, overlooked, clock, changes>>

Deliver == Recover \/ Materialize \/ ReadPaused \/ Claim \/ SendAccepted \/ SendRejected \/ Mark

Next ==
  \/ \E n \in Notes : Enqueue(n)
  \/ Tick
  \/ \E u \in Users : BeginCommand(u) \/ CommitCommand(u)
  \/ Deliver
  \/ Restart

Spec == Init /\ [][Next]_vars

(* The process is scheduled, calls to Telegram end (the client has a       *)
(* timeout), a command that has its lock commits, and time passes.         *)
Fairness ==
  /\ WF_vars(Tick) /\ WF_vars(Recover) /\ WF_vars(Materialize) /\ WF_vars(ReadPaused)
  /\ WF_vars(Claim) /\ WF_vars(SendAccepted \/ SendRejected) /\ WF_vars(Mark)
  /\ \A u \in Users : WF_vars(CommitCommand(u))

FairSpec == Spec /\ Fairness

-----------------------------------------------------------------------------
DeliveryStatuses == {"absent", "pending", "sending", "sent", "failed", "skipped",
                     "delivery_unknown"}

TypeOK ==
  /\ note \in [Notes -> {"absent", "pending", "expanded"}]
  /\ status \in [Deliveries -> DeliveryStatuses]
  /\ attempts \in [Deliveries -> Nat]
  /\ nextAttempt \in [Deliveries -> Nat]
  /\ updatedAt \in [Deliveries -> Nat]
  /\ paused \in [Users -> BOOLEAN]
  /\ minimumScore \in [Users -> Thresholds]
  /\ schedule \in [Users -> Schedules]
  /\ phase \in {"boot", "expand", "sweep", "claim", "send", "mark"}
  /\ seenPaused \subseteq Users /\ editing \subseteq Users /\ overlooked \subseteq Deliveries
  /\ claimed \in Deliveries \cup {NoDelivery}
  /\ result \in [status : {"none", "sent", "failed", "delivery_unknown", "retry"}, delay : Nat]
  /\ accepted \in [Deliveries -> Nat]
  /\ sincePause \in [Users -> Nat] /\ commands \in [Users -> Nat]
  /\ clock \in Nat /\ crashes \in 0..MaxCrashes /\ changes \in 0..MaxChanges

(* A user never gets the same message twice, wherever the process dies and *)
(* whatever the network loses (docs/tasks.md: retrying an outbox record    *)
(* never sends the same logical message twice; run_once, transport.py).    *)
AtMostOnce == \A d \in Deliveries : accepted[d] <= 1

(* The row of a delivery tells the truth as far as it is known: sent means *)
(* that Telegram has the message, and pending, skipped or failed mean that *)
(* it does not (mark_sent, mark_retry, mark_failed, recover_stale_sending).*)
RowsTellTheTruth ==
  \A d \in Deliveries :
    /\ status[d] = "sent" => accepted[d] = 1
    /\ status[d] \in {"absent", "pending", "skipped", "failed"} => accepted[d] = 0

(* Expanding an outbox row leaves nobody out: each user has a delivery row *)
(* for every expanded note, and none for any other.                        *)
ExpandedForEveryone ==
  \A d \in Deliveries : note[d[1]] = "expanded" <=> status[d] # "absent"

(* After /pause a user gets at most the one message that was already on    *)
(* its way, and one for each further command: a command that holds the row *)
(* of the user hides the pause from a sweep, and if it commits before the  *)
(* claim picks a delivery, that delivery leaves (claim_delivery,           *)
(* update_user).                                                           *)
PauseIsHeeded == \A u \in Users : sincePause[u] <= 1 + commands[u]

(* requirements.md: new entry signals must only be delivered inside the    *)
(* notification window.                                                    *)
NewSignalsInsideWindow ==
  [][\A d \in Deliveries :
       accepted'[d] # accepted[d] /\ d[1] \in NewSignals
         => WindowOpen(schedule[d[2]], clock)]_vars

Settled(d) == status[d] \in {"sent", "failed", "skipped", "delivery_unknown"}

(* Every enqueued note is settled for every user: sent, given up, skipped  *)
(* or unknown. The exception is a delivery that was being sent when the    *)
(* process died and that the next start has found too fresh to recover: no *)
(* later step of run() looks at it again. (Deliveries whose next attempt   *)
(* lies beyond the bounded clock are left out.)                            *)
Orphaned(d) == status[d] = "sending" /\ d \in overlooked
BeyondTheClock(d) == nextAttempt[d] > MaxTime

EverythingSettles ==
  \A d \in Deliveries :
    note[d[1]] = "pending" ~> Settled(d) \/ Orphaned(d) \/ BeyondTheClock(d)
=============================================================================
