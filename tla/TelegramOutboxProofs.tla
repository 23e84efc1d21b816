------------------------ MODULE TelegramOutboxProofs -------------------------
(***************************************************************************)
(* Proofs about TelegramOutbox, for any number of users and notes, of      *)
(* crashes and of attempts.                                                *)
(***************************************************************************)
EXTENDS TelegramOutbox, TLAPS

(* What the safety properties need to know of the types.                   *)
Typed ==
  /\ status \in [Deliveries -> DeliveryStatuses]
  /\ attempts \in [Deliveries -> Nat]
  /\ accepted \in [Deliveries -> Nat]
  /\ phase \in {"boot", "expand", "sweep", "claim", "send", "mark"}

(* The delivery in the hands of the process is the one marked as sending,  *)
(* and Telegram does not have it before the send; after it the result and  *)
(* the history agree.                                                      *)
HeldIsSending ==
  phase \in {"send", "mark"} => claimed \in Deliveries /\ status[claimed] = "sending"

ResultTellsTheTruth ==
  /\ phase = "send" => accepted[claimed] = 0
  /\ phase = "mark" =>
       /\ result.status \in {"sent", "failed", "delivery_unknown", "retry"}
       /\ result.status = "sent" => accepted[claimed] = 1
       /\ result.status \in {"failed", "retry"} => accepted[claimed] = 0

DeliveryInvariant ==
  Typed /\ HeldIsSending /\ ResultTellsTheTruth /\ RowsTellTheTruth /\ AtMostOnce

LEMMA SweepKeepsSending ==
  ASSUME Typed, NEW d \in Deliveries
  PROVE  /\ Swept(d) \in DeliveryStatuses
         /\ Swept(d) = "pending" => status[d] = "pending"
         /\ Swept(d) = status[d] \/ (status[d] = "pending" /\ Swept(d) \in {"skipped", "failed"})
  BY DEF Typed, Swept, DeliveryStatuses

LEMMA PolicyStatus ==
  ASSUME NEW n, NEW u, NEW now
  PROVE  Policy(n, u, now) \in {"skipped", "pending"}
  BY DEF Policy

LEMMA DeliveryStep ==
  ASSUME DeliveryInvariant, [Next]_vars
  PROVE  DeliveryInvariant'
<1>1. CASE \E n \in Notes : Enqueue(n)
  BY <1>1 DEF Enqueue, settings, process, bounds, DeliveryInvariant, Typed, HeldIsSending,
              ResultTellsTheTruth, RowsTellTheTruth, AtMostOnce
<1>2. CASE Tick
  BY <1>2 DEF Tick, rows, settings, process, DeliveryInvariant, Typed, HeldIsSending,
              ResultTellsTheTruth, RowsTellTheTruth, AtMostOnce
<1>3. CASE \E u \in Users : BeginCommand(u) \/ CommitCommand(u)
  BY <1>3 DEF BeginCommand, CommitCommand, rows, process, DeliveryInvariant, Typed, HeldIsSending,
              ResultTellsTheTruth, RowsTellTheTruth, AtMostOnce
<1>4. CASE Recover
  <2>1. Typed'
    BY <1>4 DEF Recover, DeliveryInvariant, Typed, DeliveryStatuses
  <2>2. RowsTellTheTruth' /\ AtMostOnce'
    BY <1>4 DEF Recover, DeliveryInvariant, Typed, RowsTellTheTruth, AtMostOnce
  <2>3. HeldIsSending' /\ ResultTellsTheTruth'
    BY <1>4 DEF Recover, HeldIsSending, ResultTellsTheTruth
  <2>4. QED BY <2>1, <2>2, <2>3 DEF DeliveryInvariant
<1>5. CASE Materialize
  <2>1. \A d \in Deliveries : Policy(d[1], d[2], clock) \in {"skipped", "pending"}
    BY PolicyStatus
  <2>2. Typed'
    BY <1>5, <2>1 DEF Materialize, DeliveryInvariant, Typed, DeliveryStatuses
  <2>3. RowsTellTheTruth' /\ AtMostOnce'
    BY <1>5, <2>1 DEF Materialize, Created, DeliveryInvariant, Typed, RowsTellTheTruth, AtMostOnce
  <2>4. HeldIsSending' /\ ResultTellsTheTruth'
    BY <1>5 DEF Materialize, HeldIsSending, ResultTellsTheTruth
  <2>5. QED BY <2>2, <2>3, <2>4 DEF DeliveryInvariant
<1>6. CASE ReadPaused
  BY <1>6 DEF ReadPaused, rows, DeliveryInvariant, Typed, HeldIsSending,
              ResultTellsTheTruth, RowsTellTheTruth, AtMostOnce
<1>7. CASE Claim
  <2>1. UNCHANGED accepted
    BY <1>7 DEF Claim
  <2>2. CASE Due = {} /\ phase' = "expand" /\ status' = [e \in Deliveries |-> Swept(e)]
             /\ UNCHANGED attempts
    <3>1. Typed'
      BY <2>1, <2>2, SweepKeepsSending DEF DeliveryInvariant, Typed
    <3>2. RowsTellTheTruth' /\ AtMostOnce'
      BY <2>1, <2>2, SweepKeepsSending DEF DeliveryInvariant, RowsTellTheTruth, AtMostOnce
    <3>3. HeldIsSending' /\ ResultTellsTheTruth'
      BY <2>2 DEF HeldIsSending, ResultTellsTheTruth
    <3>4. QED BY <3>1, <3>2, <3>3 DEF DeliveryInvariant
  <2>3. ASSUME NEW d \in Deliveries, d \in Due, phase' = "send", claimed' = d,
               status' = [e \in Deliveries |-> IF e = d THEN "sending" ELSE Swept(e)],
               attempts' = [attempts EXCEPT ![d] = @ + 1]
        PROVE DeliveryInvariant'
    <3>1. Typed'
      BY <2>1, <2>3, SweepKeepsSending DEF DeliveryInvariant, Typed, DeliveryStatuses
    <3>2. accepted[d] = 0
      BY <2>3, SweepKeepsSending DEF Due, DeliveryInvariant, RowsTellTheTruth
    <3>3. RowsTellTheTruth' /\ AtMostOnce'
      BY <2>1, <2>3, SweepKeepsSending DEF DeliveryInvariant, RowsTellTheTruth, AtMostOnce
    <3>4. HeldIsSending' /\ ResultTellsTheTruth'
      BY <2>1, <2>3, <3>2 DEF HeldIsSending, ResultTellsTheTruth
    <3>5. QED BY <3>1, <3>3, <3>4 DEF DeliveryInvariant
  <2>4. QED BY <1>7, <2>2, <2>3 DEF Claim, NextDelivery
<1>8. CASE SendAccepted
  <2>1. /\ claimed \in Deliveries /\ status[claimed] = "sending" /\ accepted[claimed] = 0
        /\ accepted' = [accepted EXCEPT ![claimed] = 1]
    BY <1>8 DEF SendAccepted, DeliveryInvariant, HeldIsSending, ResultTellsTheTruth, Typed
  <2>2. Typed'
    BY <1>8, <2>1 DEF SendAccepted, rows, DeliveryInvariant, Typed
  <2>3. RowsTellTheTruth' /\ AtMostOnce'
    BY <1>8, <2>1 DEF SendAccepted, rows, DeliveryInvariant, Typed, RowsTellTheTruth, AtMostOnce
  <2>4. HeldIsSending' /\ ResultTellsTheTruth'
    BY <1>8, <2>1 DEF SendAccepted, rows, Outcome, HeldIsSending, ResultTellsTheTruth,
                      DeliveryInvariant, Typed
  <2>5. QED BY <2>2, <2>3, <2>4 DEF DeliveryInvariant
<1>9. CASE SendRejected
  <2>1. claimed \in Deliveries /\ status[claimed] = "sending" /\ accepted[claimed] = 0
    BY <1>9 DEF SendRejected, DeliveryInvariant, HeldIsSending, ResultTellsTheTruth
  <2>2. result'.status \in {"failed", "delivery_unknown", "retry"}
    BY <1>9 DEF SendRejected, Outcome
  <2>3. Typed' /\ RowsTellTheTruth' /\ AtMostOnce'
    BY <1>9 DEF SendRejected, rows, DeliveryInvariant, Typed, RowsTellTheTruth, AtMostOnce
  <2>4. HeldIsSending' /\ ResultTellsTheTruth'
    BY <1>9, <2>1, <2>2 DEF SendRejected, rows, HeldIsSending, ResultTellsTheTruth
  <2>5. QED BY <2>3, <2>4 DEF DeliveryInvariant
<1>10. CASE Mark
  <2>1. claimed \in Deliveries /\ status[claimed] = "sending"
    BY <1>10 DEF Mark, DeliveryInvariant, HeldIsSending
  <2>2. /\ status' = [status EXCEPT ![claimed] =
             IF result.status = "retry" THEN "pending" ELSE result.status]
        /\ UNCHANGED <<attempts, accepted>>
        /\ phase' = "expand"
    BY <1>10, <2>1 DEF Mark
  <2>3. /\ result.status \in {"sent", "failed", "delivery_unknown", "retry"}
        /\ result.status = "sent" => accepted[claimed] = 1
        /\ result.status \in {"failed", "retry"} => accepted[claimed] = 0
    BY <1>10 DEF Mark, DeliveryInvariant, ResultTellsTheTruth
  <2>4. Typed'
    BY <2>1, <2>2, <2>3 DEF DeliveryInvariant, Typed, DeliveryStatuses
  <2>5. RowsTellTheTruth' /\ AtMostOnce'
    BY <2>1, <2>2, <2>3 DEF DeliveryInvariant, Typed, RowsTellTheTruth, AtMostOnce
  <2>6. HeldIsSending' /\ ResultTellsTheTruth'
    BY <2>2 DEF HeldIsSending, ResultTellsTheTruth
  <2>7. QED BY <2>4, <2>5, <2>6 DEF DeliveryInvariant
<1>11. CASE Restart
  BY <1>11 DEF Restart, rows, settings, DeliveryInvariant, Typed, HeldIsSending,
               ResultTellsTheTruth, RowsTellTheTruth, AtMostOnce
<1>12. CASE UNCHANGED vars
  BY <1>12 DEF vars, rows, process, DeliveryInvariant, Typed, HeldIsSending,
               ResultTellsTheTruth, RowsTellTheTruth, AtMostOnce
<1>13. QED
  BY <1>1, <1>2, <1>3, <1>4, <1>5, <1>6, <1>7, <1>8, <1>9, <1>10, <1>11, <1>12 DEF Next, Deliver

THEOREM DeliveryInvariantHolds == Spec => []DeliveryInvariant
<1>1. Init => DeliveryInvariant
  BY DEF Init, DeliveryInvariant, Typed, DeliveryStatuses, HeldIsSending, ResultTellsTheTruth,
         RowsTellTheTruth, AtMostOnce
<1>2. DeliveryInvariant /\ [Next]_vars => DeliveryInvariant'
  BY DeliveryStep
<1>3. QED BY <1>1, <1>2, PTL DEF Spec

(* No user ever gets the same message twice, wherever the process dies and *)
(* whatever the network loses (run_once, AiogramSender.send).              *)
THEOREM OutboxAtMostOnce == Spec => []AtMostOnce
<1>1. DeliveryInvariant => AtMostOnce
  BY DEF DeliveryInvariant
<1>2. QED BY <1>1, DeliveryInvariantHolds, PTL

(* A delivery row never claims a message that Telegram does not have, nor  *)
(* offers to send one that it has (mark_sent, mark_retry, mark_failed).    *)
THEOREM OutboxRowsTellTheTruth == Spec => []RowsTellTheTruth
<1>1. DeliveryInvariant => RowsTellTheTruth
  BY DEF DeliveryInvariant
<1>2. QED BY <1>1, DeliveryInvariantHolds, PTL

-----------------------------------------------------------------------------
NoteTyped == note \in [Notes -> {"absent", "pending", "expanded"}]

(* Expanding an outbox row reaches every user, and only that creates       *)
(* deliveries: none is missing for an expanded note, none exists before    *)
(* (materialize_pending inserts the deliveries and marks the row in one    *)
(* transaction).                                                           *)
THEOREM OutboxExpandedForEveryone == Spec => []ExpandedForEveryone
<1> DEFINE Inv == NoteTyped /\ ExpandedForEveryone
<1>1. Init => Inv
  BY DEF Init, NoteTyped, ExpandedForEveryone, Deliveries
<1>2. Inv /\ DeliveryInvariant /\ [Next]_vars => Inv'
  <2> SUFFICES ASSUME NoteTyped, ExpandedForEveryone, DeliveryInvariant, [Next]_vars PROVE Inv'
    OBVIOUS
  <2> DEFINE Kept == UNCHANGED note /\
                     \A d \in Deliveries : status'[d] = "absent" <=> status[d] = "absent"
  <2>1. Kept => Inv'
    BY DEF NoteTyped, ExpandedForEveryone
  <2>2. ASSUME NEW n \in Notes, Enqueue(n) PROVE Inv'
    BY <2>2 DEF Enqueue, NoteTyped, ExpandedForEveryone, Deliveries
  <2>3. CASE Materialize
    <3>1. \A d \in Deliveries : Policy(d[1], d[2], clock) \in {"skipped", "pending"}
      BY PolicyStatus
    <3>2. \A n \in Batch : n \in Notes /\ note[n] = "pending"
      BY DEF Batch
    <3>3. \A d \in Deliveries : d[1] \in Notes
      BY DEF Deliveries
    <3>4. NoteTyped'
      BY <2>3, <3>2 DEF Materialize, NoteTyped
    <3>5. ExpandedForEveryone'
      BY <2>3, <3>1, <3>2, <3>3 DEF Materialize, Created, NoteTyped, ExpandedForEveryone
    <3>6. QED BY <3>4, <3>5
  <2>4. CASE Claim
    <3>1. \A d \in Deliveries : Swept(d) = "absent" <=> status[d] = "absent"
      BY DEF Swept
    <3>2. \A d \in Due : status[d] # "absent"
      BY DEF Due, Swept
    <3>3. Kept
      BY <2>4, <3>1, <3>2 DEF Claim, NextDelivery
    <3>4. QED BY <2>1, <3>3
  <2>5. CASE Mark
    <3>1. claimed \in Deliveries /\ status[claimed] = "sending"
      BY <2>5 DEF Mark, DeliveryInvariant, HeldIsSending
    <3>2. result.status \in {"sent", "failed", "delivery_unknown", "retry"}
      BY <2>5 DEF Mark, DeliveryInvariant, ResultTellsTheTruth
    <3>3. Kept
      BY <2>5, <3>1, <3>2 DEF Mark, DeliveryInvariant, Typed
    <3>4. QED BY <2>1, <3>3
  <2>6. CASE Recover
    <3>1. Kept
      BY <2>6 DEF Recover, Stale
    <3>2. QED BY <2>1, <3>1
  <2>7. CASE Tick \/ (\E u \in Users : BeginCommand(u) \/ CommitCommand(u)) \/ ReadPaused
             \/ SendAccepted \/ SendRejected \/ Restart \/ UNCHANGED vars
    <3>1. UNCHANGED <<note, status>>
      BY <2>7 DEF Tick, BeginCommand, CommitCommand, ReadPaused, SendAccepted, SendRejected,
                  Restart, vars, rows
    <3>2. QED BY <2>1, <3>1
  <2>8. QED BY <2>2, <2>3, <2>4, <2>5, <2>6, <2>7 DEF Next, Deliver
<1>3. Inv => ExpandedForEveryone
  OBVIOUS
<1>4. QED BY <1>1, <1>2, <1>3, DeliveryInvariantHolds, PTL DEF Spec

-----------------------------------------------------------------------------
(* A message may still leave for a user: it is being sent, or the open     *)
(* claim has not seen the pause and finds the row of the user unlocked.    *)
OnItsWay(u) ==
  \/ phase = "send" /\ claimed[2] = u
  \/ phase = "claim" /\ u \notin seenPaused /\ u \notin editing

(* What a paused user was sent is paid for, by the pause or by a command   *)
(* after it; so is, in advance, what is on its way.                        *)
PauseInvariant ==
  /\ paused \in [Users -> BOOLEAN]
  /\ sincePause \in [Users -> Nat] /\ commands \in [Users -> Nat]
  /\ phase \in {"send", "mark"} => claimed \in Deliveries
  /\ \A u \in Users : sincePause[u] <= 1 + commands[u]
  /\ \A u \in Users : paused[u] /\ OnItsWay(u) => sincePause[u] <= commands[u]

LEMMA PauseStep ==
  ASSUME PauseInvariant, [Next]_vars
  PROVE  PauseInvariant'
<1> USE DEF PauseInvariant, OnItsWay
<1>1. CASE (\E n \in Notes : Enqueue(n)) \/ Tick \/ UNCHANGED vars
  BY <1>1 DEF Enqueue, Tick, vars, settings, process, pauses
<1>2. ASSUME NEW u \in Users, BeginCommand(u) PROVE PauseInvariant'
  BY <1>2 DEF BeginCommand, settings, process, pauses
<1>3. ASSUME NEW u \in Users, CommitCommand(u) PROVE PauseInvariant'
  <2>1. UNCHANGED <<phase, seenPaused, claimed>> /\ editing' = editing \ {u}
    BY <1>3 DEF CommitCommand, process
  <2>2. CASE /\ paused' = [paused EXCEPT ![u] = ~@]
             /\ sincePause' = [sincePause EXCEPT ![u] = 0]
             /\ commands' = [commands EXCEPT ![u] = 0]
    BY <2>1, <2>2
  <2>3. CASE /\ commands' = [commands EXCEPT ![u] = IF paused[u] THEN @ + 1 ELSE @]
             /\ UNCHANGED <<paused, sincePause>>
    BY <2>1, <2>3
  <2>4. QED BY <1>3, <2>2, <2>3 DEF CommitCommand
<1>4. CASE Recover \/ Materialize
  BY <1>4 DEF Recover, Materialize, settings, pauses
<1>5. CASE ReadPaused
  BY <1>5 DEF ReadPaused, settings, pauses
<1>6. CASE Claim
  <2>1. UNCHANGED <<paused, sincePause, commands>> /\ phase = "claim"
    BY <1>6 DEF Claim, settings, pauses
  <2>2. \A d \in Due : d[2] \notin seenPaused /\ d[2] \notin editing
    BY DEF Due, Swept
  <2>3. \/ phase' = "expand"
        \/ \E d \in Deliveries : d \in Due /\ phase' = "send" /\ claimed' = d
    BY <1>6 DEF Claim, NextDelivery
  <2>4. QED BY <2>1, <2>2, <2>3
<1>7. CASE SendAccepted
  <2> DEFINE u == claimed[2]
  <2>1. u \in Users /\ OnItsWay(u) /\ claimed \in Deliveries
    BY <1>7 DEF SendAccepted, Deliveries
  <2>2. /\ UNCHANGED <<paused, commands, claimed>> /\ phase' = "mark"
        /\ sincePause' = [sincePause EXCEPT ![u] = IF paused[u] THEN @ + 1 ELSE @]
    BY <1>7 DEF SendAccepted, settings
  <2>3. paused[u] => sincePause[u] <= commands[u]
    BY <2>1
  <2> HIDE DEF u
  <2>4. QED BY <2>1, <2>2, <2>3
<1>8. CASE SendRejected \/ Mark \/ Restart
  BY <1>8 DEF SendRejected, Mark, Restart, settings, pauses
<1>9. QED BY <1>1, <1>2, <1>3, <1>4, <1>5, <1>6, <1>7, <1>8 DEF Next, Deliver

(* After /pause a user gets at most the one message that was on its way    *)
(* and one for each further command, whose lock may hide the pause from a  *)
(* claim (claim_delivery, update_user).                                    *)
THEOREM OutboxPauseIsHeeded == Spec => []PauseIsHeeded
<1>1. Init => PauseInvariant
  <2> SUFFICES ASSUME Init PROVE PauseInvariant
    OBVIOUS
  <2>1. paused \in [Users -> BOOLEAN]
    BY DEF Init
  <2>2. /\ sincePause = [u \in Users |-> 0] /\ commands = [u \in Users |-> 0]
        /\ phase = "boot"
    BY DEF Init
  <2>3. QED BY <2>1, <2>2 DEF PauseInvariant, OnItsWay
<1>2. PauseInvariant /\ [Next]_vars => PauseInvariant'
  BY PauseStep
<1>3. PauseInvariant => PauseIsHeeded
  BY DEF PauseInvariant, PauseIsHeeded
<1>4. QED BY <1>1, <1>2, <1>3, PTL DEF Spec
=============================================================================
