--------------------------- MODULE VirtualPosition --------------------------
(***************************************************************************)
(* What the lifecycle of a signal promises about its virtual position: it  *)
(* is filled at most once, half of it is closed at TP1 and only then the   *)
(* stop moves to breakeven, and once it is closed it stays closed.         *)
(***************************************************************************)
CONSTANT Signals

VARIABLES
  position,   \* "none", "waiting", "full", "half" or "closed"
  stop        \* "initial" or "breakeven"

Init ==
  /\ position = [i \in Signals |-> "none"]
  /\ stop = [i \in Signals |-> "initial"]

Move(i, from, to) ==
  /\ position[i] \in from
  /\ position' = [position EXCEPT ![i] = to]

Open(i) == Move(i, {"none"}, "waiting") /\ UNCHANGED stop
Fill(i) == Move(i, {"waiting"}, "full") /\ UNCHANGED stop
TakeHalf(i) == Move(i, {"full"}, "half") /\ stop' = [stop EXCEPT ![i] = "breakeven"]
Close(i) == Move(i, {"waiting", "full", "half"}, "closed") /\ UNCHANGED stop

Next == \E i \in Signals : Open(i) \/ Fill(i) \/ TakeHalf(i) \/ Close(i)

Spec == Init /\ [][Next]_<<position, stop>>
=============================================================================
