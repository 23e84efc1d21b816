-------------------------- MODULE MCTelegramOutbox --------------------------
(* TelegramOutbox with two notes, the first of them a new signal.          *)
EXTENDS TelegramOutbox

TwoNotes == {1, 2}
FirstIsSignal == {1}
Scores == [n \in {1, 2} |-> 80]
AllDay == {<<0, 0>>}
Morning == {<<0, 1>>}
MorningOrNight == {<<0, 1>>, <<1, 0>>}
=============================================================================
