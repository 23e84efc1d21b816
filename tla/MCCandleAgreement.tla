-------------------------- MODULE MCCandleAgreement --------------------------
(* CandleAgreement with a long and a short setup that are followed, and    *)
(* some that are refused.                                                  *)
EXTENDS CandleAgreement

Setup(direction, lower, upper, atr, target) ==
  [direction |-> direction, entryLower |-> lower, entryUpper |-> upper, atr |-> atr,
   target |-> target, step |-> 1, minimumNotional |-> 300]

SomeSetups == {
  Setup("long", 300, 340, 200, 600),
  Setup("short", 960, 1000, 200, 640),
  Setup("long", 300, 340, 200, 420),       \* not worth the risk
  Setup("long", 300, 340, 200, 310),       \* no reward
  Setup("short", 960, 1000, 20000, 640)}   \* too small

(* TP1 is nearer to the entry than the price that pays the fees. *)
TightSetups == {Setup("long", 3000, 3004, 100, 3800), Setup("short", 3000, 3004, 100, 2200)}
=============================================================================
