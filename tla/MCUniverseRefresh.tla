-------------------------- MODULE MCUniverseRefresh --------------------------
(* UniverseRefresh with six assets, two of which have one contract, and    *)
(* answers that differ in what is listed, traded, wide and ranked first.   *)
EXTENDS UniverseRefresh, TLC

Asset(classes, bases) == [classes |-> classes, bases |-> bases]
Instrument(symbol, base, named, days) ==
  [symbol |-> symbol, base |-> base, named |-> named, days |-> days]
Ticker(turnover, spread) == [turnover |-> turnover, spread |-> spread]

Pepe == Asset({}, <<"PEPE", "1000PEPE">>)
ThousandPepe == Asset({}, <<"1000PEPE">>)
Sol == Asset({}, <<"SOL">>)
Doge == Asset({}, <<"DOGE">>)
Ada == Asset({}, <<"ADA">>)
Tether == Asset({"stablecoin"}, <<"USDT">>)

Contract1 == Instrument(1, "1000PEPE", TRUE, 9)
Contract2 == Instrument(2, "SOL", FALSE, 9)
Contract3 == Instrument(3, "SOL", TRUE, 9)
Fresh3 == Instrument(3, "SOL", TRUE, 1)
Contract4 == Instrument(4, "DOGE", TRUE, 9)
Contract5 == Instrument(5, "ADA", TRUE, 9)

Good == Ticker(9, 1)

FewAnswers == [
  listed |-> Answer(<<Tether, Pepe, ThousandPepe, Sol, Doge>>,
                    {Contract1, Contract2, Contract3, Contract4}, [s \in 1..4 |-> Good]),
  swapped |-> Answer(<<Sol, ThousandPepe, Pepe, Doge>>,
                     {Contract1, Contract2, Contract4, Contract5},
                     1 :> Ticker(9, 7) @@ 2 :> Good @@ 4 :> Good),
  fewer |-> Answer(<<Ada, Pepe, Sol, Doge>>,
                   {Contract1, Fresh3, Contract4, Contract5},
                   1 :> Good @@ 3 :> Good @@ 4 :> Ticker(2, 1) @@ 5 :> Ticker(9, -1)),
  nothing |-> Answer(<<>>, {}, <<>>)]
=============================================================================
