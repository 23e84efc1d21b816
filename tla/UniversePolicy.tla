---------------------------- MODULE UniversePolicy ----------------------------
(***************************************************************************)
(* The selection of the market universe (universe/policy.py): the ranked   *)
(* assets of CoinGecko, in order of their rank, against the instruments    *)
(* and tickers of Bybit.                                                   *)
(*                                                                         *)
(* An asset is the set of classes its names put it in and the bases its    *)
(* contract may have, its own first and then its alias. Symbols of         *)
(* instruments are numbers in their alphabetical order; one is "named"     *)
(* when it is its base followed by USDT.                                   *)
(***************************************************************************)
EXTENDS Integers, Sequences, FiniteSets

CONSTANTS
  Size, MinTurnover, MaxSpread, MinHistoryDays

ASSUME PolicyAssumption ==
  /\ Size \in Nat \ {0}
  /\ {MinTurnover, MaxSpread, MinHistoryDays} \subseteq Nat

LeastOf(S) == CHOOSE x \in S : \A y \in S : x <= y

(* What the three providers answered.                                      *)
Answer(assets, listed, tickers) ==
  [assets |-> assets, instruments |-> listed, tickers |-> tickers]

(* The reasons of _classify in the order it looks for them, and all        *)
(* reasons in the order of evaluate.                                       *)
Classes == <<"manual_denylist", "stablecoin", "wrapped_asset", "tokenized_stock",
             "leveraged_token">>

Reasons ==
  Classes \o <<"no_bybit_contract", "duplicate_contract", "missing_ticker",
               "insufficient_history", "low_turnover", "invalid_spread",
               "spread_too_wide", "capacity_reached">>

(* _index_instruments and _resolve_instrument: at most one instrument.     *)
OfBase(listed, base) == {i \in listed : i.base = base}

ResolveInstrument(asset, listed) ==
  LET traded == {k \in DOMAIN asset.bases : OfBase(listed, asset.bases[k]) # {}}
      candidates == IF traded = {} THEN {}
                    ELSE OfBase(listed, asset.bases[LeastOf(traded)])
      named == {i \in candidates : i.named}
  IN  IF named # {} THEN named
      ELSE {i \in candidates : \A j \in candidates : i.symbol <= j.symbol}

Symbols(listed) == {i.symbol : i \in listed}

(* A spread below 0 stands for one that is missing or crossed.             *)
Fails(reason, asset, contract, answer, selected) ==
  LET symbols == Symbols(contract)
      tickers == {answer.tickers[s] : s \in symbols \cap DOMAIN answer.tickers}
  IN  CASE reason = "no_bybit_contract"    -> contract = {}
        [] reason = "duplicate_contract"   -> symbols \cap selected # {}
        [] reason = "missing_ticker"       -> tickers = {}
        [] reason = "insufficient_history" -> \E i \in contract : i.days < MinHistoryDays
        [] reason = "low_turnover"         -> \E t \in tickers : t.turnover < MinTurnover
        [] reason = "invalid_spread"       -> \E t \in tickers : t.spread < 0
        [] reason = "spread_too_wide"      -> \E t \in tickers : t.spread > MaxSpread
        [] reason = "capacity_reached"     -> Cardinality(selected) >= Size
        [] OTHER                           -> reason \in asset.classes

FirstReason(asset, contract, answer, selected) ==
  LET failed == {k \in DOMAIN Reasons : Fails(Reasons[k], asset, contract, answer, selected)}
  IN  IF failed = {} THEN "none" ELSE Reasons[LeastOf(failed)]

(* An asset that is put in a class is excluded before its contract is      *)
(* looked for.                                                             *)
Decide(asset, answer, selected) ==
  LET contract == ResolveInstrument(asset, answer.instruments)
      reason   == FirstReason(asset, contract, answer, selected)
  IN  [reason |-> reason,
       contract |-> IF asset.classes = {} THEN Symbols(contract) ELSE {}]

(* Faulty variant: a contract that is taken can be selected again. *)
TakenForgotten(decision, selected) == selected

Taken(decision, selected) ==
  IF decision.reason = "none" THEN selected \cup decision.contract ELSE selected

(* One round of the loop, when the contracts of selected are taken.        *)
Round(answer, k, selected) == Taken(Decide(answer.assets[k], answer, selected), selected)

(* What is taken when the loop comes to each asset, and at its end.        *)
TakenBefore(answer) ==
  LET taken[k \in 1..(Len(answer.assets) + 1)] ==
        IF k = 1 THEN {} ELSE Round(answer, k - 1, taken[k - 1])
  IN  taken

Evaluate(answer) ==
  LET taken == TakenBefore(answer)
  IN  [k \in DOMAIN answer.assets |-> Decide(answer.assets[k], answer, taken[k])]

Selected(decisions) == UNION {decisions[k].contract : k \in {j \in DOMAIN decisions :
                                                               decisions[j].reason = "none"}}

-----------------------------------------------------------------------------
(* What holds of any answer: Bybit lists a symbol once, so one contract of *)
(* a base at most has the name that is expected of it.                     *)
WellFormed(answer) ==
  /\ Len(answer.assets) \in Nat /\ DOMAIN answer.assets = 1..Len(answer.assets)
  /\ \A k \in DOMAIN answer.assets :
       /\ answer.assets[k].classes \subseteq {Classes[c] : c \in DOMAIN Classes}
       /\ DOMAIN answer.assets[k].bases \subseteq Nat
  /\ \A i, j \in answer.instruments :
       /\ i.symbol \in Nat
       /\ i.symbol = j.symbol \/ (i.named /\ j.named /\ i.base = j.base) => i = j

(* docs/architecture.md, section 4.1, without the loop: filter, intersect  *)
(* with the exchange, filter again, and keep the first of what is left. An *)
(* asset is eligible by itself when no reason but another asset excludes   *)
(* it. (docs/requirements.md, section 3, keeps the first assets before it  *)
(* looks at the exchange; the code does not.)                              *)
Eligible(answer, k) ==
  LET asset == answer.assets[k]
  IN  Decide(asset, answer, {}).reason = "none"

Contract(answer, k) == Symbols(ResolveInstrument(answer.assets[k], answer.instruments))

(* The assets that are the first with their contract among the eligible.   *)
Leading(answer) ==
  {k \in DOMAIN answer.assets :
     /\ Eligible(answer, k)
     /\ \A j \in 1..(k - 1) : Eligible(answer, j) => Contract(answer, j) # Contract(answer, k)}

LeadingBefore(answer, k) == {j \in Leading(answer) : j < k}

FirstEligible(answer) ==
  UNION {Contract(answer, k) : k \in {j \in Leading(answer) :
                                        Cardinality(LeadingBefore(answer, j)) < Size}}
=============================================================================
