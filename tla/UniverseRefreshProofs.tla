------------------------ MODULE UniverseRefreshProofs ------------------------
(***************************************************************************)
(* Proofs about UniverseRefresh, for any number of workers, of answers and *)
(* of faults, and whatever the providers answer.                           *)
(***************************************************************************)
EXTENDS UniverseRefresh, FiniteSetTheorems, NaturalsInduction, WellFoundedInduction, TLAPS

USE RefreshAssumption

-----------------------------------------------------------------------------
(* The least of some naturals. *)
LEMMA LeastIsThere ==
  ASSUME NEW T \in SUBSET Nat, T # {}
  PROVE  LeastOf(T) \in T /\ \A x \in T : LeastOf(T) <= x
<1> DEFINE R == OpToRel(<, Nat)
<1>1. \E x \in T : \A y \in T : ~(<<y, x>> \in R)
  BY NatLessThanWellFounded, WFMin
<1>2. \A x, y \in Nat : <<y, x>> \in R <=> y < x
  BY DEF OpToRel
<1> HIDE DEF R
<1>3. PICK x \in T : \A y \in T : ~(<<y, x>> \in R)
  BY <1>1
<1>4. ASSUME NEW y \in T PROVE x <= y
  <2>1. ~(y < x) /\ x \in Nat /\ y \in Nat
    BY <1>2, <1>3
  <2>2. QED BY <2>1
<1>5. QED BY <1>4 DEF LeastOf

(* The loop comes to every asset: what is taken is defined by what was     *)
(* taken before.                                                           *)
LEMMA TakenRounds ==
  ASSUME NEW answer, Len(answer.assets) \in Nat
  PROVE  /\ DOMAIN TakenBefore(answer) = 1..(Len(answer.assets) + 1)
         /\ TakenBefore(answer)[1] = {}
         /\ \A k \in 1..Len(answer.assets) :
              TakenBefore(answer)[k + 1] = Round(answer, k, TakenBefore(answer)[k])
<1> DEFINE Rec(g, m) == g = [k \in 1..m |-> IF k = 1 THEN {} ELSE Round(answer, k - 1, g[k - 1])]
           Bad == {m \in Nat \ {0} : ~\E g : Rec(g, m)}
           n == Len(answer.assets) + 1
<1>1. Bad = {}
  <2> SUFFICES ASSUME Bad # {} PROVE FALSE
    OBVIOUS
  <2> DEFINE m == LeastOf(Bad)
  <2>1. m \in Bad /\ \A x \in Bad : m <= x
    BY LeastIsThere
  <2>2. CASE m = 1
    <3> DEFINE g == [k \in 1..1 |-> {}]
    <3>1. Rec(g, 1)
      OBVIOUS
    <3>2. QED BY <2>1, <2>2, <3>1
  <2>3. CASE m # 1
    <3> DEFINE p == m - 1
    <3>1. m \in Nat \ {0}
      BY <2>1
    <3> HIDE DEF Bad, m, Rec
    <3>9. p \in Nat \ {0} /\ m = p + 1
      BY <2>3, <3>1
    <3>10. p \notin Bad
      BY <2>1, <3>9
    <3>2. PICK g : Rec(g, p)
      BY <3>9, <3>10 DEF Bad
    <3> DEFINE h == [k \in 1..(p + 1) |-> IF k = 1 THEN {} ELSE Round(answer, k - 1, g[k - 1])]
    <3> HIDE DEF p
    <3>3. \A k \in 1..p : g[k] = IF k = 1 THEN {} ELSE Round(answer, k - 1, g[k - 1])
      BY <3>2 DEF Rec
    <3>4. \A k \in 1..p : h[k] = g[k]
      BY <3>9, <3>3
    <3>5. \A k \in 1..(p + 1) : h[k] = IF k = 1 THEN {} ELSE Round(answer, k - 1, h[k - 1])
      <4> TAKE k \in 1..(p + 1)
      <4>1. CASE k = 1
        BY <4>1
      <4>2. CASE k # 1
        <5>1. k - 1 \in 1..p
          BY <3>9, <4>2
        <5>2. h[k] = Round(answer, k - 1, g[k - 1])
          BY <4>2
        <5>3. QED BY <3>4, <4>2, <5>1, <5>2
      <4>3. QED BY <4>1, <4>2
    <3>6. h = [k \in 1..(p + 1) |-> h[k]]
      OBVIOUS
    <3> HIDE DEF h
    <3>7. Rec(h, p + 1)
      BY <3>5, <3>6 DEF Rec
    <3>8. QED BY <2>1, <3>9, <3>7 DEF Bad
  <2>4. QED BY <2>2, <2>3
<1>2. n \in Nat \ {0}
  OBVIOUS
<1>3. \E g : Rec(g, n)
  BY <1>1, <1>2
<1>4. TakenBefore(answer) = CHOOSE g : Rec(g, n)
  BY DEF TakenBefore
<1>5. Rec(TakenBefore(answer), n)
  BY <1>3, <1>4
<1>6. \A k \in 1..n : TakenBefore(answer)[k] =
        IF k = 1 THEN {} ELSE Round(answer, k - 1, TakenBefore(answer)[k - 1])
  BY <1>5
<1>7. DOMAIN TakenBefore(answer) = 1..n
  BY <1>5
<1>8. \A k \in 1..Len(answer.assets) : k + 1 \in 1..n /\ k + 1 # 1 /\ (k + 1) - 1 = k
  BY <1>2
<1>9. QED BY <1>2, <1>6, <1>7, <1>8

LEMMA ReasonsInOrder ==
  /\ DOMAIN Reasons = 1..13
  /\ Reasons[1] = "manual_denylist" /\ Reasons[2] = "stablecoin" /\ Reasons[3] = "wrapped_asset"
  /\ Reasons[4] = "tokenized_stock" /\ Reasons[5] = "leveraged_token"
  /\ Reasons[6] = "no_bybit_contract" /\ Reasons[7] = "duplicate_contract"
  /\ Reasons[8] = "missing_ticker" /\ Reasons[9] = "insufficient_history"
  /\ Reasons[10] = "low_turnover" /\ Reasons[11] = "invalid_spread"
  /\ Reasons[12] = "spread_too_wide" /\ Reasons[13] = "capacity_reached"
BY DEF Reasons, Classes

LEMMA NoReason ==
  ASSUME NEW asset, NEW answer, NEW selected
  PROVE  Decide(asset, answer, selected).reason = "none" <=>
           \A k \in DOMAIN Reasons :
             ~Fails(Reasons[k], asset, ResolveInstrument(asset, answer.instruments), answer,
                    selected)
<1> DEFINE failed == {k \in DOMAIN Reasons :
                        Fails(Reasons[k], asset, ResolveInstrument(asset, answer.instruments),
                              answer, selected)}
<1>1. Decide(asset, answer, selected).reason =
        IF failed = {} THEN "none" ELSE Reasons[LeastOf(failed)]
  BY DEF Decide, FirstReason
<1>2. failed \in SUBSET Nat
  BY ReasonsInOrder
<1>3. \A k \in DOMAIN Reasons : Reasons[k] # "none"
  <2> TAKE k \in DOMAIN Reasons
  <2>1. k \in {1, 2, 3, 4, 5, 6, 7, 8, 9, 10, 11, 12, 13}
    BY ReasonsInOrder
  <2>2. QED BY <2>1, ReasonsInOrder
<1>4. failed # {} => LeastOf(failed) \in DOMAIN Reasons
  <2> SUFFICES ASSUME failed # {} PROVE LeastOf(failed) \in DOMAIN Reasons
    OBVIOUS
  <2>1. LeastOf(failed) \in failed
    <3> HIDE DEF failed
    <3>1. QED BY <1>2, LeastIsThere
  <2>2. QED BY <2>1
<1>5. failed = {} <=> \A k \in DOMAIN Reasons :
             ~Fails(Reasons[k], asset, ResolveInstrument(asset, answer.instruments), answer,
                    selected)
  OBVIOUS
<1> HIDE DEF failed
<1>6. QED BY <1>1, <1>3, <1>4, <1>5

(* What excludes an asset by itself, and what only those before it do.     *)
LEMMA OthersExclude ==
  ASSUME NEW asset, NEW answer, NEW selected
  PROVE  Decide(asset, answer, selected).reason = "none" <=>
           /\ Decide(asset, answer, {}).reason = "none"
           /\ Symbols(ResolveInstrument(asset, answer.instruments)) \cap selected = {}
           /\ ~(Cardinality(selected) >= Size)
<1> DEFINE contract == ResolveInstrument(asset, answer.instruments)
           F(r, s) == Fails(r, asset, contract, answer, s)
<1>1. \A r \in {"manual_denylist", "stablecoin", "wrapped_asset", "tokenized_stock",
                "leveraged_token", "no_bybit_contract", "missing_ticker",
                "insufficient_history", "low_turnover", "invalid_spread", "spread_too_wide"} :
        F(r, selected) <=> F(r, {})
  BY DEF Fails
<1>2. /\ F("duplicate_contract", selected) <=> Symbols(contract) \cap selected # {}
      /\ ~F("duplicate_contract", {})
      /\ F("capacity_reached", selected) <=> Cardinality(selected) >= Size
  BY DEF Fails
<1>3. ~F("capacity_reached", {})
  <2>1. F("capacity_reached", {}) <=> Cardinality({}) >= Size
    BY DEF Fails
  <2>2. QED BY <2>1, FS_EmptySet, PolicyAssumption DEF PolicyAssumption
<1> DEFINE Free(s) == \A k \in DOMAIN Reasons : ~F(Reasons[k], s)
<1>4. /\ Decide(asset, answer, selected).reason = "none" <=> Free(selected)
      /\ Decide(asset, answer, {}).reason = "none" <=> Free({})
  BY NoReason
<1> HIDE DEF F, contract
<1>5. DOMAIN Reasons = {1, 2, 3, 4, 5, 6, 7, 8, 9, 10, 11, 12, 13}
  BY ReasonsInOrder
<1>6. Free(selected) <=> /\ Free({})
                         /\ ~F("duplicate_contract", selected)
                         /\ ~F("capacity_reached", selected)
  BY <1>1, <1>2, <1>3, <1>5, ReasonsInOrder
<1>7. QED BY <1>2, <1>4, <1>6 DEF contract

(* An eligible asset has one contract, whatever is taken.                  *)
LEMMA EligibleHasOne ==
  ASSUME NEW answer, WellFormed(answer), NEW k \in DOMAIN answer.assets, Eligible(answer, k)
  PROVE  /\ \A selected : Decide(answer.assets[k], answer, selected).contract =
                            Contract(answer, k)
         /\ \E symbol : Contract(answer, k) = {symbol}
<1> DEFINE asset == answer.assets[k]
           contract == ResolveInstrument(asset, answer.instruments)
<1>1. \A r \in DOMAIN Reasons : ~Fails(Reasons[r], asset, contract, answer, {})
  BY NoReason DEF Eligible
<1>2. asset.classes = {}
  <2>1. \A c \in DOMAIN Classes : ~(Classes[c] \in asset.classes)
    <3> TAKE c \in DOMAIN Classes
    <3>1. /\ c \in {1, 2, 3, 4, 5} /\ Reasons[c] = Classes[c] /\ c \in DOMAIN Reasons
          /\ Classes[c] \in {"manual_denylist", "stablecoin", "wrapped_asset",
                             "tokenized_stock", "leveraged_token"}
      BY ReasonsInOrder DEF Classes
    <3>2. Fails(Classes[c], asset, contract, answer, {}) <=> Classes[c] \in asset.classes
      BY <3>1 DEF Fails
    <3>3. QED BY <1>1, <3>1, <3>2
  <2>2. QED BY <2>1 DEF WellFormed
<1>3. contract # {}
  <2>1. ~Fails("no_bybit_contract", asset, contract, answer, {})
    BY <1>1, ReasonsInOrder
  <2>2. QED BY <2>1 DEF Fails
<1>4. /\ \A i, j \in contract : i = j
  <2> DEFINE traded == {b \in DOMAIN asset.bases : OfBase(answer.instruments, asset.bases[b]) # {}}
             candidates == IF traded = {} THEN {}
                           ELSE OfBase(answer.instruments, asset.bases[LeastOf(traded)])
             named == {i \in candidates : i.named}
  <2>1. contract = IF named # {} THEN named
                   ELSE {i \in candidates : \A j \in candidates : i.symbol <= j.symbol}
    BY DEF ResolveInstrument
  <2>2. /\ candidates \subseteq answer.instruments
        /\ \A i, j \in candidates : i.base = j.base
    BY DEF OfBase
  <2> HIDE DEF candidates, contract
  <2>3. \A i, j \in candidates : /\ i.symbol \in Nat
                                 /\ i.symbol = j.symbol => i = j
                                 /\ i.named /\ j.named => i = j
    BY <2>2 DEF WellFormed
  <2>4. QED BY <2>1, <2>3
<1>5. PICK i \in contract : contract = {i}
  BY <1>3, <1>4
<1>6. Symbols(contract) = {i.symbol}
  BY <1>5 DEF Symbols
<1>7. QED BY <1>2, <1>6 DEF Decide, Contract

LEMMA SomeLeader ==
  ASSUME NEW answer, WellFormed(answer),
         NEW k \in Nat, NEW j \in DOMAIN answer.assets, Eligible(answer, j), j < k
  PROVE  \E i \in LeadingBefore(answer, k) : Contract(answer, i) = Contract(answer, j)
<1> DEFINE same == {i \in DOMAIN answer.assets :
                      Eligible(answer, i) /\ Contract(answer, i) = Contract(answer, j)}
           m == LeastOf(same)
<1>1. DOMAIN answer.assets = 1..Len(answer.assets) /\ Len(answer.assets) \in Nat
  BY DEF WellFormed
<1>2. m \in same /\ \A i \in same : m <= i
  <2>1. same \in SUBSET Nat /\ same # {}
    BY <1>1
  <2> HIDE DEF same
  <2>2. QED BY <2>1, LeastIsThere
<1>3. j \in same
  OBVIOUS
<1> HIDE DEF m
<1>4. /\ m \in 1..Len(answer.assets) /\ Eligible(answer, m)
      /\ Contract(answer, m) = Contract(answer, j)
  BY <1>1, <1>2
<1>5. ASSUME NEW i \in 1..(m - 1), Eligible(answer, i)
      PROVE  Contract(answer, i) # Contract(answer, m)
  <2>1. i \in DOMAIN answer.assets /\ ~(m <= i)
    BY <1>1, <1>4
  <2>2. QED BY <1>2, <1>4, <1>5, <2>1
<1>6. m \in Leading(answer)
  BY <1>1, <1>4, <1>5 DEF Leading
<1>7. m < k
  BY <1>1, <1>2, <1>3, <1>4
<1>8. QED BY <1>4, <1>6, <1>7 DEF LeadingBefore

(* A leader is an eligible asset whose contract no leader before it has.   *)
LEMMA LeadsWhenFree ==
  ASSUME NEW answer, WellFormed(answer), NEW k \in DOMAIN answer.assets, Eligible(answer, k)
  PROVE  k \in Leading(answer) <=>
           Contract(answer, k) \cap
             UNION {Contract(answer, j) : j \in LeadingBefore(answer, k)} = {}
<1>1. DOMAIN answer.assets = 1..Len(answer.assets) /\ Len(answer.assets) \in Nat /\ k \in Nat
  BY DEF WellFormed
<1>2. PICK x : Contract(answer, k) = {x}
  BY EligibleHasOne
<1>3. ASSUME k \in Leading(answer), NEW j \in LeadingBefore(answer, k), x \in Contract(answer, j)
      PROVE  FALSE
  <2>1. j \in 1..(k - 1) /\ j \in DOMAIN answer.assets /\ Eligible(answer, j)
    BY <1>1, <1>3 DEF LeadingBefore, Leading
  <2>2. Contract(answer, j) = {x}
    BY <1>3, <2>1, EligibleHasOne
  <2>3. QED BY <1>2, <1>3, <2>1, <2>2 DEF Leading
<1>4. ASSUME k \notin Leading(answer)
      PROVE  \E j \in LeadingBefore(answer, k) : x \in Contract(answer, j)
  <2>1. PICK j \in 1..(k - 1) : Eligible(answer, j) /\ Contract(answer, j) = Contract(answer, k)
    BY <1>4 DEF Leading
  <2>2. j \in DOMAIN answer.assets /\ j < k
    BY <1>1, <2>1
  <2>3. QED BY <1>1, <1>2, <2>1, <2>2, SomeLeader
<1>5. QED BY <1>2, <1>3, <1>4

(* The leaders among the first Size of them before an asset.               *)
Chosen(answer, k) == {j \in LeadingBefore(answer, k) : Cardinality(LeadingBefore(answer, j)) < Size}

SelectedBefore(answer, k) ==
  {j \in 1..(k - 1) : Evaluate(answer)[j].reason = "none"}

(* What the loop has taken when it comes to asset k.                       *)
LoopTakes(answer, k) ==
  LET taken == TakenBefore(answer)[k]
      leading == Cardinality(LeadingBefore(answer, k))
  IN  /\ taken = UNION {Contract(answer, j) : j \in Chosen(answer, k)}
      /\ taken = UNION {Evaluate(answer)[j].contract : j \in SelectedBefore(answer, k)}
      /\ IsFiniteSet(taken)
      /\ Cardinality(taken) = IF leading < Size THEN leading ELSE Size

LEMMA LeadersBefore ==
  ASSUME NEW answer, WellFormed(answer), NEW k \in Nat
  PROVE  /\ IsFiniteSet(LeadingBefore(answer, k))
         /\ Cardinality(LeadingBefore(answer, k)) \in Nat
         /\ \A j \in Nat : j <= k =>
              Cardinality(LeadingBefore(answer, j)) <= Cardinality(LeadingBefore(answer, k))
         /\ LeadingBefore(answer, k + 1) =
              LeadingBefore(answer, k) \cup (Leading(answer) \cap {k})
         /\ k \notin LeadingBefore(answer, k)
         /\ k \in Leading(answer) =>
              Cardinality(LeadingBefore(answer, k + 1)) = Cardinality(LeadingBefore(answer, k)) + 1
<1>1. /\ Leading(answer) \subseteq 1..Len(answer.assets)
      /\ Len(answer.assets) \in Nat
  BY DEF WellFormed, Leading
<1>2. IsFiniteSet(1..Len(answer.assets))
  <2>1. 1 \in Int /\ Len(answer.assets) \in Int
    BY <1>1
  <2>2. QED BY ONLY <2>1, FS_Interval, Zenon
<1>3. \A j \in Nat : LeadingBefore(answer, j) \subseteq 1..Len(answer.assets)
  BY <1>1 DEF LeadingBefore
<1>4. \A j \in Nat : IsFiniteSet(LeadingBefore(answer, j))
  BY <1>2, <1>3, FS_Subset
<1>5. \A j \in Nat : Cardinality(LeadingBefore(answer, j)) \in Nat
  BY <1>4, FS_CardinalityType
<1>6. ASSUME NEW j \in Nat, j <= k
      PROVE  Cardinality(LeadingBefore(answer, j)) <= Cardinality(LeadingBefore(answer, k))
  <2>1. LeadingBefore(answer, j) \subseteq LeadingBefore(answer, k)
    BY <1>1, <1>6 DEF LeadingBefore
  <2>2. QED BY <1>4, <2>1, FS_Subset
<1>7. /\ LeadingBefore(answer, k + 1) = LeadingBefore(answer, k) \cup (Leading(answer) \cap {k})
      /\ k \notin LeadingBefore(answer, k)
  BY <1>1 DEF LeadingBefore
<1>8. ASSUME k \in Leading(answer)
      PROVE  Cardinality(LeadingBefore(answer, k + 1)) =
               Cardinality(LeadingBefore(answer, k)) + 1
  <2>1. LeadingBefore(answer, k + 1) = LeadingBefore(answer, k) \cup {k}
    BY <1>7, <1>8
  <2>2. QED BY <1>4, <1>7, <2>1, FS_AddElement
<1>9. QED BY <1>4, <1>5, <1>6, <1>7, <1>8

LEMMA LoopRound ==
  ASSUME NEW answer, WellFormed(answer), NEW k \in DOMAIN answer.assets, LoopTakes(answer, k)
  PROVE  LoopTakes(answer, k + 1)
<1> DEFINE taken == TakenBefore(answer)[k]
           before == Cardinality(LeadingBefore(answer, k))
           decision == Decide(answer.assets[k], answer, taken)
<1>1. /\ DOMAIN answer.assets = 1..Len(answer.assets) /\ Len(answer.assets) \in Nat
      /\ k \in Nat /\ k >= 1 /\ before \in Nat /\ Size \in Nat \ {0}
  <2>1. /\ DOMAIN answer.assets = 1..Len(answer.assets) /\ Len(answer.assets) \in Nat
        /\ k \in Nat /\ k >= 1 /\ Size \in Nat \ {0}
    BY PolicyAssumption DEF WellFormed, PolicyAssumption
  <2>2. QED BY <2>1, LeadersBefore
<1>11. LeadingBefore(answer, k + 1) = LeadingBefore(answer, k) \cup (Leading(answer) \cap {k})
  BY <1>1, LeadersBefore, Zenon
<1>2. TakenBefore(answer)[k + 1] = Taken(decision, taken) /\ Evaluate(answer)[k] = decision
  BY <1>1, TakenRounds DEF Round, Evaluate
<1>3. decision.reason = "none" <=>
        /\ Eligible(answer, k)
        /\ Contract(answer, k) \cap taken = {}
        /\ ~(Cardinality(taken) >= Size)
  BY OthersExclude DEF Eligible, Contract
<1>4. Cardinality(taken) = IF before < Size THEN before ELSE Size
  BY DEF LoopTakes
<1>5. decision.reason = "none" <=> k \in Leading(answer) /\ before < Size
  <2>1. CASE before < Size
    <3>1. Chosen(answer, k) = LeadingBefore(answer, k)
      <4>1. ASSUME NEW j \in LeadingBefore(answer, k)
            PROVE  Cardinality(LeadingBefore(answer, j)) < Size
        <5>1. j \in Nat /\ j <= k
          BY <1>1 DEF LeadingBefore, Leading
        <5>2. Cardinality(LeadingBefore(answer, j)) \in Nat
          BY <5>1, LeadersBefore
        <5>3. Cardinality(LeadingBefore(answer, j)) <= before
          BY <1>1, <5>1, LeadersBefore
        <5> HIDE DEF before
        <5>4. QED BY <1>1, <2>1, <5>2, <5>3
      <4>2. QED BY <4>1 DEF Chosen
    <3>2. taken = UNION {Contract(answer, j) : j \in LeadingBefore(answer, k)}
      BY <3>1 DEF LoopTakes
    <3>3. ~(Cardinality(taken) >= Size)
      BY <1>1, <1>4, <2>1
    <3>4. Eligible(answer, k) => (k \in Leading(answer) <=> Contract(answer, k) \cap taken = {})
      BY <3>2, LeadsWhenFree
    <3>5. k \in Leading(answer) => Eligible(answer, k)
      BY DEF Leading
    <3>6. QED BY <1>3, <2>1, <3>3, <3>4, <3>5
  <2>2. CASE ~(before < Size)
    BY <1>1, <1>3, <1>4, <2>2
  <2>3. QED BY <2>1, <2>2
<1>6. SelectedBefore(answer, k + 1) =
        SelectedBefore(answer, k) \cup {j \in {k} : decision.reason = "none"}
  BY <1>1, <1>2 DEF SelectedBefore
<1>7. Chosen(answer, k + 1) =
        Chosen(answer, k) \cup {j \in {k} : k \in Leading(answer) /\ before < Size}
  BY <1>11 DEF Chosen
<1>8. CASE k \in Leading(answer) /\ before < Size
  <2>1. Eligible(answer, k)
    BY <1>3, <1>5, <1>8
  <2>2. decision.contract = Contract(answer, k) /\ \E x : Contract(answer, k) = {x}
    BY <2>1, EligibleHasOne
  <2>3. PICK x : Contract(answer, k) = {x}
    BY <2>2
  <2>4. TakenBefore(answer)[k + 1] = taken \cup Contract(answer, k)
    BY <1>2, <1>5, <1>8, <2>2 DEF Taken
  <2>5. x \notin taken
    BY <1>3, <1>5, <1>8, <2>3
  <2>6. IsFiniteSet(taken)
    BY DEF LoopTakes
  <2>7. /\ IsFiniteSet(taken \cup {x})
        /\ Cardinality(taken \cup {x}) = Cardinality(taken) + 1
    BY <2>5, <2>6, FS_AddElement
  <2>8. Cardinality(LeadingBefore(answer, k + 1)) = before + 1
    BY <1>1, <1>8, LeadersBefore
  <2>9. Cardinality(TakenBefore(answer)[k + 1]) =
          IF Cardinality(LeadingBefore(answer, k + 1)) < Size
          THEN Cardinality(LeadingBefore(answer, k + 1)) ELSE Size
    <3> HIDE DEF before, taken
    <3>1. Cardinality(TakenBefore(answer)[k + 1]) = before + 1
      BY <1>4, <1>8, <2>3, <2>4, <2>7
    <3>2. QED BY <1>1, <1>8, <2>8, <3>1
  <2>10. TakenBefore(answer)[k + 1] = UNION {Contract(answer, j) : j \in Chosen(answer, k + 1)}
    <3>1. Chosen(answer, k + 1) = Chosen(answer, k) \cup {k}
      BY <1>7, <1>8
    <3>2. taken = UNION {Contract(answer, j) : j \in Chosen(answer, k)}
      BY DEF LoopTakes
    <3>3. QED BY <2>4, <3>1, <3>2
  <2>11. TakenBefore(answer)[k + 1] =
           UNION {Evaluate(answer)[j].contract : j \in SelectedBefore(answer, k + 1)}
    <3>1. SelectedBefore(answer, k + 1) = SelectedBefore(answer, k) \cup {k}
      BY <1>5, <1>6, <1>8
    <3>2. taken = UNION {Evaluate(answer)[j].contract : j \in SelectedBefore(answer, k)}
      BY DEF LoopTakes
    <3>3. Evaluate(answer)[k].contract = Contract(answer, k)
      BY <1>2, <2>2
    <3>4. QED BY <2>4, <3>1, <3>2, <3>3
  <2>12. QED BY <2>3, <2>4, <2>7, <2>9, <2>10, <2>11 DEF LoopTakes
<1>9. CASE ~(k \in Leading(answer) /\ before < Size)
  <2>1. TakenBefore(answer)[k + 1] = taken
    BY <1>2, <1>5, <1>9 DEF Taken
  <2>2. /\ SelectedBefore(answer, k + 1) = SelectedBefore(answer, k)
        /\ Chosen(answer, k + 1) = Chosen(answer, k)
    BY <1>5, <1>6, <1>7, <1>9
  <2>3. \/ Cardinality(LeadingBefore(answer, k + 1)) = before
        \/ ~(before < Size) /\ Cardinality(LeadingBefore(answer, k + 1)) = before + 1
    <3>1. CASE k \in Leading(answer)
      BY <1>1, <1>9, <3>1, LeadersBefore
    <3>2. CASE k \notin Leading(answer)
      <4>1. LeadingBefore(answer, k + 1) = LeadingBefore(answer, k)
        BY <1>11, <3>2
      <4>2. QED BY <4>1
    <3>3. QED BY <3>1, <3>2
  <2>4. Cardinality(taken) = IF Cardinality(LeadingBefore(answer, k + 1)) < Size
                             THEN Cardinality(LeadingBefore(answer, k + 1)) ELSE Size
    <3> HIDE DEF before, taken
    <3>1. QED BY <1>1, <1>4, <2>3
  <2>5. QED BY <2>1, <2>2, <2>4 DEF LoopTakes
<1>10. QED BY <1>8, <1>9

LEMMA LoopTakesAll ==
  ASSUME NEW answer, WellFormed(answer)
  PROVE  \A k \in 1..(Len(answer.assets) + 1) : LoopTakes(answer, k)
<1> DEFINE Bad == {k \in 1..(Len(answer.assets) + 1) : ~LoopTakes(answer, k)}
           m == LeastOf(Bad)
<1>1. DOMAIN answer.assets = 1..Len(answer.assets) /\ Len(answer.assets) \in Nat
  BY DEF WellFormed
<1>2. LoopTakes(answer, 1)
  <2>1. LeadingBefore(answer, 1) = {}
    BY <1>1 DEF LeadingBefore, Leading
  <2>2. Chosen(answer, 1) = {} /\ SelectedBefore(answer, 1) = {}
    BY <2>1 DEF Chosen, SelectedBefore
  <2>3. TakenBefore(answer)[1] = {}
    BY <1>1, TakenRounds
  <2>4. IsFiniteSet({}) /\ Cardinality({}) = 0
    BY FS_EmptySet
  <2>5. 0 < Size
    BY PolicyAssumption DEF PolicyAssumption
  <2>6. QED BY <2>1, <2>2, <2>3, <2>4, <2>5 DEF LoopTakes
<1>3. SUFFICES ASSUME Bad # {} PROVE FALSE
  OBVIOUS
<1>4. m \in Bad /\ \A k \in Bad : m <= k
  <2>1. Bad \in SUBSET Nat
    BY <1>1
  <2> HIDE DEF Bad
  <2>2. QED BY <1>3, <2>1, LeastIsThere
<1> HIDE DEF m
<1>5. m - 1 \in 1..Len(answer.assets) /\ m - 1 \notin Bad /\ (m - 1) + 1 = m
  BY <1>1, <1>2, <1>4
<1>6. LoopTakes(answer, m - 1)
  BY <1>1, <1>5
<1>7. LoopTakes(answer, m)
  BY <1>1, <1>5, <1>6, LoopRound
<1>8. QED BY <1>4, <1>7

(* evaluate selects the first Size contracts that eligible assets have in  *)
(* order of their rank, each once, whatever the three providers answered:  *)
(* the set of symbols that the loop has taken stands for all it has to     *)
(* know of the assets before.                                              *)
THEOREM LoopSelectsFirst ==
  ASSUME NEW answer, WellFormed(answer)
  PROVE  Selected(Evaluate(answer)) = FirstEligible(answer)
<1> DEFINE n == Len(answer.assets) + 1
<1>1. /\ DOMAIN answer.assets = 1..Len(answer.assets) /\ Len(answer.assets) \in Nat
      /\ n \in 1..n /\ n - 1 = Len(answer.assets)
  BY DEF WellFormed
<1>2. LoopTakes(answer, n)
  BY <1>1, LoopTakesAll
<1>3. SelectedBefore(answer, n) =
        {k \in DOMAIN Evaluate(answer) : Evaluate(answer)[k].reason = "none"}
  BY <1>1 DEF SelectedBefore, Evaluate
<1>4. Chosen(answer, n) =
        {k \in Leading(answer) : Cardinality(LeadingBefore(answer, k)) < Size}
  <2>1. LeadingBefore(answer, n) = Leading(answer)
    BY <1>1 DEF LeadingBefore, Leading
  <2>2. QED BY <2>1 DEF Chosen
<1> HIDE DEF n
<1>5. QED BY <1>2, <1>3, <1>4 DEF LoopTakes, Selected, FirstEligible

(* What is selected is listed.                                             *)
LEMMA SelectedIsListed ==
  ASSUME NEW answer
  PROVE  Selected(Evaluate(answer)) \subseteq Symbols(answer.instruments)
<1>1. ASSUME NEW asset, NEW selected
      PROVE  Decide(asset, answer, selected).contract \subseteq Symbols(answer.instruments)
  <2>1. ResolveInstrument(asset, answer.instruments) \subseteq answer.instruments
    <3> DEFINE traded == {b \in DOMAIN asset.bases :
                            OfBase(answer.instruments, asset.bases[b]) # {}}
               candidates == IF traded = {} THEN {}
                             ELSE OfBase(answer.instruments, asset.bases[LeastOf(traded)])
               named == {i \in candidates : i.named}
    <3>1. candidates \subseteq answer.instruments
      BY DEF OfBase
    <3>2. ResolveInstrument(asset, answer.instruments) =
            IF named # {} THEN named
            ELSE {i \in candidates : \A j \in candidates : i.symbol <= j.symbol}
      BY DEF ResolveInstrument
    <3> HIDE DEF candidates
    <3>3. QED BY <3>1, <3>2
  <2>2. QED BY <2>1 DEF Decide, Symbols
<1>2. \A k \in DOMAIN Evaluate(answer) :
        Evaluate(answer)[k].contract \subseteq Symbols(answer.instruments)
  BY <1>1 DEF Evaluate
<1>3. QED BY <1>2 DEF Selected

-----------------------------------------------------------------------------
(* A selection of some answer.                                             *)
Snapshots == [answer : Nat, active : BOOLEAN, selected : {s[2] : s \in Selection}]

Steps == {"off", "due", "fetch", "replace", "supersede", "save", "unlock", "fail", "follow",
          "running"}

Typed ==
  /\ snapshots \in Seq(Snapshots)
  /\ answers \in Seq(DOMAIN Said)
  /\ written \in Nat
  /\ pc \in [Workers -> Steps]
  /\ fetched \in [Workers -> Nat]
  /\ seen \in [Workers -> SUBSET Nat]
  /\ overlapping \in BOOLEAN

(* What save_snapshot does to the sequence of snapshots.                   *)
Saved(w, selected) ==
  Append([k \in DOMAIN snapshots |-> IF k \in seen[w] THEN [snapshots[k] EXCEPT !.active = FALSE]
                                     ELSE snapshots[k]],
         [answer |-> fetched[w], active |-> TRUE, selected |-> selected])

LEMMA SavedRows ==
  ASSUME Typed, NEW w \in Workers, NEW selected \in {s[2] : s \in Selection}
  PROVE  /\ Saved(w, selected) \in Seq(Snapshots)
         /\ Len(snapshots) \in Nat
         /\ DOMAIN snapshots = 1..Len(snapshots)
         /\ DOMAIN Saved(w, selected) = 1..(Len(snapshots) + 1)
         /\ \A k \in 1..Len(snapshots) :
              /\ Saved(w, selected)[k].answer = snapshots[k].answer
              /\ Saved(w, selected)[k].selected = snapshots[k].selected
              /\ Saved(w, selected)[k].active <=> snapshots[k].active /\ k \notin seen[w]
         /\ Saved(w, selected)[Len(snapshots) + 1].answer = fetched[w]
         /\ Saved(w, selected)[Len(snapshots) + 1].active
         /\ Saved(w, selected)[Len(snapshots) + 1].selected = selected
<1> DEFINE old == [k \in DOMAIN snapshots |->
                     IF k \in seen[w] THEN [snapshots[k] EXCEPT !.active = FALSE] ELSE snapshots[k]]
           new == [answer |-> fetched[w], active |-> TRUE, selected |-> selected]
<1>1. /\ Len(snapshots) \in Nat
      /\ DOMAIN snapshots = 1..Len(snapshots)
      /\ \A k \in 1..Len(snapshots) : snapshots[k] \in Snapshots
  BY DEF Typed
<1>2. \A k \in 1..Len(snapshots) :
        /\ old[k] \in Snapshots
        /\ old[k].answer = snapshots[k].answer
        /\ old[k].selected = snapshots[k].selected
        /\ old[k].active <=> snapshots[k].active /\ k \notin seen[w]
  BY <1>1 DEF Snapshots
<1>3. old \in [1..Len(snapshots) -> Snapshots]
  BY <1>1, <1>2
<1>4. old \in Seq(Snapshots) /\ Len(old) = Len(snapshots)
  BY <1>1, <1>3
<1>5. new \in Snapshots
  BY DEF Snapshots, Typed
<1>6. Saved(w, selected) = Append(old, new)
  BY DEF Saved
<1> HIDE DEF old, new
<1>7. /\ Append(old, new) \in Seq(Snapshots)
      /\ DOMAIN Append(old, new) = 1..(Len(snapshots) + 1)
      /\ \A k \in 1..Len(snapshots) : Append(old, new)[k] = old[k]
      /\ Append(old, new)[Len(snapshots) + 1] = new
  BY <1>1, <1>4, <1>5
<1>8. new.answer = fetched[w] /\ new.active /\ new.selected = selected
  BY DEF new
<1>9. QED BY <1>1, <1>2, <1>6, <1>7, <1>8

(* Only save_snapshot writes snapshots, and only over those it has seen.   *)
LEMMA SnapshotStep ==
  ASSUME Typed, [Next]_vars
  PROVE  \/ UNCHANGED snapshots
         \/ \E w \in Workers, selected \in {s[2] : s \in Selection} :
              Save(w) /\ ActiveIds \subseteq seen[w] /\ snapshots' = Saved(w, selected)
<1>1. ASSUME NEW w \in Workers, Save(w), ~UNCHANGED snapshots
      PROVE  \E selected \in {s[2] : s \in Selection} :
               Save(w) /\ ActiveIds \subseteq seen[w] /\ snapshots' = Saved(w, selected)
  BY <1>1 DEF Save, IndexAllows, Saved
<1>2. ASSUME NEW w \in Workers,
             \/ TryLock(w) \/ (\E a \in DOMAIN Said : Fetch(w, a)) \/ ProvidersFail(w)
             \/ ReplaceInstruments(w) \/ Supersede(w) \/ Unlock(w) \/ Follow(w)
             \/ RefreshDue(w) \/ Start(w) \/ Crash(w) \/ LoseLock(w)
      PROVE  UNCHANGED snapshots
  BY <1>2 DEF TryLock, Fetch, ProvidersFail, ReplaceInstruments, Supersede, Unlock, Follow,
              RefreshDue, Start, Crash, LoseLock, rows
<1>3. CASE UNCHANGED vars
  BY <1>3 DEF vars, rows
<1>4. QED BY <1>1, <1>2, <1>3 DEF Next, Refreshing

LEMMA TypedStep ==
  ASSUME Typed, [Next]_vars
  PROVE  Typed'
<1>1. snapshots' \in Seq(Snapshots)
  <2>1. CASE UNCHANGED snapshots
    BY <2>1 DEF Typed
  <2>2. ASSUME NEW w \in Workers, NEW selected \in {s[2] : s \in Selection},
               snapshots' = Saved(w, selected)
        PROVE snapshots' \in Seq(Snapshots)
    BY <2>2, SavedRows
  <2>3. QED BY <2>1, <2>2, SnapshotStep
<1>2. Len(answers) \in Nat /\ \A a \in DOMAIN Said : Append(answers, a) \in Seq(DOMAIN Said)
  BY DEF Typed
<1>3. ActiveIds \subseteq Nat
  BY DEF ActiveIds, Typed
<1>4. ASSUME NEW w \in Workers,
             \/ TryLock(w) \/ (\E a \in DOMAIN Said : Fetch(w, a)) \/ ProvidersFail(w)
             \/ ReplaceInstruments(w) \/ Supersede(w) \/ Save(w)
      PROVE  Typed'
  <2>1. CASE TryLock(w)
    BY <1>1, <2>1 DEF Typed, Steps, TryLock, Go, rows, history
  <2>2. ASSUME NEW a \in DOMAIN Said, Fetch(w, a) PROVE Typed'
    BY <1>1, <1>2, <2>2 DEF Typed, Steps, Fetch, Go, rows
  <2>3. CASE ProvidersFail(w)
    BY <1>1, <2>3 DEF Typed, Steps, ProvidersFail, StepAfterFailure, Go, rows, history
  <2>4. CASE ReplaceInstruments(w)
    BY <1>1, <2>4 DEF Typed, Steps, ReplaceInstruments, Go
  <2>5. CASE Supersede(w)
    BY <1>1, <1>3, <2>5 DEF Typed, Steps, Supersede, Go, rows, history
  <2>6. CASE Save(w)
    <3>1. UNCHANGED <<answers, written, fetched, seen, overlapping>>
      BY <2>6 DEF Save, history
    <3>2. pc' \in [Workers -> Steps]
      BY <2>6 DEF Save, Go, Typed, Steps
    <3>3. QED BY <1>1, <3>1, <3>2 DEF Typed
  <2>7. QED BY <1>4, <2>1, <2>2, <2>3, <2>4, <2>5, <2>6
<1>5. ASSUME NEW w \in Workers,
             Unlock(w) \/ Follow(w) \/ RefreshDue(w) \/ Start(w) \/ Crash(w) \/ LoseLock(w)
      PROVE  Typed'
  BY <1>1, <1>5 DEF Typed, Steps, Unlock, Follow, RefreshDue, Start, Crash, LoseLock, Go,
                    rows, work, history
<1>6. CASE UNCHANGED vars
  BY <1>6 DEF vars, rows, work, history, Typed
<1>7. QED BY <1>4, <1>5, <1>6 DEF Next, Refreshing

THEOREM RefreshTyped == Spec => []Typed
<1>1. Init => Typed
  <2> SUFFICES ASSUME Init PROVE Typed
    OBVIOUS
  <2>1. snapshots \in Seq(Snapshots) /\ answers \in Seq(DOMAIN Said)
    BY DEF Init
  <2>2. QED BY <2>1 DEF Init, Typed, Steps
<1>2. Typed /\ [Next]_vars => Typed'
  BY TypedStep
<1>3. QED BY <1>1, <1>2, PTL DEF Spec

-----------------------------------------------------------------------------
(* There is never more than one active snapshot, and always one once there *)
(* is any. A save that commits has seen every active snapshot, so it       *)
(* leaves its own as the only one; this does not depend on the lock.       *)
OneActive ==
  /\ \A j, k \in ActiveIds : j = k
  /\ snapshots # <<>> => ActiveIds # {}

LEMMA OneActiveStep ==
  ASSUME Typed, OneActive, [Next]_vars
  PROVE  OneActive'
<1>1. CASE UNCHANGED snapshots
  BY <1>1 DEF OneActive, ActiveIds
<1>2. ASSUME NEW w \in Workers, NEW selected \in {s[2] : s \in Selection},
             ActiveIds \subseteq seen[w], snapshots' = Saved(w, selected)
      PROVE  OneActive'
  <2>1. ActiveIds' = {Len(snapshots) + 1}
    <3>1. \A k \in 1..Len(snapshots) : ~snapshots'[k].active
      BY <1>2, SavedRows DEF ActiveIds
    <3>2. snapshots'[Len(snapshots) + 1].active
      BY <1>2, SavedRows
    <3>3. DOMAIN snapshots' = 1..(Len(snapshots) + 1) /\ Len(snapshots) \in Nat
      BY <1>2, SavedRows
    <3>4. QED BY <3>1, <3>2, <3>3 DEF ActiveIds
  <2>2. QED BY <2>1 DEF OneActive
<1>3. QED BY <1>1, <1>2, SnapshotStep

(* Exactly one universe is active once there is one, whatever fails and    *)
(* however refreshes overlap (save_snapshot and the index on is_active).   *)
THEOREM RefreshOneUniverse == Spec => []OneUniverse
<1>1. Init => OneActive
  BY DEF Init, OneActive, ActiveIds
<1>2. Typed /\ OneActive /\ [Next]_vars => OneActive'
  BY OneActiveStep
<1>3. OneActive => OneUniverse
  <2> SUFFICES ASSUME OneActive PROVE Cardinality(ActiveIds) <= 1
    BY DEF OneActive, OneUniverse
  <2>1. CASE ActiveIds = {}
    BY <2>1, FS_EmptySet
  <2>2. ASSUME NEW k \in ActiveIds PROVE Cardinality(ActiveIds) <= 1
    <3>1. ActiveIds = {k}
      BY <2>2 DEF OneActive
    <3>2. Cardinality({k}) = 1
      BY FS_Singleton
    <3>3. QED BY <3>1, <3>2
  <2>3. QED BY <2>1, <2>2
<1>4. QED BY <1>1, <1>2, <1>3, RefreshTyped, PTL DEF Spec

-----------------------------------------------------------------------------
(* While no lock is lost, only its holder is between the lock and the end  *)
(* of its refresh, and from the answer on it works on the newest one, which*)
(* is newer than everything saved.                                         *)
HeldByOne ==
  \A w \in Workers :
    pc[w] \in {"fetch", "replace", "supersede", "save", "unlock", "fail"} => lock = w

WorksOnNewest ==
  \A w \in Workers :
    /\ pc[w] \in {"replace", "supersede", "save"} =>
         /\ fetched[w] = Len(answers)
         /\ \A k \in DOMAIN snapshots : snapshots[k].answer < fetched[w]
    /\ pc[w] \in {"supersede", "save"} => written = fetched[w]

OrderInvariant ==
  ~overlapping => HeldByOne /\ WorksOnNewest /\ AnswersMoveOn /\ written <= Len(answers)

LEMMA OrderStep ==
  ASSUME Typed, OrderInvariant, [Next]_vars
  PROVE  OrderInvariant'
<1> SUFFICES ASSUME ~overlapping' PROVE OrderInvariant'
  BY DEF OrderInvariant
<1>1. Len(answers) \in Nat /\ \A a \in DOMAIN Said : Len(Append(answers, a)) = Len(answers) + 1
  BY DEF Typed
<1>2. /\ Len(snapshots) \in Nat
      /\ DOMAIN snapshots = 1..Len(snapshots)
      /\ \A k \in DOMAIN snapshots : snapshots[k].answer \in Nat
  <2>1. /\ Len(snapshots) \in Nat
        /\ DOMAIN snapshots = 1..Len(snapshots)
        /\ \A k \in DOMAIN snapshots : snapshots[k] \in Snapshots
    BY DEF Typed
  <2>2. \A r \in Snapshots : r.answer \in Nat
    BY DEF Snapshots
  <2>3. QED BY <2>1, <2>2
<1> DEFINE Now == HeldByOne /\ WorksOnNewest /\ AnswersMoveOn /\ written <= Len(answers)
<1>3. ASSUME Now, NEW w \in Workers, TryLock(w) PROVE Now'
  <2>1. UNCHANGED <<snapshots, answers, fetched, written>>
    BY <1>3 DEF TryLock, rows, history
  <2>2. \/ lock = NoWorker /\ lock' = w /\ pc' = [pc EXCEPT ![w] = "fetch"]
        \/ lock' = lock /\ pc' = [pc EXCEPT ![w] = "follow"]
    BY <1>3 DEF TryLock, MayLock, Go
  <2>3. HeldByOne' /\ \A v \in Workers : pc'[v] \in {"replace", "supersede", "save"} => pc'[v] = pc[v]
    BY <1>3, <2>2 DEF HeldByOne, Typed
  <2>4. QED BY <1>3, <2>1, <2>3 DEF WorksOnNewest, AnswersMoveOn
<1>4. ASSUME Now, NEW w \in Workers, NEW a \in DOMAIN Said, Fetch(w, a) PROVE Now'
  <2>1. /\ Len(answers') = Len(answers) + 1
        /\ fetched' = [fetched EXCEPT ![w] = Len(answers) + 1]
        /\ pc' = [pc EXCEPT ![w] = "replace"]
        /\ pc[w] = "fetch" /\ lock = w
        /\ UNCHANGED <<snapshots, written, lock>>
    BY <1>1, <1>4 DEF Fetch, Go, HeldByOne, rows
  <2>2. HeldByOne'
    BY <1>4, <2>1 DEF HeldByOne, Typed
  <2>3. \A v \in Workers : v # w => pc[v] \notin {"replace", "supersede", "save"}
    BY <1>4, <2>1 DEF HeldByOne
  <2>4. \A k \in DOMAIN snapshots : snapshots[k].answer < Len(answers) + 1
    BY <1>1, <1>2, <1>4 DEF AnswersMoveOn, Typed
  <2>5. WorksOnNewest'
    BY <2>1, <2>3, <2>4 DEF WorksOnNewest, Typed
  <2>6. AnswersMoveOn'
    BY <1>4, <2>1 DEF AnswersMoveOn
  <2>7. written' <= Len(answers')
    BY <1>1, <1>4, <2>1 DEF Typed
  <2>8. QED BY <2>2, <2>5, <2>6, <2>7
<1>5. ASSUME Now, NEW w \in Workers, ProvidersFail(w) PROVE Now'
  BY <1>5 DEF ProvidersFail, StepAfterFailure, Go, Typed, HeldByOne, WorksOnNewest,
              AnswersMoveOn, rows, history
<1>6. ASSUME Now, NEW w \in Workers, ReplaceInstruments(w) PROVE Now'
  <2>1. /\ written' = fetched[w]
        /\ pc' = [pc EXCEPT ![w] = "supersede"]
        /\ pc[w] = "replace" /\ lock = w
        /\ UNCHANGED <<snapshots, answers, fetched, lock>>
    BY <1>6 DEF ReplaceInstruments, Go, HeldByOne
  <2>2. HeldByOne'
    BY <1>6, <2>1 DEF HeldByOne, Typed
  <2>3. \A v \in Workers : v # w => pc[v] \notin {"replace", "supersede", "save"}
    BY <1>6, <2>1 DEF HeldByOne
  <2>4. WorksOnNewest'
    BY <1>6, <2>1, <2>3 DEF WorksOnNewest, Typed
  <2>5. AnswersMoveOn' /\ written' <= Len(answers')
    BY <1>1, <1>2, <1>6, <2>1 DEF WorksOnNewest, AnswersMoveOn, Typed
  <2>6. QED BY <2>2, <2>4, <2>5
<1>7. ASSUME Now, NEW w \in Workers, Supersede(w) PROVE Now'
  BY <1>7 DEF Supersede, Go, Typed, HeldByOne, WorksOnNewest, AnswersMoveOn, rows, history
<1>8. ASSUME Now, NEW w \in Workers, Save(w) PROVE Now'
  <2>1. /\ pc[w] = "save" /\ lock = w
        /\ \E step \in {"unlock", "fail"} : pc' = [pc EXCEPT ![w] = step]
        /\ UNCHANGED <<answers, fetched, lock, written>>
    BY <1>8 DEF Save, Go, HeldByOne, history
  <2>2. HeldByOne'
    BY <1>8, <2>1 DEF HeldByOne, Typed
  <2>3. \A v \in Workers : pc'[v] \notin {"replace", "supersede", "save"}
    BY <1>8, <2>1 DEF HeldByOne, Typed
  <2>4. AnswersMoveOn'
    <3>1. CASE UNCHANGED snapshots
      BY <1>8, <2>1, <3>1 DEF AnswersMoveOn
    <3>2. ASSUME NEW v \in Workers, NEW selected \in {s[2] : s \in Selection},
                 Save(v), snapshots' = Saved(v, selected)
          PROVE AnswersMoveOn'
      <4>1. v = w
        BY <1>8, <2>1, <3>2 DEF Save, HeldByOne
      <4>2. /\ written = fetched[w]
            /\ \A k \in 1..Len(snapshots) : snapshots[k].answer < fetched[w]
        BY <1>2, <1>8, <2>1 DEF WorksOnNewest
      <4> DEFINE n == Len(snapshots) + 1
      <4>3. /\ DOMAIN snapshots' = 1..n
            /\ \A k \in 1..(n - 1) : snapshots'[k].answer = snapshots[k].answer
            /\ snapshots'[n].answer = fetched[w]
        BY <1>2, <3>2, <4>1, SavedRows
      <4>4. \A j, k \in 1..(n - 1) : j < k => snapshots[j].answer < snapshots[k].answer
        BY <1>2, <1>8 DEF AnswersMoveOn
      <4>5. n \in Nat /\ fetched[w] \in Nat
        BY <1>2 DEF Typed
      <4> HIDE DEF n
      <4>6. \A j, k \in 1..n : j < k => snapshots'[j].answer < snapshots'[k].answer
        <5> TAKE j, k \in 1..n
        <5>1. CASE k = n
          BY <1>2, <4>2, <4>3, <4>5, <5>1 DEF n
        <5>2. CASE k # n
          BY <4>3, <4>4, <4>5, <5>2
        <5>3. QED BY <5>1, <5>2
      <4>7. \A k \in 1..n : snapshots'[k].answer <= written'
        BY <1>2, <2>1, <4>2, <4>3, <4>5 DEF n
      <4>8. QED BY <4>3, <4>6, <4>7 DEF AnswersMoveOn
    <3>3. QED BY <3>1, <3>2, SnapshotStep
  <2>5. QED BY <1>8, <2>1, <2>2, <2>3, <2>4 DEF WorksOnNewest
<1>9. ASSUME Now, NEW w \in Workers, Unlock(w) \/ Crash(w) PROVE Now'
  BY <1>9 DEF Unlock, Crash, Go, Typed, HeldByOne, WorksOnNewest, AnswersMoveOn, rows, history
<1>10. ASSUME Now, NEW w \in Workers, Follow(w) \/ RefreshDue(w) \/ Start(w) PROVE Now'
  BY <1>10 DEF Follow, RefreshDue, Start, Go, Typed, HeldByOne, WorksOnNewest, AnswersMoveOn,
               rows, history
<1>11. ASSUME NEW w \in Workers PROVE ~LoseLock(w)
  BY DEF LoseLock
<1>12. ASSUME Now, UNCHANGED vars PROVE Now'
  BY <1>12 DEF vars, rows, work, history, HeldByOne, WorksOnNewest, AnswersMoveOn
<1>13. ~overlapping
  BY DEF Next, Refreshing, TryLock, Fetch, ProvidersFail, ReplaceInstruments, Supersede, Save,
         Unlock, Follow, RefreshDue, Start, Crash, LoseLock, vars, rows, work, history
<1>14. QED
  BY <1>3, <1>4, <1>5, <1>6, <1>7, <1>8, <1>9, <1>10, <1>11, <1>12, <1>13
     DEF OrderInvariant, Next, Refreshing

(* While no worker loses its lock, each universe is from a newer answer    *)
(* than the one before it, and never newer than the instrument rows        *)
(* (refresh_lock; replace_active_set before save_snapshot).                *)
THEOREM RefreshMovesOn == Spec => [](~overlapping => AnswersMoveOn)
<1>1. Init => OrderInvariant
  BY DEF Init, OrderInvariant, HeldByOne, WorksOnNewest, AnswersMoveOn
<1>2. Typed /\ OrderInvariant /\ [Next]_vars => OrderInvariant'
  BY OrderStep
<1>3. OrderInvariant => (~overlapping => AnswersMoveOn)
  BY DEF OrderInvariant
<1>4. QED BY <1>1, <1>2, <1>3, RefreshTyped, PTL DEF Spec

-----------------------------------------------------------------------------
(* Every snapshot is the selection of the answer it names, and the rows of *)
(* what that answer lists are there before it: a refresh works on one      *)
(* answer and writes the rows first, and no row is ever deleted. No lock   *)
(* is needed for it.                                                       *)
Listed(name) == Symbols(Said[name].instruments)

SnapshotsFit ==
  \A k \in DOMAIN snapshots :
    /\ snapshots[k].answer \in DOMAIN answers
    /\ snapshots[k].selected = Selected(Evaluate(Said[answers[snapshots[k].answer]]))

WorkFits ==
  \A w \in Workers :
    /\ pc[w] \in {"replace", "supersede", "save"} => fetched[w] \in DOMAIN answers
    /\ pc[w] \in {"supersede", "save"} => Listed(answers[fetched[w]]) \subseteq DOMAIN instruments

SelectionInvariant == SnapshotsFit /\ WorkFits /\ MembersHaveRows

LEMMA SelectedOf ==
  ASSUME NEW a \in DOMAIN Said
  PROVE  /\ {s[2] : s \in {t \in Selection : t[1] = a}} = {Selected(Evaluate(Said[a]))}
         /\ {l[2] : l \in {t \in Listing : t[1] = a}} = {Listed(a)}
<1>1. {t \in Selection : t[1] = a} = {<<a, Selected(Evaluate(Said[a]))>>}
  BY DEF Selection
<1>2. {t \in Listing : t[1] = a} = {<<a, Listed(a)>>}
  BY DEF Listing, Listed
<1> DEFINE S == {t \in Selection : t[1] = a}
           L == {t \in Listing : t[1] = a}
           both == <<a, Selected(Evaluate(Said[a]))>>
           pair == <<a, Listed(a)>>
<1>3. S = {both} /\ L = {pair} /\ both[2] = Selected(Evaluate(Said[a])) /\ pair[2] = Listed(a)
  BY <1>1, <1>2
<1> HIDE DEF S, L, both, pair
<1>4. {s[2] : s \in S} = {both[2]} /\ {l[2] : l \in L} = {pair[2]}
  BY <1>3
<1>5. {s[2] : s \in S} = {Selected(Evaluate(Said[a]))} /\ {l[2] : l \in L} = {Listed(a)}
  BY <1>3, <1>4
<1>6. QED BY <1>5 DEF S, L

(* What a step does to the answers and the rows.                           *)
LEMMA AnswersStay ==
  ASSUME Typed, [Next]_vars
  PROVE  /\ DOMAIN answers \subseteq DOMAIN answers'
         /\ \A k \in DOMAIN answers : answers'[k] = answers[k] /\ answers[k] \in DOMAIN Said
<1>1. /\ DOMAIN answers = 1..Len(answers) /\ Len(answers) \in Nat
      /\ \A k \in DOMAIN answers : answers[k] \in DOMAIN Said
  BY DEF Typed
<1>2. ASSUME NEW a \in DOMAIN Said, answers' = Append(answers, a)
      PROVE  /\ DOMAIN answers \subseteq DOMAIN answers'
             /\ \A k \in DOMAIN answers : answers'[k] = answers[k]
  BY <1>1, <1>2 DEF Typed
<1>3. \/ UNCHANGED answers
      \/ \E a \in DOMAIN Said : answers' = Append(answers, a)
  BY DEF Next, Refreshing, TryLock, Fetch, ProvidersFail, ReplaceInstruments, Supersede, Save,
         Unlock, Follow, RefreshDue, Start, Crash, LoseLock, vars, history
<1>4. QED BY <1>1, <1>2, <1>3

LEMMA RowsStay ==
  ASSUME Typed, [Next]_vars
  PROVE  DOMAIN instruments \subseteq DOMAIN instruments'
<1>1. ASSUME NEW w \in Workers, ReplaceInstruments(w)
      PROVE  DOMAIN instruments \subseteq DOMAIN instruments'
  BY <1>1 DEF ReplaceInstruments
<1>2. UNCHANGED instruments \/ \E w \in Workers : ReplaceInstruments(w)
  BY DEF Next, Refreshing, TryLock, Fetch, ProvidersFail, Supersede, Save, Unlock, Follow,
         RefreshDue, Start, Crash, LoseLock, vars, rows
<1>3. QED BY <1>1, <1>2

LEMMA WorkStep ==
  ASSUME Typed, WorkFits, [Next]_vars
  PROVE  WorkFits'
<1> USE AnswersStay, RowsStay
<1>1. ASSUME NEW v \in Workers, pc'[v] = pc[v], fetched'[v] = fetched[v]
      PROVE  /\ pc'[v] \in {"replace", "supersede", "save"} => fetched'[v] \in DOMAIN answers'
             /\ pc'[v] \in {"supersede", "save"} =>
                  Listed(answers'[fetched'[v]]) \subseteq DOMAIN instruments'
  BY <1>1 DEF WorkFits
<1> DEFINE Fits(v) == /\ pc'[v] \in {"replace", "supersede", "save"} => fetched'[v] \in DOMAIN answers'
                      /\ pc'[v] \in {"supersede", "save"} =>
                           Listed(answers'[fetched'[v]]) \subseteq DOMAIN instruments'
<1>2. ASSUME NEW w \in Workers, NEW a \in DOMAIN Said, Fetch(w, a), NEW v \in Workers
      PROVE  Fits(v)
  <2>1. CASE v = w
    <3>1. pc'[w] = "replace" /\ fetched'[w] = Len(answers) + 1 /\ answers' = Append(answers, a)
      BY <1>2 DEF Fetch, Go, Typed
    <3>2. Len(answers) + 1 \in DOMAIN answers'
      BY <3>1 DEF Typed
    <3>3. QED BY <2>1, <3>1, <3>2
  <2>2. CASE v # w
    BY <1>1, <1>2, <2>2 DEF Fetch, Go, Typed
  <2>3. QED BY <2>1, <2>2
<1>3. ASSUME NEW w \in Workers, ReplaceInstruments(w), NEW v \in Workers
      PROVE  Fits(v)
  <2>1. CASE v = w
    <3>1. pc[w] = "replace" /\ UNCHANGED <<answers, fetched>>
      BY <1>3 DEF ReplaceInstruments
    <3>2. fetched[w] \in DOMAIN answers /\ answers[fetched[w]] \in DOMAIN Said
      BY <3>1 DEF WorkFits
    <3>3. \E listed \in {Listed(answers[fetched[w]])} :
            instruments' = [s \in DOMAIN instruments \cup listed |-> s \in listed]
      BY <1>3, <3>2, SelectedOf DEF ReplaceInstruments
    <3>4. Listed(answers[fetched[w]]) \subseteq DOMAIN instruments'
      BY <3>3
    <3>5. QED BY <2>1, <3>1, <3>2, <3>4
  <2>2. CASE v # w
    BY <1>1, <1>3, <2>2 DEF ReplaceInstruments, Go, Typed
  <2>3. QED BY <2>1, <2>2
<1>4. ASSUME NEW w \in Workers, Supersede(w), NEW v \in Workers
      PROVE  Fits(v)
  <2>1. CASE v = w
    <3>1. pc[w] = "supersede" /\ UNCHANGED <<answers, fetched, instruments>>
      BY <1>4 DEF Supersede, rows, history
    <3>2. QED BY <2>1, <3>1 DEF WorkFits
  <2>2. CASE v # w
    BY <1>1, <1>4, <2>2 DEF Supersede, Go, Typed
  <2>3. QED BY <2>1, <2>2
<1>5. ASSUME NEW w \in Workers,
             TryLock(w) \/ ProvidersFail(w) \/ Save(w) \/ Unlock(w) \/ Follow(w),
             NEW v \in Workers
      PROVE  Fits(v)
  <2>1. CASE v = w
    <3>1. pc'[w] \notin {"replace", "supersede", "save"}
      BY <1>5 DEF TryLock, ProvidersFail, Save, Unlock, Follow, StepAfterFailure, Go, Typed
    <3>2. QED BY <2>1, <3>1
  <2>2. CASE v # w
    <3>1. pc'[v] = pc[v] /\ fetched'[v] = fetched[v]
      BY <1>5, <2>2 DEF TryLock, ProvidersFail, Save, Unlock, Follow, Go, Typed
    <3>2. QED BY <1>1, <3>1
  <2>3. QED BY <2>1, <2>2
<1>6. ASSUME NEW w \in Workers, RefreshDue(w) \/ Start(w) \/ Crash(w) \/ LoseLock(w),
             NEW v \in Workers
      PROVE  Fits(v)
  <2>1. fetched'[v] = fetched[v] /\ (pc'[v] = pc[v] \/ pc'[v] \in {"due", "off"})
    BY <1>6 DEF RefreshDue, Start, Crash, LoseLock, Go, Typed, work
  <2>2. QED BY <1>1, <2>1
<1>7. ASSUME UNCHANGED vars, NEW v \in Workers PROVE Fits(v)
  BY <1>1, <1>7 DEF vars, work
<1>8. WorkFits' <=> \A v \in Workers : Fits(v)
  BY DEF WorkFits
<1> HIDE DEF Fits
<1>9. QED BY <1>2, <1>3, <1>4, <1>5, <1>6, <1>7, <1>8 DEF Next, Refreshing

LEMMA SelectionStep ==
  ASSUME Typed, SelectionInvariant, [Next]_vars
  PROVE  SelectionInvariant'
<1>1. WorkFits'
  BY WorkStep DEF SelectionInvariant
<1>2. CASE UNCHANGED snapshots
  <2>1. SnapshotsFit'
    BY <1>2, AnswersStay DEF SelectionInvariant, SnapshotsFit
  <2>2. MembersHaveRows'
    BY <1>2, RowsStay DEF SelectionInvariant, MembersHaveRows
  <2>3. QED BY <1>1, <2>1, <2>2 DEF SelectionInvariant
<1>3. ASSUME NEW w \in Workers, Save(w), ~UNCHANGED snapshots
      PROVE  SelectionInvariant'
  <2> DEFINE a == answers[fetched[w]]
             n == Len(snapshots) + 1
  <2>1. /\ pc[w] = "save" /\ UNCHANGED <<answers, fetched, instruments>>
        /\ \E selected \in {s[2] : s \in {t \in Selection : t[1] = a}} :
             snapshots' = Saved(w, selected)
    BY <1>3 DEF Save, Saved, history
  <2>2. fetched[w] \in DOMAIN answers /\ a \in DOMAIN Said /\ Listed(a) \subseteq DOMAIN instruments
    BY <2>1, AnswersStay DEF SelectionInvariant, WorkFits
  <2>3. snapshots' = Saved(w, Selected(Evaluate(Said[a])))
    BY <2>1, <2>2, SelectedOf
  <2>4. Selected(Evaluate(Said[a])) \in {s[2] : s \in Selection}
    <3> DEFINE both == <<a, Selected(Evaluate(Said[a]))>>
    <3>1. both \in Selection /\ both[2] = Selected(Evaluate(Said[a]))
      BY <2>2 DEF Selection
    <3> HIDE DEF both
    <3>2. both[2] \in {s[2] : s \in Selection}
      BY <3>1
    <3>3. QED BY <3>1, <3>2
  <2>5. Selected(Evaluate(Said[a])) \subseteq Listed(a)
    BY SelectedIsListed DEF Listed
  <2>6. /\ DOMAIN snapshots = 1..Len(snapshots) /\ Len(snapshots) \in Nat
        /\ DOMAIN snapshots' = 1..n
        /\ \A k \in 1..Len(snapshots) : /\ snapshots'[k].answer = snapshots[k].answer
                                        /\ snapshots'[k].selected = snapshots[k].selected
        /\ snapshots'[n].answer = fetched[w]
        /\ snapshots'[n].selected = Selected(Evaluate(Said[a]))
    BY <2>3, <2>4, SavedRows
  <2> HIDE DEF a
  <2>7. SnapshotsFit'
    BY <2>1, <2>2, <2>6 DEF SelectionInvariant, SnapshotsFit, a
  <2>8. MembersHaveRows'
    BY <2>1, <2>2, <2>5, <2>6 DEF SelectionInvariant, MembersHaveRows
  <2>9. QED BY <1>1, <2>7, <2>8 DEF SelectionInvariant
<1>4. QED BY <1>2, <1>3, SnapshotStep

THEOREM SelectionInvariantHolds == Spec => []SelectionInvariant
<1>1. Init => SelectionInvariant
  BY DEF Init, SelectionInvariant, SnapshotsFit, WorkFits, MembersHaveRows
<1>2. Typed /\ SelectionInvariant /\ [Next]_vars => SelectionInvariant'
  BY SelectionStep
<1>3. QED BY <1>1, <1>2, RefreshTyped, PTL DEF Spec

(* What is saved are the first Size contracts that eligible assets have in *)
(* order of their rank, each once (UniversePolicy.evaluate, save_snapshot),*)
(* with lost locks and overlapping refreshes too.                          *)
THEOREM RefreshFollowsRank == Spec => []SelectionFollowsRank
<1>1. Typed /\ SelectionInvariant => SelectionFollowsRank
  <2> SUFFICES ASSUME Typed, SelectionInvariant, NEW k \in DOMAIN snapshots
               PROVE  <<answers[snapshots[k].answer], snapshots[k].selected>> \in Expected
    BY DEF SelectionFollowsRank
  <2> DEFINE a == answers[snapshots[k].answer]
  <2>1. a \in DOMAIN Said /\ snapshots[k].selected = Selected(Evaluate(Said[a]))
    BY DEF SelectionInvariant, SnapshotsFit, Typed
  <2>2. Selected(Evaluate(Said[a])) = FirstEligible(Said[a])
    BY <2>1, SaidAssumption, LoopSelectsFirst DEF SaidAssumption
  <2>3. QED BY <2>1, <2>2 DEF Expected
<1>2. QED BY <1>1, SelectionInvariantHolds, RefreshTyped, PTL

(* While no worker loses its lock nothing goes back, and every member of a *)
(* universe always has its row.                                            *)
THEOREM RefreshNothingGoesBack == Spec => []NothingGoesBack
<1>1. SelectionInvariant /\ (~overlapping => AnswersMoveOn) => NothingGoesBack
  BY DEF SelectionInvariant, NothingGoesBack
<1>2. QED BY <1>1, SelectionInvariantHolds, RefreshMovesOn, PTL
=============================================================================
