---------------------------- MODULE StrategyProofs ----------------------------
(***************************************************************************)
(* From the candles to the trades of a signal, for every market, every     *)
(* parameter of the detectors and every plan: what a plan that is not      *)
(* refused is worth, what the candle of a minute makes of its trades, what *)
(* the detectors of smc_core find, keep and report as the candles go by,   *)
(* and that the rules for long and short are mirror images.                *)
(***************************************************************************)
EXTENDS CandleAgreement, StrategyEvaluation, NaturalsInduction, WellFoundedInduction,
        FiniteSetTheorems, SequenceTheorems, TLAPS

(* What holds of the first rounds and of each round after the ones before. *)
LEMMA RoundByRound ==
  ASSUME NEW a \in Nat, NEW n \in Nat, NEW P,
         \A k \in a..n : (k = a \/ k - 1 \in P) => k \in P
  PROVE  \A k \in a..n : k \in P
<1> DEFINE bad == {k \in a..n : k \notin P}
           R == OpToRel(<, Nat)
<1> SUFFICES ASSUME bad # {} PROVE FALSE
  OBVIOUS
<1>1. bad \subseteq Nat
  OBVIOUS
<1>2. PICK x \in bad : \A y \in bad : ~(<<y, x>> \in R)
  BY <1>1, NatLessThanWellFounded, WFMin
<1>3. \A y, z \in Nat : <<y, z>> \in R <=> y < z
  BY DEF OpToRel
<1> HIDE DEF R
<1>4. x \in a..n /\ x \notin P /\ x \in Nat
  OBVIOUS
<1>5. x # a /\ x - 1 \in a..n
  BY <1>4
<1>6. x - 1 \in bad
  BY <1>4, <1>5
<1>7. x - 1 \in Nat /\ x - 1 < x
  BY <1>4, <1>5
<1>8. QED BY <1>2, <1>3, <1>4, <1>6, <1>7

AgreeOn(f, g, a, n) == \A k \in a..n : f[k] = g[k]

(* Two functions that grow by the same rule are the same.                  *)
LEMMA SameRule ==
  ASSUME NEW a \in Nat, NEW n \in Nat, NEW f, NEW g,
         f[a] = g[a] \/ a > n,
         \A k \in (a + 1)..n : f[k - 1] = g[k - 1] => f[k] = g[k]
  PROVE  AgreeOn(f, g, a, n)
<1> DEFINE P == {k \in a..n : f[k] = g[k]}
<1>1. ASSUME NEW k \in a..n, k = a \/ k - 1 \in P PROVE k \in P
  <2>1. CASE k = a
    BY <2>1
  <2>2. CASE k # a
    <3>1. k \in (a + 1)..n /\ f[k - 1] = g[k - 1]
      BY <1>1, <2>2
    <3>2. QED BY <3>1
  <2>3. QED BY <2>1, <2>2
<1> HIDE DEF P
<1>2. \A k \in a..n : k \in P
  BY <1>1, RoundByRound
<1>3. QED BY <1>2 DEF P, AgreeOn

LEMMA SameFromZero ==
  ASSUME NEW n \in Nat, NEW f, NEW g, f[0] = g[0],
         \A k \in 1..n : f[k - 1] = g[k - 1] => f[k] = g[k]
  PROVE  AgreeOn(f, g, 0, n)
<1>1. 0 \in Nat /\ 0 + 1 = 1
  OBVIOUS
<1>2. \A k \in (0 + 1)..n : f[k - 1] = g[k - 1] => f[k] = g[k]
  BY <1>1
<1>3. QED BY <1>1, <1>2, SameRule

(* A rule that leads from one value of a set to another has a function     *)
(* that follows it.                                                        *)
Follows(g, a, n, base, step) ==
  \A k \in a..n : g[k] = IF k = a THEN base ELSE step[k][g[k - 1]]

LEMMA RuleIsFollowed ==
  ASSUME NEW a \in Nat, NEW n \in Nat, NEW X, NEW base \in X, NEW step \in [a..n -> [X -> X]]
  PROVE  \E g \in [a..n -> X] : Follows(g, a, n, base, step)
<1> DEFINE Rule(g, m) == /\ g \in [a..m -> X]
                         /\ \A k \in a..m : g[k] = IF k = a THEN base ELSE step[k][g[k - 1]]
           P == {m \in a..n : \E g : Rule(g, m)}
<1>1. ASSUME NEW m \in a..n, m = a \/ m - 1 \in P PROVE m \in P
  <2>1. CASE m = a
    <3> DEFINE g == [k \in a..m |-> base]
    <3>1. Rule(g, m)
      BY <2>1
    <3>2. QED BY <3>1
  <2>2. CASE m # a
    <3>1. m - 1 \in P /\ m - 1 \in a..n
      BY <1>1, <2>2
    <3>2. PICK g : Rule(g, m - 1)
      BY <3>1
    <3> DEFINE h == [k \in a..m |-> IF k = a THEN base ELSE step[k][g[k - 1]]]
    <3>3. \A k \in a..(m - 1) : h[k] = g[k] /\ k \in a..m
      BY <3>2
    <3>4. \A k \in a..m : k # a => k - 1 \in a..(m - 1) /\ k \in a..n
      BY <3>1
    <3>5. \A k \in a..m : k # a => g[k - 1] \in X /\ step[k] \in [X -> X]
      BY <3>2, <3>4
    <3>6. h \in [a..m -> X]
      BY <3>5
    <3>7. \A k \in a..m : h[k] = IF k = a THEN base ELSE step[k][h[k - 1]]
      BY <3>3, <3>4
    <3>8. Rule(h, m)
      BY <3>6, <3>7
    <3>9. QED BY <3>8
  <2>3. QED BY <2>1, <2>2
<1> HIDE DEF P, Rule
<1>2. \A m \in a..n : m \in P
  BY <1>1, RoundByRound
<1>3. CASE n \in a..n
  <2>1. PICK g : Rule(g, n)
    BY <1>2, <1>3 DEF P
  <2>2. QED BY <2>1 DEF Rule, Follows
<1>4. CASE n \notin a..n
  <2>1. a..n = {}
    BY <1>4
  <2>2. QED BY <2>1 DEF Follows
<1>5. QED BY <1>3, <1>4

-----------------------------------------------------------------------------
(* The swings the scans look at: known SwingLookback candles after their   *)
(* own, and one of a kind for a candle.                                    *)
ApartSwings(S) ==
  /\ \A s \in S : /\ s.kind \in {"high", "low"} /\ s.index \in Nat /\ s.price \in Int
                  /\ s.confirmed = s.index + SwingLookback
  /\ \A s, t \in S : s.kind = t.kind /\ s.index = t.index => s = t

(* The latest swing of a kind that no candle before i has hit, and the one *)
(* that is left after candle i.                                            *)
Facing(kind, i, S, H) ==
  {s \in S : /\ s.kind = kind /\ LatestAt(i, s, S)
             /\ \A j \in (s.confirmed + 1)..(i - 1) : <<j, s>> \notin H}

Standing(kind, i, S, H) ==
  {s \in S : /\ s.kind = kind /\ LatestAt(i, s, S)
             /\ \A j \in (s.confirmed + 1)..i : <<j, s>> \notin H}

LEMMA Lookback == SwingLookback \in Nat \ {0}
  BY StructureAssumption

LEMMA StandingIsFacing ==
  ASSUME NEW S, ApartSwings(S), NEW H, NEW i \in Nat, NEW kind
  PROVE  Standing(kind, i, S, H) = {s \in Facing(kind, i, S, H) : <<i, s>> \notin H}
<1>1. ASSUME NEW s \in S, LatestAt(i, s, S)
      PROVE  (\A j \in (s.confirmed + 1)..i : <<j, s>> \notin H)
               <=> <<i, s>> \notin H /\ \A j \in (s.confirmed + 1)..(i - 1) : <<j, s>> \notin H
  <2>1. s.confirmed \in Nat /\ s.confirmed < i
    BY <1>1, Lookback DEF ApartSwings, LatestAt
  <2>2. \A j : j \in (s.confirmed + 1)..i <=> j = i \/ j \in (s.confirmed + 1)..(i - 1)
    BY <2>1
  <2>3. QED BY <2>2
<1>2. QED BY <1>1 DEF Standing, Facing

LEMMA FacingIsLatest ==
  ASSUME NEW S, ApartSwings(S), NEW H, NEW i \in Nat \ {0}, NEW kind
  PROVE  Latest(kind, i, S, Standing(kind, i - 1, S, H)) = Facing(kind, i, S, H)
<1> DEFINE new == {s \in S : s.kind = kind /\ s.confirmed + 1 = i}
<1>1. \A s \in S : s.confirmed \in Nat /\ s.index \in Nat /\ s.confirmed = s.index + SwingLookback
  BY Lookback DEF ApartSwings
<1>2. CASE new # {}
  <2>1. PICK t \in new : TRUE
    BY <1>2
  <2>2. t \in S /\ t.kind = kind /\ t.confirmed + 1 = i
    OBVIOUS
  <2>3. ASSUME NEW s \in S, s.kind = kind PROVE s = t \/ s.index # t.index
    BY <2>2, <2>3 DEF ApartSwings
  <2>4. ASSUME NEW s \in new PROVE s = t
    BY <1>1, <2>2, <2>3, Lookback
  <2>5. LatestAt(i, t, S)
    BY <1>1, <2>2, Lookback DEF LatestAt
  <2>6. t \in Facing(kind, i, S, H)
    <3>1. (t.confirmed + 1)..(i - 1) = {}
      BY <1>1, <2>2
    <3>2. QED BY <2>2, <2>5, <3>1 DEF Facing
  <2>7. ASSUME NEW s \in Facing(kind, i, S, H) PROVE s = t
    <3>1. s \in S /\ s.kind = kind /\ s.confirmed < i /\ ~(s.index < t.index)
      BY <1>1, <2>2, <2>7 DEF Facing, LatestAt
    <3>2. s.index <= t.index
      BY <1>1, <2>2, <3>1, Lookback
    <3>3. QED BY <1>1, <2>2, <2>3, <3>1, <3>2
  <2>8. Facing(kind, i, S, H) = {t} /\ new = {t}
    BY <2>1, <2>4, <2>6, <2>7
  <2>9. QED BY <1>2, <2>8 DEF Latest
<1>3. CASE new = {}
  <2>1. ASSUME NEW s \in S, s.kind = kind PROVE s.confirmed < i <=> s.confirmed < i - 1
    BY <1>1, <1>3, <2>1
  <2>2. ASSUME NEW s \in S, s.kind = kind PROVE LatestAt(i, s, S) <=> LatestAt(i - 1, s, S)
    BY <2>1, <2>2 DEF LatestAt
  <2>3. Standing(kind, i - 1, S, H) = Facing(kind, i, S, H)
    BY <2>2 DEF Standing, Facing
  <2>4. QED BY <1>3, <2>3 DEF Latest
<1>4. QED BY <1>2, <1>3

LEMMA NoneStandsAtFirst ==
  ASSUME NEW S, ApartSwings(S), NEW H, NEW kind
  PROVE  Standing(kind, 0, S, H) = {}
  BY Lookback DEF Standing, LatestAt, ApartSwings

-----------------------------------------------------------------------------
(* Candles as the detectors take them, with prices of either sign.         *)
Candles ==
  {c \in [open : Int, high : Int, low : Int, close : Int] :
     {c.open, c.close} \subseteq c.low..c.high}

LEMMA CandleAt ==
  ASSUME NEW cs \in Seq(Candles), NEW i \in 1..Len(cs)
  PROVE  /\ cs[i].open \in Int /\ cs[i].high \in Int /\ cs[i].low \in Int /\ cs[i].close \in Int
         /\ cs[i].low <= cs[i].open /\ cs[i].open <= cs[i].high
         /\ cs[i].low <= cs[i].close /\ cs[i].close <= cs[i].high
<1>1. cs[i] \in Candles
  OBVIOUS
<1>2. QED BY <1>1 DEF Candles

(* Who closes beyond which swing, who sweeps over it, and who does so      *)
(* first.                                                                  *)
Closings(cs, S) == {p \in (DOMAIN cs) \X S : ClosesBeyond(cs[p[1]], p[2])}
Sweepings(cs, S) == {p \in (DOMAIN cs) \X S : SweepsOver(cs[p[1]], p[2])}

First(S, H) == {p \in H : p[2] \in Facing(p[2].kind, p[1], S, H)}
FirstUntil(i, S, H) == {p \in First(S, H) : p[1] <= i}
FirstAt(i, S, H) ==
  {<<i, s>> : s \in {t \in Facing("high", i, S, H) \cup Facing("low", i, S, H) : <<i, t>> \in H}}

LEMMA FacingFacts ==
  ASSUME NEW S, ApartSwings(S), NEW H, NEW i \in Nat, NEW kind
  PROVE  /\ \A s \in Facing(kind, i, S, H) : s \in S /\ s.kind = kind /\ s.confirmed < i
         /\ \A s, t \in Facing(kind, i, S, H) : s = t
<1>1. ASSUME NEW s \in Facing(kind, i, S, H), NEW t \in Facing(kind, i, S, H) PROVE s = t
  <2>1. s \in S /\ t \in S /\ s.kind = kind /\ t.kind = kind /\ LatestAt(i, s, S) /\ LatestAt(i, t, S)
    BY DEF Facing
  <2>2. s.index \in Nat /\ t.index \in Nat /\ ~(s.index < t.index) /\ ~(t.index < s.index)
    BY <2>1 DEF LatestAt, ApartSwings
  <2>3. s.index = t.index
    BY <2>2
  <2>4. QED BY <2>1, <2>3 DEF ApartSwings
<1>2. QED BY <1>1 DEF Facing, LatestAt

LEMMA FirstBreaks ==
  ASSUME NEW cs \in Seq(Candles), NEW S, ApartSwings(S)
  PROVE  FirstTo(ClosesBeyond, cs, S) = First(S, Closings(cs, S))
<1> DEFINE H == Closings(cs, S)
<1>1. ASSUME NEW p \in (DOMAIN cs) \X S, LatestAt(p[1], p[2], S)
      PROVE  (~\E j \in (p[2].confirmed + 1)..(p[1] - 1) : ClosesBeyond(cs[j], p[2]))
               <=> \A j \in (p[2].confirmed + 1)..(p[1] - 1) : <<j, p[2]>> \notin H
  <2>1. p[2] \in S /\ p[2].confirmed \in Nat /\ p[1] \in 1..Len(cs)
    BY Lookback DEF ApartSwings
  <2>2. \A j \in (p[2].confirmed + 1)..(p[1] - 1) : j \in DOMAIN cs
    BY <2>1
  <2>3. \A j \in (p[2].confirmed + 1)..(p[1] - 1) :
          <<j, p[2]>> \in H <=> ClosesBeyond(cs[j], p[2])
    BY <2>1, <2>2 DEF Closings
  <2>4. QED BY <2>3
<1>2. \A p \in H : p \in (DOMAIN cs) \X S
  BY DEF Closings
<1>3. QED BY <1>1, <1>2 DEF FirstTo, First, Facing, Closings

LEMMA FirstSweeps ==
  ASSUME NEW cs \in Seq(Candles), NEW S, ApartSwings(S)
  PROVE  FirstTo(SweepsOver, cs, S) = First(S, Sweepings(cs, S))
<1> DEFINE H == Sweepings(cs, S)
<1>1. ASSUME NEW p \in (DOMAIN cs) \X S, LatestAt(p[1], p[2], S)
      PROVE  (~\E j \in (p[2].confirmed + 1)..(p[1] - 1) : SweepsOver(cs[j], p[2]))
               <=> \A j \in (p[2].confirmed + 1)..(p[1] - 1) : <<j, p[2]>> \notin H
  <2>1. p[2] \in S /\ p[2].confirmed \in Nat /\ p[1] \in 1..Len(cs)
    BY Lookback DEF ApartSwings
  <2>2. \A j \in (p[2].confirmed + 1)..(p[1] - 1) : j \in DOMAIN cs
    BY <2>1
  <2>3. \A j \in (p[2].confirmed + 1)..(p[1] - 1) :
          <<j, p[2]>> \in H <=> SweepsOver(cs[j], p[2])
    BY <2>1, <2>2 DEF Sweepings
  <2>4. QED BY <2>3
<1>2. \A p \in H : p \in (DOMAIN cs) \X S
  BY DEF Sweepings
<1>3. QED BY <1>1, <1>2 DEF FirstTo, First, Facing, Sweepings

(* The first hits up to a candle are the ones before it and its own.       *)
LEMMA FirstStep ==
  ASSUME NEW S, ApartSwings(S), NEW H, H \subseteq (Nat \ {0}) \X S, NEW i \in Nat \ {0}
  PROVE  /\ FirstUntil(0, S, H) = {}
         /\ FirstUntil(i, S, H) = FirstUntil(i - 1, S, H) \cup FirstAt(i, S, H)
<1>1. \A p \in H : p[1] \in Nat \ {0} /\ p[2] \in S /\ p = <<p[1], p[2]>>
  OBVIOUS
<1>2. FirstUntil(0, S, H) = {}
  BY <1>1 DEF FirstUntil, First
<1>3. \A p \in H : p[1] <= i <=> p[1] <= i - 1 \/ p[1] = i
  BY <1>1
<1>4. \A s \in S : s.kind \in {"high", "low"}
  BY DEF ApartSwings
<1>5. \A s : s \in Facing("high", i, S, H) => s \in S /\ s.kind = "high"
  BY DEF Facing
<1>6. \A s : s \in Facing("low", i, S, H) => s \in S /\ s.kind = "low"
  BY DEF Facing
<1> DEFINE own == FirstAt(i, S, H)
<1>7. ASSUME NEW p \in First(S, H), p[1] = i PROVE p \in own
  <2>1. p \in H /\ p[2] \in Facing(p[2].kind, i, S, H) /\ p = <<i, p[2]>> /\ p[2] \in S
    BY <1>1, <1>7 DEF First
  <2>2. QED BY <1>4, <2>1 DEF FirstAt
<1>8. ASSUME NEW p \in own PROVE p \in First(S, H) /\ p[1] = i
  <2>1. PICK s \in Facing("high", i, S, H) \cup Facing("low", i, S, H) :
          p = <<i, s>> /\ <<i, s>> \in H
    BY <1>8 DEF FirstAt
  <2>2. s \in Facing(s.kind, i, S, H)
    BY <1>5, <1>6
  <2>3. p \in H /\ p[1] = i /\ p[2] = s
    BY <2>1
  <2>4. QED BY <2>2, <2>3 DEF First
<1> HIDE DEF own
<1>9. FirstUntil(i, S, H) \subseteq FirstUntil(i - 1, S, H) \cup own
  BY <1>3, <1>7 DEF FirstUntil, First
<1>10. FirstUntil(i - 1, S, H) \cup own \subseteq FirstUntil(i, S, H)
  BY <1>3, <1>8 DEF FirstUntil, First
<1>11. QED BY <1>2, <1>9, <1>10 DEF own

-----------------------------------------------------------------------------
(* The sweep scan, without a scan.                                         *)
SweepOf(p) == Sweep(IF p[2].kind = "high" THEN "bearish" ELSE "bullish", p[1], p[2])

SweepState(i, cs, S) ==
  [high |-> Standing("high", i, S, Sweepings(cs, S)),
   low |-> Standing("low", i, S, Sweepings(cs, S)),
   sweeps |-> {SweepOf(p) : p \in FirstUntil(i, S, Sweepings(cs, S))}]

LEMMA SweepStep ==
  ASSUME NEW cs \in Seq(Candles), NEW S, ApartSwings(S), NEW i \in 1..Len(cs)
  PROVE  SweepScan(SweepState(i - 1, cs, S), i, cs[i], S) = SweepState(i, cs, S)
<1> DEFINE H == Sweepings(cs, S)
           c == cs[i]
           high == Facing("high", i, S, H)
           low == Facing("low", i, S, H)
           above == {s \in high : c.high > s.price /\ s.price > c.close}
           below == {s \in low : c.low < s.price /\ s.price < c.close}
           before == SweepState(i - 1, cs, S)
<1>1. H \subseteq (Nat \ {0}) \X S /\ i \in Nat \ {0} /\ i \in Nat
  BY DEF Sweepings
<1>2. Latest("high", i, S, before.high) = high /\ Latest("low", i, S, before.low) = low
  BY <1>1, FacingIsLatest DEF SweepState
<1>3. \A s \in S : <<i, s>> \in H <=> SweepsOver(c, s)
  BY DEF Sweepings
<1>4. above = {s \in high : <<i, s>> \in H}
  BY <1>3 DEF Facing, SweepsOver
<1>5. below = {s \in low : <<i, s>> \in H}
  BY <1>3 DEF Facing, SweepsOver
<1>6. high \ above = Standing("high", i, S, H) /\ low \ below = Standing("low", i, S, H)
  <2>1. /\ Standing("high", i, S, H) = {s \in high : <<i, s>> \notin H}
        /\ Standing("low", i, S, H) = {s \in low : <<i, s>> \notin H}
    BY <1>1, StandingIsFacing
  <2> HIDE DEF H, high, low, above, below
  <2>2. QED BY <1>4, <1>5, <2>1
<1>7. \A s \in above : s.kind = "high"
  BY DEF Facing
<1>8. \A s \in below : s.kind = "low"
  BY DEF Facing
<1> HIDE DEF H, c, high, low
<1>9. FirstUntil(i, S, H) = FirstUntil(i - 1, S, H) \cup {<<i, s>> : s \in above \cup below}
  <2>1. above \cup below = {t \in high \cup low : <<i, t>> \in H}
    BY <1>4, <1>5
  <2>2. FirstUntil(i, S, H) = FirstUntil(i - 1, S, H) \cup FirstAt(i, S, H)
    BY <1>1, FirstStep
  <2>3. FirstAt(i, S, H) = {<<i, s>> : s \in above \cup below}
    BY <2>1 DEF FirstAt, high, low
  <2>4. QED BY <2>2, <2>3
<1> HIDE DEF above, below
<1>10. {SweepOf(p) : p \in FirstUntil(i, S, H)} =
        {SweepOf(p) : p \in FirstUntil(i - 1, S, H)}
          \cup {Sweep("bearish", i, s) : s \in above} \cup {Sweep("bullish", i, s) : s \in below}
  <2>1. \A s \in above : SweepOf(<<i, s>>) = Sweep("bearish", i, s)
    BY <1>7 DEF SweepOf
  <2>2. \A s \in below : SweepOf(<<i, s>>) = Sweep("bullish", i, s)
    BY <1>8 DEF SweepOf
  <2> DEFINE old == FirstUntil(i - 1, S, H)
             new == FirstUntil(i, S, H)
  <2>3. new = old \cup {<<i, s>> : s \in above \cup below}
    BY <1>9
  <2> HIDE DEF SweepOf, Sweep, old, new
  <2>4. {SweepOf(p) : p \in new} = {SweepOf(p) : p \in old} \cup {SweepOf(<<i, s>>) : s \in above \cup below}
    BY <2>3
  <2>5. {SweepOf(<<i, s>>) : s \in above \cup below}
          = {Sweep("bearish", i, s) : s \in above} \cup {Sweep("bullish", i, s) : s \in below}
    BY <2>1, <2>2
  <2>6. QED BY <2>4, <2>5 DEF old, new
<1>11. before.sweeps = {SweepOf(p) : p \in FirstUntil(i - 1, S, H)}
  BY DEF SweepState, H
<1>12. SweepScan(before, i, c, S) =
         [high |-> high \ above, low |-> low \ below,
          sweeps |-> before.sweeps \cup {Sweep("bearish", i, s) : s \in above}
                                   \cup {Sweep("bullish", i, s) : s \in below}]
  BY <1>2 DEF SweepScan, above, below
<1>13. QED BY <1>6, <1>10, <1>11, <1>12 DEF SweepState, H, c

LEMMA SweepsFound ==
  ASSUME NEW cs \in Seq(Candles), NEW S, ApartSwings(S)
  PROVE  \A i \in 0..Len(cs) : SweepScans(cs, S)[i] = SweepState(i, cs, S)
<1> DEFINE n == Len(cs)
           base == [high |-> {}, low |-> {}, sweeps |-> {}]
           Rec(g) == g = [i \in 0..n |-> IF i = 0 THEN base ELSE SweepScan(g[i - 1], i, cs[i], S)]
           g == SweepScans(cs, S)
           f == [i \in 0..n |-> SweepState(i, cs, S)]
<1>1. n \in Nat
  OBVIOUS
<1>2. g = CHOOSE h : Rec(h)
  BY DEF SweepScans
<1>3. SweepState(0, cs, S) = base
  <2>1. FirstUntil(0, S, Sweepings(cs, S)) = {}
    <3>1. Sweepings(cs, S) \subseteq (Nat \ {0}) \X S
      BY DEF Sweepings
    <3>2. 1 \in Nat \ {0}
      OBVIOUS
    <3>3. QED BY <1>1, <3>1, <3>2, FirstStep
  <2>2. QED BY <2>1, NoneStandsAtFirst DEF SweepState
<1>4. \A i \in 1..n : SweepState(i, cs, S) = SweepScan(SweepState(i - 1, cs, S), i, cs[i], S)
  BY SweepStep
<1> HIDE DEF g, base
<1>5. Rec(f)
  <2>1. \A i \in 0..n : i # 0 => i \in 1..n /\ i - 1 \in 0..n
    BY <1>1
  <2>2. QED BY <1>3, <1>4, <2>1
<1>6. Rec(g)
  BY <1>2, <1>5
<1>7. \A i \in 1..n : g[i] = SweepScan(g[i - 1], i, cs[i], S)
  <2>1. \A i \in 1..n : i \in 0..n /\ i # 0
    BY <1>1
  <2>2. QED BY <1>6, <2>1
<1>8. \A i \in 1..n : i - 1 \in 0..n /\ i \in 0..n
  BY <1>1
<1>9. g[0] = f[0]
  BY <1>1, <1>3, <1>6
<1>10. ASSUME NEW i \in 1..n, g[i - 1] = f[i - 1] PROVE g[i] = f[i]
  BY <1>4, <1>7, <1>8, <1>10
<1> HIDE DEF f, Rec
<1>11. AgreeOn(g, f, 0, n)
  BY <1>1, <1>9, <1>10, SameFromZero
<1>12. QED BY <1>11 DEF f, g, AgreeOn

-----------------------------------------------------------------------------
DirectionOf(s) == IF s.kind = "high" THEN "bullish" ELSE "bearish"

(* The direction of the newest of the hits F up to candle i.               *)
IsNewest(p, i, F) == p \in F /\ p[1] <= i /\ \A q \in F : q[1] <= i => q[1] <= p[1]
TrendAt(i, F) ==
  IF \E p \in F : IsNewest(p, i, F) /\ DirectionOf(p[2]) = "bullish" THEN "bullish"
  ELSE IF \E p \in F : IsNewest(p, i, F) /\ DirectionOf(p[2]) = "bearish" THEN "bearish"
  ELSE "none"

(* Hits of different candles. *)
ApartHits(F) == \A p, q \in F : p[1] = q[1] => p = q

LEMMA TrendChanges ==
  ASSUME NEW F, \A p \in F : p[1] \in Nat \ {0}, ApartHits(F), NEW i \in Nat \ {0}
  PROVE  /\ \A p \in F : p[1] = i => TrendAt(i, F) = DirectionOf(p[2])
         /\ (\A p \in F : p[1] # i) => TrendAt(i, F) = TrendAt(i - 1, F)
         /\ TrendAt(0, F) = "none"
<1>1. ASSUME NEW p \in F, p[1] = i PROVE TrendAt(i, F) = DirectionOf(p[2])
  <2>1. IsNewest(p, i, F)
    BY <1>1 DEF IsNewest
  <2>2. ASSUME NEW q \in F, IsNewest(q, i, F) PROVE q = p
    BY <1>1, <2>2 DEF IsNewest, ApartHits
  <2>3. DirectionOf(p[2]) \in {"bullish", "bearish"}
    BY DEF DirectionOf
  <2> HIDE DEF DirectionOf
  <2>4. QED BY <2>1, <2>2, <2>3 DEF TrendAt
<1>2. ASSUME \A p \in F : p[1] # i PROVE TrendAt(i, F) = TrendAt(i - 1, F)
  <2>1. \A p \in F : p[1] <= i <=> p[1] <= i - 1
    BY <1>2
  <2>2. \A p \in F : IsNewest(p, i, F) <=> IsNewest(p, i - 1, F)
    BY <2>1 DEF IsNewest
  <2>3. QED BY <2>2 DEF TrendAt
<1>3. \A p \in F : ~IsNewest(p, 0, F)
  BY DEF IsNewest
<1>4. QED BY <1>1, <1>2, <1>3 DEF TrendAt

-----------------------------------------------------------------------------
(* The break scan, without a scan.                                         *)
BreakOf(p, F) == Break(TrendAt(p[1] - 1, F), DirectionOf(p[2]), p[1], p[2])

BreakState(i, cs, S) ==
  LET H == Closings(cs, S)
  IN  [high |-> Standing("high", i, S, H), low |-> Standing("low", i, S, H),
       trend |-> TrendAt(i, First(S, H)),
       breaks |-> {BreakOf(p, First(S, H)) : p \in FirstUntil(i, S, H)}]

(* No candle closes above the high it faces and below the low.             *)
OneSided(cs, S) ==
  \A i \in 1..Len(cs) :
    \A h \in Facing("high", i, S, Closings(cs, S)), l \in Facing("low", i, S, Closings(cs, S)) :
      ~(cs[i].close > h.price /\ cs[i].close < l.price)

LEMMA ClosingsFacts ==
  ASSUME NEW cs \in Seq(Candles), NEW S, ApartSwings(S), OneSided(cs, S)
  PROVE  /\ Closings(cs, S) \subseteq (Nat \ {0}) \X S
         /\ \A p \in First(S, Closings(cs, S)) :
              p[1] \in Nat \ {0} /\ p[2] \in S /\ p = <<p[1], p[2]>>
         /\ ApartHits(First(S, Closings(cs, S)))
<1> DEFINE H == Closings(cs, S)
           F == First(S, H)
<1>1. H \subseteq (1..Len(cs)) \X S
  BY DEF Closings
<1>2. \A p \in F : p \in H /\ p[2] \in Facing(p[2].kind, p[1], S, H)
  BY DEF First
<1>3. \A p \in F : p[1] \in 1..Len(cs) /\ p[2] \in S /\ p = <<p[1], p[2]>>
  BY <1>1, <1>2
<1>4. ASSUME NEW p \in F, NEW q \in F, p[1] = q[1] PROVE p = q
  <2> DEFINE i == p[1]
  <2>1. i \in 1..Len(cs) /\ i \in Nat /\ p[2] \in S /\ q[2] \in S
    BY <1>3
  <2>2. p[2].kind \in {"high", "low"} /\ q[2].kind \in {"high", "low"}
    BY <2>1 DEF ApartSwings
  <2>3. ClosesBeyond(cs[i], p[2]) /\ ClosesBeyond(cs[i], q[2])
    BY <1>2, <1>4 DEF Closings
  <2>4. CASE p[2].kind = q[2].kind
    <3>1. p[2] \in Facing(p[2].kind, i, S, H) /\ q[2] \in Facing(p[2].kind, i, S, H)
      BY <1>2, <1>4, <2>4
    <3>2. p[2] = q[2]
      BY <2>1, <3>1, FacingFacts
    <3>3. QED BY <1>3, <1>4, <3>2
  <2>5. ASSUME NEW u \in F, NEW v \in F, u[1] = i, v[1] = i, u[2].kind = "high", v[2].kind = "low"
        PROVE FALSE
    <3>1. u[2] \in Facing("high", i, S, H) /\ v[2] \in Facing("low", i, S, H)
      BY <1>2, <2>5
    <3>2. ClosesBeyond(cs[i], u[2]) /\ ClosesBeyond(cs[i], v[2])
      BY <1>2, <2>5 DEF Closings
    <3>3. cs[i].close > u[2].price /\ cs[i].close < v[2].price
      BY <2>5, <3>2 DEF ClosesBeyond
    <3>4. QED BY <2>1, <3>1, <3>3 DEF OneSided
  <2>6. CASE p[2].kind # q[2].kind
    BY <1>4, <2>2, <2>5, <2>6
  <2>7. QED BY <2>4, <2>6
<1>5. \A k \in 1..Len(cs) : k \in Nat \ {0}
  OBVIOUS
<1>6. QED BY <1>1, <1>3, <1>4, <1>5 DEF ApartHits

LEMMA BreakStep ==
  ASSUME NEW cs \in Seq(Candles), NEW S, ApartSwings(S), OneSided(cs, S), NEW i \in 1..Len(cs)
  PROVE  Scan(BreakState(i - 1, cs, S), i, cs[i], S) = BreakState(i, cs, S)
<1> DEFINE H == Closings(cs, S)
           F == First(S, H)
           c == cs[i]
           high == Facing("high", i, S, H)
           low == Facing("low", i, S, H)
           before == BreakState(i - 1, cs, S)
<1>1. /\ H \subseteq (Nat \ {0}) \X S /\ i \in Nat \ {0} /\ i \in Nat
      /\ ApartHits(F) /\ \A p \in F : p[1] \in Nat \ {0} /\ p[2] \in S /\ p = <<p[1], p[2]>>
  BY ClosingsFacts
<1>2. Latest("high", i, S, before.high) = high /\ Latest("low", i, S, before.low) = low
  BY <1>1, FacingIsLatest DEF BreakState
<1>3. \A s \in S : <<i, s>> \in H <=> ClosesBeyond(c, s)
  BY DEF Closings
<1>4. \A s \in high : s \in S /\ s.kind = "high" /\ (<<i, s>> \in H <=> c.close > s.price)
  BY <1>3 DEF Facing, ClosesBeyond
<1>5. \A s \in low : s \in S /\ s.kind = "low" /\ (<<i, s>> \in H <=> c.close < s.price)
  BY <1>3 DEF Facing, ClosesBeyond
<1>6. /\ Standing("high", i, S, H) = {s \in high : <<i, s>> \notin H}
      /\ Standing("low", i, S, H) = {s \in low : <<i, s>> \notin H}
  BY <1>1, StandingIsFacing
<1>7. /\ \A s, t \in high : s = t
      /\ \A s, t \in low : s = t
  BY <1>1, FacingFacts
<1>8. \A h \in high, l \in low : ~(c.close > h.price /\ c.close < l.price)
  BY DEF OneSided
<1>9. FirstUntil(i, S, H) = FirstUntil(i - 1, S, H) \cup FirstAt(i, S, H)
  BY <1>1, FirstStep
<1>10. FirstAt(i, S, H) = {<<i, s>> : s \in {t \in high \cup low : <<i, t>> \in H}}
  BY DEF FirstAt
<1>11. \A s \in high \cup low : <<i, s>> \in H => <<i, s>> \in F
  BY <1>4, <1>5 DEF First
<1>12. \A p \in F : p[1] = i => p \in FirstAt(i, S, H)
  <2>1. \A p \in F : p[1] = i => p \in FirstUntil(i, S, H) /\ p \notin FirstUntil(i - 1, S, H)
    BY <1>1 DEF FirstUntil
  <2>2. QED BY <1>9, <2>1
<1>13. /\ before.high = Standing("high", i - 1, S, H) /\ before.low = Standing("low", i - 1, S, H)
       /\ before.trend = TrendAt(i - 1, F)
       /\ before.breaks = {BreakOf(p, F) : p \in FirstUntil(i - 1, S, H)}
       /\ before = [high |-> before.high, low |-> before.low, trend |-> before.trend,
                    breaks |-> before.breaks]
  BY DEF BreakState
<1>14. BreakState(i, cs, S) =
         [high |-> {s \in high : <<i, s>> \notin H}, low |-> {s \in low : <<i, s>> \notin H},
          trend |-> TrendAt(i, F),
          breaks |-> before.breaks \cup {BreakOf(p, F) : p \in FirstAt(i, S, H)}]
  BY <1>6, <1>9, <1>13 DEF BreakState
<1>15. /\ \A p \in F : p[1] = i => TrendAt(i, F) = DirectionOf(p[2])
       /\ (\A p \in F : p[1] # i) => TrendAt(i, F) = TrendAt(i - 1, F)
  BY <1>1, TrendChanges
<1>16. \A s : BreakOf(<<i, s>>, F) = Break(before.trend, DirectionOf(s), i, s)
  BY <1>13 DEF BreakOf
<1> HIDE DEF H, F, c, high, low, before
<1>17. CASE \E s \in high : c.close > s.price
  <2>1. PICK s \in high : c.close > s.price
    BY <1>17
  <2>2. {t \in high : <<i, t>> \notin H} = {} /\ {t \in low : <<i, t>> \notin H} = low
    BY <1>4, <1>5, <1>7, <1>8, <2>1
  <2>3. {t \in high \cup low : <<i, t>> \in H} = {s} /\ high = {s}
    BY <1>4, <1>5, <1>7, <1>8, <2>1
  <2>4. FirstAt(i, S, H) = {<<i, s>>}
    BY <1>10, <2>3
  <2>5. TrendAt(i, F) = "bullish" /\ DirectionOf(s) = "bullish"
    <3>1. <<i, s>> \in F /\ s.kind = "high"
      BY <1>4, <1>11, <2>1
    <3>2. QED BY <1>15, <3>1 DEF DirectionOf
  <2>6. {BreakOf(p, F) : p \in FirstAt(i, S, H)} = {Break(before.trend, "bullish", i, t) : t \in high}
    BY <1>16, <2>3, <2>4, <2>5
  <2>7. Scan(before, i, c, S) =
          [high |-> {}, low |-> low, trend |-> "bullish",
           breaks |-> before.breaks \cup {Break(before.trend, "bullish", i, t) : t \in high}]
    BY <1>2, <1>17 DEF Scan
  <2>8. QED BY <1>14, <2>2, <2>5, <2>6, <2>7 DEF before, c
<1>18. CASE ~(\E s \in high : c.close > s.price) /\ (\E s \in low : c.close < s.price)
  <2>1. PICK s \in low : c.close < s.price
    BY <1>18
  <2>2. {t \in high : <<i, t>> \notin H} = high /\ {t \in low : <<i, t>> \notin H} = {}
    BY <1>4, <1>5, <1>7, <1>18, <2>1
  <2>3. {t \in high \cup low : <<i, t>> \in H} = {s} /\ low = {s}
    BY <1>4, <1>5, <1>7, <1>18, <2>1
  <2>4. FirstAt(i, S, H) = {<<i, s>>}
    BY <1>10, <2>3
  <2>5. TrendAt(i, F) = "bearish" /\ DirectionOf(s) = "bearish"
    <3>1. <<i, s>> \in F /\ s.kind = "low"
      BY <1>5, <1>11, <2>1
    <3>2. QED BY <1>15, <3>1 DEF DirectionOf
  <2>6. {BreakOf(p, F) : p \in FirstAt(i, S, H)} = {Break(before.trend, "bearish", i, t) : t \in low}
    BY <1>16, <2>3, <2>4, <2>5
  <2>7. Scan(before, i, c, S) =
          [high |-> high, low |-> LowBroken(low), trend |-> "bearish",
           breaks |-> before.breaks \cup {Break(before.trend, "bearish", i, t) : t \in low}]
    BY <1>2, <1>18 DEF Scan
  <2>8. LowBroken(low) = {}
    BY DEF LowBroken
  <2>9. QED BY <1>14, <2>2, <2>5, <2>6, <2>7, <2>8 DEF before, c
<1>19. CASE ~(\E s \in high : c.close > s.price) /\ ~(\E s \in low : c.close < s.price)
  <2>1. {t \in high : <<i, t>> \notin H} = high /\ {t \in low : <<i, t>> \notin H} = low
    BY <1>4, <1>5, <1>19
  <2>2. {t \in high \cup low : <<i, t>> \in H} = {}
    BY <1>4, <1>5, <1>19
  <2>3. FirstAt(i, S, H) = {}
    BY <1>10, <2>2
  <2>4. TrendAt(i, F) = before.trend
    BY <1>12, <1>13, <1>15, <2>3
  <2>5. Scan(before, i, c, S) =
          [high |-> high, low |-> low, trend |-> before.trend, breaks |-> before.breaks]
    BY <1>2, <1>19 DEF Scan
  <2>6. before.breaks \cup {BreakOf(p, F) : p \in FirstAt(i, S, H)} = before.breaks
    BY <2>3
  <2>7. QED BY <1>14, <2>1, <2>3, <2>4, <2>5, <2>6 DEF before, c
<1>20. QED BY <1>17, <1>18, <1>19

LEMMA BreaksFound ==
  ASSUME NEW cs \in Seq(Candles), NEW S, ApartSwings(S), OneSided(cs, S)
  PROVE  \A i \in 0..Len(cs) : BreakScan(cs, S)[i] = BreakState(i, cs, S)
<1> DEFINE n == Len(cs)
           base == [high |-> {}, low |-> {}, trend |-> "none", breaks |-> {}]
           Rec(g) == g = [i \in 0..n |-> IF i = 0 THEN base ELSE Scan(g[i - 1], i, cs[i], S)]
           g == BreakScan(cs, S)
           f == [i \in 0..n |-> BreakState(i, cs, S)]
<1>1. n \in Nat
  OBVIOUS
<1>2. g = CHOOSE h : Rec(h)
  BY DEF BreakScan
<1>3. BreakState(0, cs, S) = base
  <2>1. FirstUntil(0, S, Closings(cs, S)) = {}
    <3>1. Closings(cs, S) \subseteq (Nat \ {0}) \X S
      BY ClosingsFacts
    <3>2. 1 \in Nat \ {0}
      OBVIOUS
    <3>3. QED BY <1>1, <3>1, <3>2, FirstStep
  <2>2. TrendAt(0, First(S, Closings(cs, S))) = "none"
    <3>1. 1 \in Nat \ {0}
      OBVIOUS
    <3>2. QED BY <3>1, ClosingsFacts, TrendChanges
  <2>3. QED BY <2>1, <2>2, NoneStandsAtFirst DEF BreakState
<1>4. \A i \in 1..n : BreakState(i, cs, S) = Scan(BreakState(i - 1, cs, S), i, cs[i], S)
  BY BreakStep
<1> HIDE DEF g, base
<1>5. Rec(f)
  <2>1. \A i \in 0..n : i # 0 => i \in 1..n /\ i - 1 \in 0..n
    BY <1>1
  <2>2. QED BY <1>3, <1>4, <2>1
<1>6. Rec(g)
  BY <1>2, <1>5
<1>7. \A i \in 1..n : g[i] = Scan(g[i - 1], i, cs[i], S)
  <2>1. \A i \in 1..n : i \in 0..n /\ i # 0
    BY <1>1
  <2>2. QED BY <1>6, <2>1
<1>8. \A i \in 1..n : i - 1 \in 0..n /\ i \in 0..n
  BY <1>1
<1>9. g[0] = f[0]
  BY <1>1, <1>3, <1>6
<1>10. ASSUME NEW i \in 1..n, g[i - 1] = f[i - 1] PROVE g[i] = f[i]
  BY <1>4, <1>7, <1>8, <1>10
<1> HIDE DEF f, Rec
<1>11. AgreeOn(g, f, 0, n)
  BY <1>1, <1>9, <1>10, SameFromZero
<1>12. QED BY <1>11 DEF f, g, AgreeOn

-----------------------------------------------------------------------------
LEMMA SwingIff ==
  ASSUME NEW cs \in Seq(Candles), NEW s
  PROVE  s \in DetectSwings(cs) <=>
           \E i \in Inner(cs) :
             \/ s = Swing("high", i, cs[i].high) /\ \A k \in Neighbours(cs, i) : cs[i].high > cs[k].high
             \/ s = Swing("low", i, cs[i].low) /\ \A k \in Neighbours(cs, i) : cs[i].low < cs[k].low
  BY DEF DetectSwings

LEMMA InnerIsInside ==
  ASSUME NEW cs \in Seq(Candles), NEW i \in Inner(cs)
  PROVE  /\ i \in 1..Len(cs) /\ i - SwingLookback \in 1..Len(cs) /\ i + SwingLookback \in 1..Len(cs)
         /\ i \in Nat
  BY Lookback DEF Inner

LEMMA SwingFacts ==
  ASSUME NEW cs \in Seq(Candles), NEW s \in DetectSwings(cs)
  PROVE  /\ s.kind \in {"high", "low"} /\ s.index \in Inner(cs)
         /\ s.confirmed = s.index + SwingLookback /\ s.price \in Int
         /\ s = Swing(s.kind, s.index, s.price)
         /\ s.kind = "high" => /\ s.price = cs[s.index].high
                               /\ \A k \in Neighbours(cs, s.index) : s.price > cs[k].high
         /\ s.kind = "low" => /\ s.price = cs[s.index].low
                              /\ \A k \in Neighbours(cs, s.index) : s.price < cs[k].low
<1>1. PICK i \in Inner(cs) :
        \/ s = Swing("high", i, cs[i].high) /\ \A k \in Neighbours(cs, i) : cs[i].high > cs[k].high
        \/ s = Swing("low", i, cs[i].low) /\ \A k \in Neighbours(cs, i) : cs[i].low < cs[k].low
  BY SwingIff
<1>2. cs[i].high \in Int /\ cs[i].low \in Int
  BY InnerIsInside, CandleAt
<1>3. CASE s = Swing("high", i, cs[i].high) /\ \A k \in Neighbours(cs, i) : cs[i].high > cs[k].high
  BY <1>2, <1>3 DEF Swing
<1>4. CASE s = Swing("low", i, cs[i].low) /\ \A k \in Neighbours(cs, i) : cs[i].low < cs[k].low
  BY <1>2, <1>4 DEF Swing
<1>5. QED BY <1>1, <1>3, <1>4

LEMMA DetectedApart ==
  ASSUME NEW cs \in Seq(Candles)
  PROVE  ApartSwings(DetectSwings(cs))
<1> DEFINE S == DetectSwings(cs)
<1>1. ASSUME NEW s \in S
      PROVE  /\ s.kind \in {"high", "low"} /\ s.index \in Nat /\ s.price \in Int
             /\ s.confirmed = s.index + SwingLookback
  BY SwingFacts, InnerIsInside
<1>2. ASSUME NEW s \in S, NEW t \in S, s.kind = t.kind, s.index = t.index PROVE s = t
  <2>1. s = Swing(s.kind, s.index, s.price) /\ t = Swing(t.kind, t.index, t.price)
    BY SwingFacts
  <2>2. s.price = t.price
    BY <1>2, SwingFacts
  <2>3. QED BY <1>2, <2>1, <2>2
<1>3. QED BY <1>1, <1>2 DEF ApartSwings

(* The high a candle faces is never below the low it faces by so much that *)
(* it could close between them: one of their own candles, or one since,    *)
(* would have broken the other.                                            *)
LEMMA DetectedOneSided ==
  ASSUME NEW cs \in Seq(Candles)
  PROVE  OneSided(cs, DetectSwings(cs))
<1> DEFINE S == DetectSwings(cs)
           H == Closings(cs, S)
           L == SwingLookback
<1> SUFFICES ASSUME NEW i \in 1..Len(cs), NEW h \in Facing("high", i, S, H),
                    NEW l \in Facing("low", i, S, H),
                    cs[i].close > h.price, cs[i].close < l.price
             PROVE  FALSE
  BY DEF OneSided
<1> DEFINE a == h.index
           b == l.index
<1>1. /\ h \in S /\ h.kind = "high" /\ h.confirmed < i
      /\ \A j \in (h.confirmed + 1)..(i - 1) : <<j, h>> \notin H
      /\ l \in S /\ l.kind = "low" /\ l.confirmed < i
      /\ \A j \in (l.confirmed + 1)..(i - 1) : <<j, l>> \notin H
  BY DEF Facing, LatestAt
<1>2. /\ a \in Inner(cs) /\ h.confirmed = a + L /\ h.price = cs[a].high
      /\ \A k \in Neighbours(cs, a) : h.price > cs[k].high
      /\ b \in Inner(cs) /\ l.confirmed = b + L /\ l.price = cs[b].low
      /\ \A k \in Neighbours(cs, b) : l.price < cs[k].low
  BY <1>1, SwingFacts
<1>3. a \in 1..Len(cs) /\ b \in 1..Len(cs) /\ L \in Nat \ {0} /\ i \in Nat
  BY <1>2, InnerIsInside, Lookback
<1>4. /\ cs[a].high \in Int /\ cs[a].low \in Int /\ cs[a].close \in Int
      /\ cs[a].low <= cs[a].close /\ cs[a].close <= cs[a].high
  BY <1>3, CandleAt
<1>5. /\ cs[b].high \in Int /\ cs[b].low \in Int /\ cs[b].close \in Int
      /\ cs[b].low <= cs[b].close /\ cs[b].close <= cs[b].high
  BY <1>3, CandleAt
<1>6. cs[i].close \in Int
  BY CandleAt
<1>7. cs[a].high < cs[b].low
  BY <1>2, <1>4, <1>5, <1>6
<1>8. \A j \in 1..Len(cs) : (j \in Neighbours(cs, a) <=> j # a /\ a - L <= j /\ j <= a + L)
                         /\ (j \in Neighbours(cs, b) <=> j # b /\ b - L <= j /\ j <= b + L)
  BY <1>3 DEF Neighbours
<1>9. a # b
  BY <1>4, <1>7
<1>10. ~(b \in Neighbours(cs, a))
  BY <1>2, <1>4, <1>5, <1>7
<1>11. ~(a \in Neighbours(cs, b))
  BY <1>2, <1>4, <1>5, <1>7
<1>12. b > a + L \/ a > b + L
  BY <1>3, <1>8, <1>9, <1>10, <1>11
<1>13. CASE b > a + L
  <2>1. b \in (h.confirmed + 1)..(i - 1)
    BY <1>1, <1>2, <1>3, <1>13
  <2>2. ~ClosesBeyond(cs[b], h)
    <3>1. <<b, h>> \notin H
      BY <1>1, <2>1
    <3>2. <<b, h>> \in (DOMAIN cs) \X S
      BY <1>1, <1>3
    <3>3. QED BY <3>1, <3>2 DEF Closings
  <2>3. ~(cs[b].close > cs[a].high)
    BY <1>1, <1>2, <2>2 DEF ClosesBeyond
  <2>4. QED BY <1>4, <1>5, <1>7, <2>3
<1>14. CASE a > b + L
  <2>1. a \in (l.confirmed + 1)..(i - 1)
    BY <1>1, <1>2, <1>3, <1>14
  <2>2. ~ClosesBeyond(cs[a], l)
    <3>1. <<a, l>> \notin H
      BY <1>1, <2>1
    <3>2. <<a, l>> \in (DOMAIN cs) \X S
      BY <1>1, <1>3
    <3>3. QED BY <3>1, <3>2 DEF Closings
  <2>3. ~(cs[a].close < cs[b].low)
    BY <1>1, <1>2, <2>2 DEF ClosesBeyond
  <2>4. QED BY <1>4, <1>5, <1>7, <2>3
<1>15. QED BY <1>12, <1>13, <1>14

-----------------------------------------------------------------------------
(* What the two detectors return, for every series.                        *)
FirstClosings(cs) == First(DetectSwings(cs), Closings(cs, DetectSwings(cs)))
FirstSweepings(cs) == First(DetectSwings(cs), Sweepings(cs, DetectSwings(cs)))

LEMMA HitFacts ==
  ASSUME NEW cs \in Seq(Candles)
  PROVE  /\ \A p \in FirstClosings(cs) :
              p[1] \in 1..Len(cs) /\ p[2] \in DetectSwings(cs) /\ p = <<p[1], p[2]>>
         /\ \A p \in FirstSweepings(cs) :
              p[1] \in 1..Len(cs) /\ p[2] \in DetectSwings(cs) /\ p = <<p[1], p[2]>>
         /\ ApartHits(FirstClosings(cs))
<1>1. ApartHits(FirstClosings(cs))
  BY DetectedApart, DetectedOneSided, ClosingsFacts DEF FirstClosings
<1>2. QED BY <1>1 DEF FirstClosings, FirstSweepings, First, Closings, Sweepings

LEMMA BreaksOf ==
  ASSUME NEW cs \in Seq(Candles)
  PROVE  DetectStructureBreaks(cs, DetectSwings(cs)) =
           {BreakOf(p, FirstClosings(cs)) : p \in FirstClosings(cs)}
<1> DEFINE S == DetectSwings(cs)
           F == First(S, Closings(cs, S))
           n == Len(cs)
<1>1. n \in 0..n
  OBVIOUS
<1>2. BreakScan(cs, S)[n] = BreakState(n, cs, S)
  BY <1>1, DetectedApart, DetectedOneSided, BreaksFound
<1>3. FirstUntil(n, S, Closings(cs, S)) = F
  <2>1. \A p \in F : p[1] <= n
    BY HitFacts DEF FirstClosings
  <2>2. QED BY <2>1 DEF FirstUntil
<1>4. BreakState(n, cs, S).breaks = {BreakOf(p, F) : p \in F}
  BY <1>3 DEF BreakState
<1>5. QED BY <1>2, <1>4 DEF DetectStructureBreaks, FirstClosings

LEMMA SweepsOf ==
  ASSUME NEW cs \in Seq(Candles)
  PROVE  DetectLiquiditySweeps(cs, DetectSwings(cs)) = {SweepOf(p) : p \in FirstSweepings(cs)}
<1> DEFINE S == DetectSwings(cs)
           F == First(S, Sweepings(cs, S))
           n == Len(cs)
<1>1. n \in 0..n
  OBVIOUS
<1>2. SweepScans(cs, S)[n] = SweepState(n, cs, S)
  BY <1>1, DetectedApart, SweepsFound
<1>3. FirstUntil(n, S, Sweepings(cs, S)) = F
  <2>1. \A p \in F : p[1] <= n
    BY HitFacts DEF FirstSweepings
  <2>2. QED BY <2>1 DEF FirstUntil
<1>4. SweepState(n, cs, S).sweeps = {SweepOf(p) : p \in F}
  BY <1>3 DEF SweepState
<1>5. QED BY <1>2, <1>4 DEF DetectLiquiditySweeps, FirstSweepings

(* The invariant: the two analyses are of the candles so far.              *)
StructureInvariant ==
  /\ closed \in Seq(Shapes) /\ closed # <<>>
  /\ whole = Analyze(closed) /\ recent = Analyze(Loaded(closed))

LEMMA ShapesAreCandles ==
  /\ Shapes \subseteq Candles
  /\ \A cs \in Seq(Shapes) : cs \in Seq(Candles)
<1>1. Shapes \subseteq Candles
  BY StructureAssumption DEF Candles
<1>2. QED BY <1>1

LEMMA StructureInvariantHolds == EvaluationSpec => []StructureInvariant
<1>1. EvaluationInit => StructureInvariant
  <2> SUFFICES ASSUME NEW c \in Shapes, closed = <<c>>, whole = Analyze(<<c>>),
                      recent = Analyze(<<c>>)
               PROVE  StructureInvariant
    BY DEF EvaluationInit, StructureInit
  <2>1. Loaded(<<c>>) = <<c>>
    <3>1. HistoryCandles \in Nat \ {0}
      BY StructureAssumption
    <3>2. Len(<<c>>) = 1
      OBVIOUS
    <3>3. Max({1, 1 - HistoryCandles + 1}) = 1
      BY <3>1 DEF Max
    <3>4. SubSeq(<<c>>, 1, 1) = <<c>>
      <4>1. <<c>> \in Seq(Shapes)
        OBVIOUS
      <4>2. SubSeq(<<c>>, 1, Len(<<c>>)) = <<c>>
        BY <4>1, SubSeqFull
      <4>3. QED BY <3>2, <4>2
    <3>5. QED BY <3>2, <3>3, <3>4 DEF Loaded
  <2>2. QED BY <2>1 DEF StructureInvariant
<1>2. StructureInvariant /\ [EvaluationNext]_evaluationVars => StructureInvariant'
  <2> SUFFICES ASSUME StructureInvariant, [EvaluationNext]_evaluationVars
               PROVE  StructureInvariant'
    OBVIOUS
  <2>1. ASSUME NEW c \in Shapes, CandleAdded(c) PROVE StructureInvariant'
    <3>1. closed' = Append(closed, c) /\ closed \in Seq(Shapes)
      BY <2>1 DEF CandleAdded, StructureInvariant
    <3>2. closed' \in Seq(Shapes) /\ closed' # <<>>
      BY <3>1
    <3>3. QED BY <2>1, <3>2 DEF CandleAdded, StructureInvariant
  <2>2. CASE UNCHANGED structureVars
    BY <2>2 DEF StructureInvariant, structureVars
  <2>3. QED BY <2>1, <2>2 DEF EvaluationNext, AnalyzeOnce, evaluationVars, structureVars
<1>3. QED BY <1>1, <1>2, PTL DEF EvaluationSpec

LEMMA Analysis ==
  ASSUME NEW cs
  PROVE  /\ Analyze(cs).atr = AverageTrueRange(cs)
         /\ Analyze(cs).swings = DetectSwings(cs)
         /\ Analyze(cs).breaks = DetectStructureBreaks(cs, DetectSwings(cs))
         /\ Analyze(cs).sweeps = DetectLiquiditySweeps(cs, DetectSwings(cs))
         /\ Analyze(cs).levels = DetectEqualLevels(DetectSwings(cs), AverageTrueRange(cs))
         /\ Analyze(cs).displacements = DetectDisplacements(cs, AverageTrueRange(cs))
         /\ Analyze(cs).gaps = DetectFairValueGaps(cs, AverageTrueRange(cs))
         /\ Analyze(cs).blocks = DetectOrderBlocks(cs, DetectStructureBreaks(cs, DetectSwings(cs)),
                                                   DetectDisplacements(cs, AverageTrueRange(cs)))
  BY DEF Analyze

LEMMA TrendFacts ==
  ASSUME NEW F, ApartHits(F), \A p \in F : p[1] \in Nat, NEW p \in F
  PROVE  TrendAt(p[1] - 1, F) \notin {"none", DirectionOf(p[2])} <=>
           \E q \in F : /\ IsNewest(q, p[1] - 1, F) /\ DirectionOf(q[2]) # DirectionOf(p[2])
<1> DEFINE i == p[1] - 1
<1>1. \A q \in F : DirectionOf(q[2]) \in {"bullish", "bearish"}
  BY DEF DirectionOf
<1>2. ASSUME NEW q \in F, NEW r \in F, IsNewest(q, i, F), IsNewest(r, i, F) PROVE q = r
  <2>1. q[1] <= r[1] /\ r[1] <= q[1] /\ q[1] \in Nat /\ r[1] \in Nat
    BY <1>2 DEF IsNewest
  <2>2. QED BY <2>1 DEF ApartHits
<1>3. CASE \E q \in F : IsNewest(q, i, F)
  <2>1. PICK q \in F : IsNewest(q, i, F)
    BY <1>3
  <2>2. TrendAt(i, F) = DirectionOf(q[2])
    BY <1>1, <1>2, <2>1 DEF TrendAt
  <2>3. DirectionOf(q[2]) # "none"
    BY <1>1
  <2>4. QED BY <1>2, <2>1, <2>2, <2>3
<1>4. CASE ~\E q \in F : IsNewest(q, i, F)
  <2>1. TrendAt(i, F) = "none"
    BY <1>4 DEF TrendAt
  <2>2. QED BY <1>4, <2>1
<1>5. QED BY <1>3, <1>4

(* The two scans find what docs/smc-core.md says of breaks and sweeps, for *)
(* every market, lookback and history (detect_structure_breaks,            *)
(* detect_liquidity_sweeps).                                               *)
THEOREM DetectorsFindWhatIsDocumented == EvaluationSpec => []DetectorsAsDocumented
<1>1. StructureInvariant => DetectorsAsDocumented
  <2> SUFFICES ASSUME StructureInvariant PROVE DetectorsAsDocumented
    OBVIOUS
  <2> DEFINE S == DetectSwings(closed)
             F == FirstClosings(closed)
             G == FirstSweepings(closed)
  <2>1. closed \in Seq(Candles) /\ ApartSwings(S)
    BY ShapesAreCandles, DetectedApart DEF StructureInvariant
  <2>2. /\ whole.swings = S
        /\ whole.breaks = {BreakOf(p, F) : p \in F}
        /\ whole.sweeps = {SweepOf(p) : p \in G}
    BY <2>1, Analysis, BreaksOf, SweepsOf DEF StructureInvariant
  <2>3. /\ \A p \in F : p[1] \in Nat /\ p = <<p[1], p[2]>>
        /\ \A p \in G : p[1] \in Nat /\ p = <<p[1], p[2]>>
        /\ ApartHits(F)
    BY <2>1, HitFacts
  <2>4. F = FirstTo(ClosesBeyond, closed, S)
    BY <2>1, FirstBreaks DEF FirstClosings
  <2>5. G = FirstTo(SweepsOver, closed, S)
    BY <2>1, FirstSweeps DEF FirstSweepings
  <2>6. ASSUME NEW p \in F
        PROVE  /\ BreakOf(p, F).index = p[1] /\ BreakOf(p, F).swing = p[2]
               /\ BreakOf(p, F).direction = DirectionOf(p[2])
               /\ BreakOf(p, F).kind = "choch"
                    <=> TrendAt(p[1] - 1, F) \notin {"none", DirectionOf(p[2])}
    BY DEF BreakOf, Break
  <2>7. \A p \in G : SweepOf(p).index = p[1] /\ SweepOf(p).swing = p[2]
    BY DEF SweepOf, Sweep
  <2> HIDE DEF F, G, S
  <2>8. {<<b.index, b.swing>> : b \in whole.breaks} = FirstTo(ClosesBeyond, closed, whole.swings)
    <3>1. {<<b.index, b.swing>> : b \in whole.breaks} = F
      BY <2>2, <2>3, <2>6
    <3>2. QED BY <2>2, <2>4, <3>1
  <2>9. \A b, e \in whole.breaks : b.index = e.index => b = e
    BY <2>2, <2>3, <2>6 DEF ApartHits
  <2>10. ASSUME NEW b \in whole.breaks
         PROVE  LET before == {e \in whole.breaks : e.index < b.index}
                IN  (b.kind = "choch") <=>
                      \E e \in before : /\ \A f \in before : f.index <= e.index
                                        /\ e.direction # b.direction
    <3>1. PICK p \in F : b = BreakOf(p, F)
      BY <2>2
    <3>2. \A q \in F : q[1] < p[1] <=> q[1] <= p[1] - 1
      BY <2>3
    <3>3. b.kind = "choch" <=>
            \E q \in F : IsNewest(q, p[1] - 1, F) /\ DirectionOf(q[2]) # DirectionOf(p[2])
      BY <2>3, <2>6, <3>1, TrendFacts
    <3>4. ASSUME NEW q \in F
          PROVE  IsNewest(q, p[1] - 1, F) <=>
                   /\ q[1] < p[1]
                   /\ \A r \in F : r[1] < p[1] => r[1] <= q[1]
      BY <3>2 DEF IsNewest
    <3>5. b.kind = "choch" <=>
            \E q \in F : /\ q[1] < p[1] /\ \A r \in F : r[1] < p[1] => r[1] <= q[1]
                         /\ DirectionOf(q[2]) # DirectionOf(p[2])
      BY <3>3, <3>4
    <3>6. b.index = p[1] /\ b.direction = DirectionOf(p[2])
      BY <2>6, <3>1
    <3> HIDE DEF BreakOf, DirectionOf
    <3>7. (\E e \in whole.breaks : /\ e.index < b.index
                                   /\ \A f \in whole.breaks : f.index < b.index => f.index <= e.index
                                   /\ e.direction # b.direction)
            <=> \E q \in F : /\ q[1] < p[1] /\ \A r \in F : r[1] < p[1] => r[1] <= q[1]
                             /\ DirectionOf(q[2]) # DirectionOf(p[2])
      BY <2>2, <2>6, <3>6
    <3>8. QED BY <3>5, <3>7
  <2>11. SweepsAsDocumented
    <3>1. {<<e.index, e.swing>> : e \in whole.sweeps} = G
      BY <2>2, <2>3, <2>7
    <3>2. QED BY <2>2, <2>5, <3>1 DEF SweepsAsDocumented
  <2>12. QED BY <2>8, <2>9, <2>10, <2>11 DEF DetectorsAsDocumented, BreaksAsDocumented
<1>2. QED BY <1>1, StructureInvariantHolds, PTL

-----------------------------------------------------------------------------
(* What further candles leave as it was. *)
Prefix(cs, ds) ==
  /\ cs \in Seq(Candles) /\ ds \in Seq(Candles)
  /\ Len(cs) <= Len(ds) /\ \A i \in 1..Len(cs) : ds[i] = cs[i]

LEMMA SwingsOfPrefix ==
  ASSUME NEW cs, NEW ds, Prefix(cs, ds)
  PROVE  DetectSwings(cs) = {s \in DetectSwings(ds) : s.confirmed <= Len(cs)}
<1>1. cs \in Seq(Candles) /\ ds \in Seq(Candles) /\ Len(cs) \in Nat /\ Len(ds) \in Nat
  BY DEF Prefix
<1>2. ASSUME NEW i \in Inner(ds)
      PROVE  i \in Inner(cs) <=> i + SwingLookback <= Len(cs)
  BY <1>1, Lookback DEF Inner
<1>3. ASSUME NEW i \in Inner(cs)
      PROVE  /\ i \in Inner(ds) /\ cs[i] = ds[i]
             /\ Neighbours(ds, i) = Neighbours(cs, i)
             /\ \A k \in Neighbours(cs, i) : cs[k] = ds[k]
  <2>1. i \in Inner(ds)
    BY <1>1, Lookback DEF Inner, Prefix
  <2>2. i - SwingLookback \in 1..Len(cs) /\ i + SwingLookback \in 1..Len(cs) /\ i \in 1..Len(cs)
    BY <1>1, InnerIsInside
  <2>3. (i - SwingLookback)..(i + SwingLookback) \subseteq 1..Len(cs)
    BY <1>1, <2>2
  <2>4. (i - SwingLookback)..(i + SwingLookback) \subseteq 1..Len(ds)
    BY <1>1, <2>3 DEF Prefix
  <2>5. DOMAIN cs = 1..Len(cs) /\ DOMAIN ds = 1..Len(ds)
    BY <1>1
  <2>6. QED BY <2>1, <2>2, <2>3, <2>4, <2>5 DEF Neighbours, Prefix
<1>4. ASSUME NEW s \in DetectSwings(cs) PROVE s \in DetectSwings(ds) /\ s.confirmed <= Len(cs)
  <2>1. PICK i \in Inner(cs) :
          \/ s = Swing("high", i, cs[i].high) /\ \A k \in Neighbours(cs, i) : cs[i].high > cs[k].high
          \/ s = Swing("low", i, cs[i].low) /\ \A k \in Neighbours(cs, i) : cs[i].low < cs[k].low
    BY <1>1, SwingIff
  <2>2. /\ i \in Inner(ds)
        /\ \/ s = Swing("high", i, ds[i].high) /\ \A k \in Neighbours(ds, i) : ds[i].high > ds[k].high
           \/ s = Swing("low", i, ds[i].low) /\ \A k \in Neighbours(ds, i) : ds[i].low < ds[k].low
    BY <1>3, <2>1
  <2>3. s \in DetectSwings(ds)
    BY <1>1, <2>2, SwingIff
  <2>4. s.confirmed = i + SwingLookback
    BY <2>1 DEF Swing
  <2>5. QED BY <1>2, <2>2, <2>3, <2>4
<1>5. ASSUME NEW s \in DetectSwings(ds), s.confirmed <= Len(cs) PROVE s \in DetectSwings(cs)
  <2>1. PICK i \in Inner(ds) :
          \/ s = Swing("high", i, ds[i].high) /\ \A k \in Neighbours(ds, i) : ds[i].high > ds[k].high
          \/ s = Swing("low", i, ds[i].low) /\ \A k \in Neighbours(ds, i) : ds[i].low < ds[k].low
    BY <1>1, SwingIff
  <2>2. s.confirmed = i + SwingLookback
    BY <2>1 DEF Swing
  <2>3. i \in Inner(cs)
    BY <1>2, <1>5, <2>2
  <2>4. \/ s = Swing("high", i, cs[i].high) /\ \A k \in Neighbours(cs, i) : cs[i].high > cs[k].high
        \/ s = Swing("low", i, cs[i].low) /\ \A k \in Neighbours(cs, i) : cs[i].low < cs[k].low
    BY <1>3, <2>1, <2>3
  <2>5. QED BY <1>1, <2>3, <2>4, SwingIff
<1>6. QED BY <1>4, <1>5

(* A candle faces the same swing whatever comes after it.                  *)
LEMMA FirstOfPrefix ==
  ASSUME NEW n \in Nat, NEW T, ApartSwings(T), NEW K, K \subseteq (Nat \ {0}) \X T,
         NEW S, S = {s \in T : s.confirmed <= n},
         NEW H, H = {p \in K : p[1] <= n /\ p[2] \in S}
  PROVE  First(S, H) = {p \in First(T, K) : p[1] <= n}
<1>1. \A s \in T : s.confirmed \in Nat
  BY Lookback DEF ApartSwings
<1>2. ASSUME NEW i \in Nat, i <= n, NEW s \in T
      PROVE  LatestAt(i, s, T) <=> s \in S /\ LatestAt(i, s, S)
  BY <1>1, <1>2 DEF LatestAt
<1>3. ASSUME NEW i \in Nat, i <= n, NEW s \in S, NEW j \in (s.confirmed + 1)..(i - 1)
      PROVE  <<j, s>> \in H <=> <<j, s>> \in K
  <2>1. s.confirmed \in Nat
    BY <1>1
  <2>2. j <= n
    BY <1>3, <2>1
  <2>3. QED BY <2>2
<1>4. ASSUME NEW p \in K, p[1] <= n
      PROVE  p \in First(T, K) <=> p \in First(S, H)
  <2>1. p[1] \in Nat /\ p[2] \in T
    OBVIOUS
  <2>2. p \in First(T, K) <=> /\ LatestAt(p[1], p[2], T)
                              /\ \A j \in (p[2].confirmed + 1)..(p[1] - 1) : <<j, p[2]>> \notin K
    BY <2>1 DEF First, Facing
  <2>3. p \in First(S, H) <=> /\ p[2] \in S /\ LatestAt(p[1], p[2], S)
                              /\ \A j \in (p[2].confirmed + 1)..(p[1] - 1) : <<j, p[2]>> \notin H
    BY <1>4, <2>1 DEF First, Facing
  <2>4. QED BY <1>2, <1>3, <1>4, <2>1, <2>2, <2>3
<1>5. First(S, H) \subseteq K /\ First(T, K) \subseteq K /\ \A p \in First(S, H) : p[1] <= n
  BY DEF First
<1>6. QED BY <1>4, <1>5

LEMMA ClosingsOfPrefix ==
  ASSUME NEW cs, NEW ds, Prefix(cs, ds)
  PROVE  FirstClosings(cs) = {p \in FirstClosings(ds) : p[1] <= Len(cs)}
<1> DEFINE S == DetectSwings(cs)
           T == DetectSwings(ds)
           H == Closings(cs, S)
           K == Closings(ds, T)
<1>1. cs \in Seq(Candles) /\ ds \in Seq(Candles) /\ Len(cs) \in Nat /\ Len(ds) \in Nat
  BY DEF Prefix
<1>2. ApartSwings(T) /\ S = {s \in T : s.confirmed <= Len(cs)}
  BY <1>1, DetectedApart, SwingsOfPrefix
<1>3. DOMAIN cs = 1..Len(cs) /\ DOMAIN ds = 1..Len(ds)
  BY <1>1
<1> HIDE DEF S, T
<1>4. K \subseteq (Nat \ {0}) \X T
  BY <1>3 DEF Closings
<1>5. H = {p \in K : p[1] <= Len(cs) /\ p[2] \in S}
  <2>1. ASSUME NEW p \in (DOMAIN ds) \X T, p[1] <= Len(cs), p[2] \in S
        PROVE  p \in (DOMAIN cs) \X S /\ (ClosesBeyond(cs[p[1]], p[2]) <=> ClosesBeyond(ds[p[1]], p[2]))
    <3>1. p[1] \in 1..Len(cs) /\ p = <<p[1], p[2]>>
      BY <1>1, <1>3, <2>1
    <3>2. cs[p[1]] = ds[p[1]]
      BY <3>1 DEF Prefix
    <3>3. QED BY <1>3, <2>1, <3>1, <3>2
  <2>2. ASSUME NEW p \in (DOMAIN cs) \X S
        PROVE  p \in (DOMAIN ds) \X T /\ p[1] <= Len(cs) /\ p[2] \in S
    <3>1. p[1] \in 1..Len(cs) /\ p[1] \in 1..Len(ds) /\ p[2] \in S /\ p[2] \in T /\ p = <<p[1], p[2]>>
      BY <1>1, <1>2, <1>3, <2>2 DEF Prefix
    <3>2. QED BY <1>3, <3>1
  <2>3. QED BY <2>1, <2>2 DEF Closings
<1>6. First(S, H) = {p \in First(T, K) : p[1] <= Len(cs)}
  <2> HIDE DEF H, K
  <2>1. QED BY <1>1, <1>2, <1>4, <1>5, FirstOfPrefix
<1>7. QED BY <1>6 DEF FirstClosings, S, T

LEMMA SweepingsOfPrefix ==
  ASSUME NEW cs, NEW ds, Prefix(cs, ds)
  PROVE  FirstSweepings(cs) = {p \in FirstSweepings(ds) : p[1] <= Len(cs)}
<1> DEFINE S == DetectSwings(cs)
           T == DetectSwings(ds)
           H == Sweepings(cs, S)
           K == Sweepings(ds, T)
<1>1. cs \in Seq(Candles) /\ ds \in Seq(Candles) /\ Len(cs) \in Nat /\ Len(ds) \in Nat
  BY DEF Prefix
<1>2. ApartSwings(T) /\ S = {s \in T : s.confirmed <= Len(cs)}
  BY <1>1, DetectedApart, SwingsOfPrefix
<1>3. DOMAIN cs = 1..Len(cs) /\ DOMAIN ds = 1..Len(ds)
  BY <1>1
<1> HIDE DEF S, T
<1>4. K \subseteq (Nat \ {0}) \X T
  BY <1>3 DEF Sweepings
<1>5. H = {p \in K : p[1] <= Len(cs) /\ p[2] \in S}
  <2>1. ASSUME NEW p \in (DOMAIN ds) \X T, p[1] <= Len(cs), p[2] \in S
        PROVE  p \in (DOMAIN cs) \X S /\ (SweepsOver(cs[p[1]], p[2]) <=> SweepsOver(ds[p[1]], p[2]))
    <3>1. p[1] \in 1..Len(cs) /\ p = <<p[1], p[2]>>
      BY <1>1, <1>3, <2>1
    <3>2. cs[p[1]] = ds[p[1]]
      BY <3>1 DEF Prefix
    <3>3. QED BY <1>3, <2>1, <3>1, <3>2
  <2>2. ASSUME NEW p \in (DOMAIN cs) \X S
        PROVE  p \in (DOMAIN ds) \X T /\ p[1] <= Len(cs) /\ p[2] \in S
    <3>1. p[1] \in 1..Len(cs) /\ p[1] \in 1..Len(ds) /\ p[2] \in S /\ p[2] \in T /\ p = <<p[1], p[2]>>
      BY <1>1, <1>2, <1>3, <2>2 DEF Prefix
    <3>2. QED BY <1>3, <3>1
  <2>3. QED BY <2>1, <2>2 DEF Sweepings
<1>6. First(S, H) = {p \in First(T, K) : p[1] <= Len(cs)}
  <2> HIDE DEF H, K
  <2>1. QED BY <1>1, <1>2, <1>4, <1>5, FirstOfPrefix
<1>7. QED BY <1>6 DEF FirstSweepings, S, T

LEMMA BreaksOfPrefix ==
  ASSUME NEW cs, NEW ds, Prefix(cs, ds)
  PROVE  /\ DetectStructureBreaks(cs, DetectSwings(cs)) =
              {b \in DetectStructureBreaks(ds, DetectSwings(ds)) : b.index <= Len(cs)}
         /\ DetectLiquiditySweeps(cs, DetectSwings(cs)) =
              {e \in DetectLiquiditySweeps(ds, DetectSwings(ds)) : e.index <= Len(cs)}
<1> DEFINE F == FirstClosings(cs)
           G == FirstClosings(ds)
           n == Len(cs)
<1>1. cs \in Seq(Candles) /\ ds \in Seq(Candles) /\ n \in Nat
  BY DEF Prefix
<1>2. F = {p \in G : p[1] <= n} /\ \A p \in G : p[1] \in Nat
  BY <1>1, ClosingsOfPrefix, HitFacts
<1>3. ASSUME NEW p \in F PROVE BreakOf(p, F) = BreakOf(p, G)
  <2>1. p[1] \in Nat /\ p[1] <= n
    BY <1>2
  <2>2. \A q \in G : q[1] <= p[1] - 1 => q \in F
    BY <1>1, <1>2, <2>1
  <2>3. \A q \in G : IsNewest(q, p[1] - 1, G) <=> q \in F /\ IsNewest(q, p[1] - 1, F)
    BY <1>2, <2>2 DEF IsNewest
  <2>4. TrendAt(p[1] - 1, F) = TrendAt(p[1] - 1, G)
    BY <1>2, <2>3 DEF TrendAt
  <2>5. QED BY <2>4 DEF BreakOf
<1>4. \A p \in G : BreakOf(p, G).index = p[1]
  BY DEF BreakOf, Break
<1> HIDE DEF F, G
<1>5. {BreakOf(p, F) : p \in F} = {b \in {BreakOf(p, G) : p \in G} : b.index <= n}
  BY <1>2, <1>3, <1>4
<1>6. \A p \in FirstSweepings(ds) : SweepOf(p).index = p[1]
  BY DEF SweepOf, Sweep
<1>7. FirstSweepings(cs) = {p \in FirstSweepings(ds) : p[1] <= n}
  BY SweepingsOfPrefix
<1>8. {SweepOf(p) : p \in FirstSweepings(cs)}
        = {e \in {SweepOf(p) : p \in FirstSweepings(ds)} : e.index <= n}
  BY <1>6, <1>7
<1>9. QED BY <1>1, <1>5, <1>8, BreaksOf, SweepsOf DEF F, G

-----------------------------------------------------------------------------
(* The averages.                                                           *)
Whole(f, n) == \A k \in 1..n : f[k] \in Int

LEMMA SumsRule ==
  ASSUME NEW n \in Nat, NEW f, \A k \in 1..n : f[k] \in Int
  PROVE  /\ Sums(f, n)[0] = 0
         /\ \A k \in 1..n : Sums(f, n)[k] = Sums(f, n)[k - 1] + f[k]
         /\ \A k \in 0..n : Sums(f, n)[k] \in Int
<1> DEFINE step == [k \in 0..n |-> [x \in Int |-> IF k = 0 THEN x ELSE x + f[k]]]
           Rec(g) == g = [k \in 0..n |-> IF k = 0 THEN 0 ELSE g[k - 1] + f[k]]
           sum == Sums(f, n)
<1>1. step \in [0..n -> [Int -> Int]]
  <2>1. \A k \in 0..n : k # 0 => k \in 1..n
    OBVIOUS
  <2>2. \A k \in 0..n : k # 0 => f[k] \in Int
    BY <2>1
  <2>3. \A k \in 0..n : [x \in Int |-> IF k = 0 THEN x ELSE x + f[k]] \in [Int -> Int]
    BY <2>2
  <2>4. QED BY <2>3
<1>2. PICK g \in [0..n -> Int] : Follows(g, 0, n, 0, step)
  <2>1. 0 \in Nat /\ 0 \in Int
    OBVIOUS
  <2> HIDE DEF step
  <2>2. QED BY <1>1, <2>1, RuleIsFollowed
<1>3. \A k \in 0..n : k # 0 => k - 1 \in 0..n /\ g[k - 1] \in Int
  BY <1>2
<1>4. \A k \in 0..n : k # 0 => step[k][g[k - 1]] = g[k - 1] + f[k]
  BY <1>3
<1> HIDE DEF step
<1>5. Rec(g)
  <2>1. g = [k \in 0..n |-> g[k]]
    BY <1>2
  <2>2. \A k \in 0..n : g[k] = IF k = 0 THEN 0 ELSE g[k - 1] + f[k]
    BY <1>2, <1>4 DEF Follows
  <2>3. QED BY <2>1, <2>2
<1>6. sum = CHOOSE h : Rec(h)
  BY DEF Sums
<1> HIDE DEF sum
<1>7. Rec(sum)
  BY <1>5, <1>6
<1>8. \A k \in 1..n : k \in 0..n /\ k # 0 /\ k - 1 \in 0..n
  OBVIOUS
<1>9. sum[0] = 0 /\ \A k \in 1..n : sum[k] = sum[k - 1] + f[k]
  BY <1>7, <1>8
<1>10. g[0] = 0 /\ \A k \in 1..n : g[k] = g[k - 1] + f[k]
  BY <1>5, <1>8
<1>11. ASSUME NEW k \in 1..n, sum[k - 1] = g[k - 1] PROVE sum[k] = g[k]
  BY <1>9, <1>10, <1>11
<1>12. sum[0] = g[0] /\ n \in Nat
  BY <1>9, <1>10
<1> HIDE DEF Rec
<1>13. AgreeOn(sum, g, 0, n)
  BY <1>11, <1>12, SameFromZero
<1>14. QED BY <1>2, <1>9, <1>13 DEF sum, AgreeOn

LEMMA SumsAgree ==
  ASSUME NEW m \in Nat, NEW n \in Nat, NEW f, NEW g, NEW k \in Nat, k <= m, k <= n,
         Whole(f, m), Whole(g, n), AgreeOn(f, g, 1, k)
  PROVE  Sums(f, m)[k] = Sums(g, n)[k]
<1> DEFINE u == Sums(f, m)
           v == Sums(g, n)
<1>1. u[0] = 0 /\ \A j \in 1..m : u[j] = u[j - 1] + f[j]
  BY SumsRule DEF Whole
<1>2. v[0] = 0 /\ \A j \in 1..n : v[j] = v[j - 1] + g[j]
  BY SumsRule DEF Whole
<1> HIDE DEF u, v
<1>3. \A j \in 1..k : j \in 1..m /\ j \in 1..n
  OBVIOUS
<1>4. \A j \in 1..k : u[j - 1] = v[j - 1] => u[j] = v[j]
  BY <1>1, <1>2, <1>3 DEF AgreeOn
<1>5. AgreeOn(u, v, 0, k)
  BY <1>1, <1>2, <1>4, SameFromZero
<1>6. k \in 0..k
  OBVIOUS
<1>7. QED BY <1>5, <1>6 DEF u, v, AgreeOn

-----------------------------------------------------------------------------
LEMMA Periods ==
  /\ AtrPeriod \in Nat \ {0} /\ RangeAveragePeriod \in Nat \ {0}
  /\ EqualLevelSeparation \in Nat /\ SearchLookback \in Nat \ {0}
  /\ {EqualLevelTenths, FvgTenths, BodyTenths, RangeTenths, CloseTenths} \subseteq Nat
  BY StructureAssumption

LEMMA RangesOf ==
  ASSUME NEW cs \in Seq(Candles)
  PROVE  \A i \in 1..Len(cs) : TrueRanges(cs)[i] \in Int
<1> SUFFICES ASSUME NEW i \in 1..Len(cs) PROVE TrueRanges(cs)[i] \in Int
  OBVIOUS
<1>1. cs[i].high \in Int /\ cs[i].low \in Int
  BY CandleAt
<1>2. CASE i = 1
  BY <1>1, <1>2 DEF TrueRanges, RangeSize
<1>3. CASE i # 1
  <2>1. i - 1 \in 1..Len(cs)
    BY <1>3
  <2>2. cs[i - 1].close \in Int
    BY <2>1, CandleAt
  <2> DEFINE a == RangeSize(cs[i])
             b == Distance(cs[i].high, cs[i - 1].close)
             c == Distance(cs[i].low, cs[i - 1].close)
  <2>3. a \in Int /\ b \in Int /\ c \in Int
    BY <1>1, <2>2 DEF RangeSize, Distance
  <2>4. TrueRanges(cs)[i] = Max({a, b, c})
    BY <1>3 DEF TrueRanges
  <2> HIDE DEF a, b, c
  <2>5. Max({a, b, c}) \in {a, b, c}
    <3>1. \E x \in {a, b, c} : \A y \in {a, b, c} : x >= y
      BY <2>3
    <3>2. QED BY <3>1 DEF Max
  <2>6. QED BY <2>3, <2>4, <2>5
<1>4. QED BY <1>2, <1>3

LEMMA RangesAgree ==
  ASSUME NEW cs, NEW ds, Prefix(cs, ds)
  PROVE  \A i \in 1..Len(cs) : TrueRanges(cs)[i] = TrueRanges(ds)[i]
<1> SUFFICES ASSUME NEW i \in 1..Len(cs) PROVE TrueRanges(cs)[i] = TrueRanges(ds)[i]
  OBVIOUS
<1>1. i \in DOMAIN cs /\ i \in DOMAIN ds /\ cs[i] = ds[i] /\ (i # 1 => cs[i - 1] = ds[i - 1])
  BY DEF Prefix
<1>2. QED BY <1>1 DEF TrueRanges

(* The average true range: what it starts with and how it goes on.         *)
Averages == [num : Int, den : Nat \ {0}]
FirstAtr(cs) == [num |-> Sums(TrueRanges(cs), AtrPeriod)[AtrPeriod], den |-> AtrPeriod]
NextAtr(cs, i, before) ==
  [num |-> before.num * (AtrPeriod - 1) + TrueRanges(cs)[i] * before.den,
   den |-> before.den * AtrPeriod]

LEMMA AtrRule ==
  ASSUME NEW cs \in Seq(Candles)
  PROVE  /\ AverageTrueRange(cs) \in [AtrPeriod..Len(cs) -> Averages]
         /\ AtrPeriod <= Len(cs) => AverageTrueRange(cs)[AtrPeriod] = FirstAtr(cs)
         /\ \A i \in (AtrPeriod + 1)..Len(cs) :
              AverageTrueRange(cs)[i] = NextAtr(cs, i, AverageTrueRange(cs)[i - 1])
<1> DEFINE a == AtrPeriod
           n == Len(cs)
           base == IF a <= n THEN FirstAtr(cs) ELSE [num |-> 0, den |-> 1]
           step == [i \in a..n |-> [x \in Averages |-> NextAtr(cs, i, x)]]
           Rec(g) == g = [i \in a..n |-> IF i = a THEN FirstAtr(cs) ELSE NextAtr(cs, i, g[i - 1])]
           atr == AverageTrueRange(cs)
<1>1. a \in Nat \ {0} /\ n \in Nat
  BY Periods
<1>2. base \in Averages
  <2>1. CASE a <= n
    <3>1. \A k \in 1..a : TrueRanges(cs)[k] \in Int
      <4>1. \A k \in 1..a : k \in 1..n
        BY <1>1, <2>1
      <4>2. QED BY <4>1, RangesOf
    <3>2. a \in Nat /\ a \in 0..a
      BY <1>1
    <3>3. Sums(TrueRanges(cs), a)[a] \in Int
      BY <3>1, <3>2, SumsRule
    <3>4. QED BY <1>1, <2>1, <3>3 DEF FirstAtr, Averages
  <2>2. QED BY <2>1 DEF Averages
<1>3. ASSUME NEW i \in a..n, NEW x \in Averages PROVE NextAtr(cs, i, x) \in Averages
  <2>1. TrueRanges(cs)[i] \in Int
    <3>1. i \in 1..n
      BY <1>1
    <3>2. QED BY <3>1, RangesOf
  <2>2. x.num \in Int /\ x.den \in Nat \ {0}
    BY DEF Averages
  <2>3. x.num * (a - 1) \in Int
    BY <1>1, <2>2
  <2>4. TrueRanges(cs)[i] * x.den \in Int
    BY <2>1, <2>2
  <2>5. x.den * a \in Nat \ {0}
    BY <1>1, <2>2
  <2>6. QED BY <2>3, <2>4, <2>5 DEF NextAtr, Averages
<1> HIDE DEF base
<1>4. step \in [a..n -> [Averages -> Averages]]
  BY <1>3
<1>5. PICK g \in [a..n -> Averages] : Follows(g, a, n, base, step)
  <2>1. a \in Nat
    BY <1>1
  <2> HIDE DEF step, a
  <2>2. QED BY <1>1, <1>2, <1>4, <2>1, RuleIsFollowed
<1>6. \A i \in a..n : i # a => i - 1 \in a..n /\ g[i - 1] \in Averages
  BY <1>1, <1>5
<1>7. \A i \in a..n : i # a => step[i][g[i - 1]] = NextAtr(cs, i, g[i - 1])
  BY <1>6
<1> HIDE DEF step
<1>8. Rec(g)
  <2>1. g = [i \in a..n |-> g[i]]
    BY <1>5
  <2>2. \A i \in a..n : a <= n
    BY <1>1
  <2>3. \A i \in a..n : g[i] = IF i = a THEN FirstAtr(cs) ELSE NextAtr(cs, i, g[i - 1])
    BY <1>5, <1>7, <2>2 DEF Follows, base
  <2>4. QED BY <2>1, <2>3
<1>9. atr = CHOOSE h : Rec(h)
  BY DEF AverageTrueRange, FirstAtr, NextAtr
<1> HIDE DEF atr
<1>10. Rec(atr)
  <2> HIDE DEF Rec
  <2>1. QED BY <1>8, <1>9
<1>11. DOMAIN atr = a..n /\ \A i \in a..n :
         atr[i] = IF i = a THEN FirstAtr(cs) ELSE NextAtr(cs, i, atr[i - 1])
  BY <1>10
<1>12. \A i \in a..n : g[i] = IF i = a THEN FirstAtr(cs) ELSE NextAtr(cs, i, g[i - 1])
  BY <1>8
<1>13. \A i \in (a + 1)..n : i \in a..n /\ i # a
  BY <1>1
<1>14. AgreeOn(atr, g, a, n)
  <2>1. atr[a] = g[a] \/ a > n
    BY <1>1, <1>11, <1>12
  <2>2. \A i \in (a + 1)..n : atr[i - 1] = g[i - 1] => atr[i] = g[i]
    BY <1>11, <1>12, <1>13
  <2>3. a \in Nat
    BY <1>1
  <2> HIDE DEF Rec, a
  <2>4. QED BY <1>1, <2>1, <2>2, <2>3, SameRule
<1>15. atr \in [a..n -> Averages]
  <2>1. \A i \in a..n : atr[i] \in Averages
    BY <1>5, <1>14 DEF AgreeOn
  <2>2. atr = [i \in a..n |-> atr[i]]
    BY <1>10
  <2>3. QED BY <2>1, <2>2
<1>16. a <= n => a \in a..n
  BY <1>1
<1>17. QED BY <1>11, <1>13, <1>15, <1>16 DEF atr

LEMMA AtrAgrees ==
  ASSUME NEW cs, NEW ds, Prefix(cs, ds)
  PROVE  /\ \A i : i \in DOMAIN AverageTrueRange(cs) <=>
                   i \in DOMAIN AverageTrueRange(ds) /\ i <= Len(cs)
         /\ \A i \in DOMAIN AverageTrueRange(cs) : AverageTrueRange(cs)[i] = AverageTrueRange(ds)[i]
<1> DEFINE a == AtrPeriod
           n == Len(cs)
           u == AverageTrueRange(cs)
           v == AverageTrueRange(ds)
<1>1. cs \in Seq(Candles) /\ ds \in Seq(Candles) /\ n \in Nat /\ Len(ds) \in Nat /\ n <= Len(ds)
  BY DEF Prefix
<1>2. a \in Nat \ {0} /\ a \in Nat
  BY Periods
<1>3. DOMAIN u = a..n /\ DOMAIN v = a..Len(ds)
  BY <1>1, AtrRule
<1>4. \A i : i \in DOMAIN u <=> i \in DOMAIN v /\ i <= n
  BY <1>1, <1>2, <1>3
<1>5. u[a] = v[a] \/ a > n
  <2> SUFFICES ASSUME a <= n PROVE u[a] = v[a]
    BY <1>1, <1>2
  <2>1. u[a] = FirstAtr(cs) /\ v[a] = FirstAtr(ds)
    BY <1>1, <1>2, AtrRule
  <2>2. /\ \A j \in 1..a : TrueRanges(cs)[j] \in Int
        /\ \A j \in 1..a : TrueRanges(ds)[j] \in Int
        /\ \A j \in 1..a : TrueRanges(cs)[j] = TrueRanges(ds)[j]
    <3>1. \A j \in 1..a : j \in 1..n /\ j \in 1..Len(ds)
      BY <1>1, <1>2
    <3>2. QED BY <1>1, <3>1, RangesOf, RangesAgree
  <2>3. Sums(TrueRanges(cs), a)[a] = Sums(TrueRanges(ds), a)[a]
    <3> DEFINE f == TrueRanges(cs)
               g == TrueRanges(ds)
    <3>1. /\ \A j \in 1..a : f[j] \in Int
          /\ \A j \in 1..a : g[j] \in Int
          /\ \A j \in 1..a : f[j] = g[j]
      BY <2>2
    <3>2. a <= a
      BY <1>2
    <3> HIDE DEF f, g, a
    <3>3. Whole(f, a) /\ Whole(g, a) /\ AgreeOn(f, g, 1, a)
      BY <3>1 DEF Whole, AgreeOn
    <3>4. Sums(f, a)[a] = Sums(g, a)[a]
      BY <1>2, <3>2, <3>3, SumsAgree
    <3>5. QED BY <3>4 DEF f, g
  <2>4. QED BY <2>1, <2>3 DEF FirstAtr
<1>6. ASSUME NEW i \in (a + 1)..n, u[i - 1] = v[i - 1] PROVE u[i] = v[i]
  <2>1. i \in (a + 1)..Len(ds) /\ i \in 1..n
    BY <1>1, <1>2
  <2>2. u[i] = NextAtr(cs, i, u[i - 1]) /\ v[i] = NextAtr(ds, i, v[i - 1])
    BY <1>1, <2>1, AtrRule
  <2>3. TrueRanges(cs)[i] = TrueRanges(ds)[i]
    BY <2>1, RangesAgree
  <2>4. QED BY <1>6, <2>2, <2>3 DEF NextAtr
<1> HIDE DEF u, v, a, n
<1>7. AgreeOn(u, v, a, n)
  BY <1>1, <1>2, <1>5, <1>6, SameRule
<1>8. QED BY <1>3, <1>4, <1>7 DEF u, v, n, AgreeOn

LEMMA MeansAgree ==
  ASSUME NEW cs, NEW ds, Prefix(cs, ds)
  PROVE  /\ \A i : i \in DOMAIN RollingMean(cs) <=> i \in DOMAIN RollingMean(ds) /\ i <= Len(cs)
         /\ \A i \in DOMAIN RollingMean(cs) : RollingMean(cs)[i] = RollingMean(ds)[i]
<1> DEFINE r == RangeAveragePeriod
           m == Len(cs)
           n == Len(ds)
           f == [i \in DOMAIN cs |-> RangeSize(cs[i])]
           g == [i \in DOMAIN ds |-> RangeSize(ds[i])]
<1>1. /\ cs \in Seq(Candles) /\ ds \in Seq(Candles) /\ m \in Nat /\ n \in Nat /\ m <= n
      /\ DOMAIN cs = 1..m /\ DOMAIN ds = 1..n
  BY DEF Prefix
<1>2. r \in Nat \ {0}
  BY Periods
<1>3. DOMAIN RollingMean(cs) = r..m /\ DOMAIN RollingMean(ds) = r..n
  BY DEF RollingMean
<1>4. \A j \in 1..m : f[j] \in Int
  BY <1>1, CandleAt DEF RangeSize
<1>5. \A j \in 1..n : g[j] \in Int
  BY <1>1, CandleAt DEF RangeSize
<1>6. \A j \in 1..m : f[j] = g[j]
  <2>1. \A j \in 1..m : j \in 1..n /\ cs[j] = ds[j]
    BY <1>1 DEF Prefix
  <2>2. QED BY <1>1, <2>1
<1>7. /\ \A i \in r..m : RollingMean(cs)[i] = [num |-> Sums(f, m)[i] - Sums(f, m)[i - r], den |-> r]
      /\ \A i \in r..n : RollingMean(ds)[i] = [num |-> Sums(g, n)[i] - Sums(g, n)[i - r], den |-> r]
  BY DEF RollingMean
<1> HIDE DEF f, g
<1>8. ASSUME NEW k \in Nat, k <= m PROVE Sums(f, m)[k] = Sums(g, n)[k]
  <2>1. k <= n /\ AgreeOn(f, g, 1, k)
    BY <1>1, <1>6, <1>8 DEF AgreeOn
  <2>2. Whole(f, m) /\ Whole(g, n)
    BY <1>4, <1>5 DEF Whole
  <2> HIDE DEF m, n
  <2>3. QED BY <1>1, <1>8, <2>1, <2>2, SumsAgree
<1>9. ASSUME NEW i \in r..m PROVE RollingMean(cs)[i] = RollingMean(ds)[i]
  <2>1. i \in Nat /\ i <= m /\ i - r \in Nat /\ i - r <= m /\ i \in r..n
    BY <1>1, <1>2
  <2>2. Sums(f, m)[i] = Sums(g, n)[i] /\ Sums(f, m)[i - r] = Sums(g, n)[i - r]
    BY <1>8, <2>1
  <2>3. QED BY <1>7, <2>1, <2>2
<1>10. \A i : i \in DOMAIN RollingMean(cs) <=> i \in DOMAIN RollingMean(ds) /\ i <= m
  BY <1>1, <1>2, <1>3
<1>11. QED BY <1>3, <1>9, <1>10

-----------------------------------------------------------------------------
LEMMA LevelsOfPrefix ==
  ASSUME NEW cs, NEW ds, Prefix(cs, ds)
  PROVE  DetectEqualLevels(DetectSwings(cs), AverageTrueRange(cs)) =
           {p \in DetectEqualLevels(DetectSwings(ds), AverageTrueRange(ds)) :
              p[2].confirmed <= Len(cs)}
<1> DEFINE S == DetectSwings(cs)
           T == DetectSwings(ds)
           u == AverageTrueRange(cs)
           v == AverageTrueRange(ds)
           n == Len(cs)
<1>1. ds \in Seq(Candles) /\ n \in Nat
  BY DEF Prefix
<1>2. S = {s \in T : s.confirmed <= n}
  BY SwingsOfPrefix
<1>3. /\ \A i : i \in DOMAIN u <=> i \in DOMAIN v /\ i <= n
      /\ \A i \in DOMAIN u : u[i] = v[i]
  BY AtrAgrees
<1>4. \A s \in T : s.index \in Nat /\ s.confirmed = s.index + SwingLookback
  BY <1>1, DetectedApart DEF ApartSwings
<1>5. SwingLookback \in Nat
  BY Lookback
<1> HIDE DEF S, T, u, v, n
<1>6. ASSUME NEW a \in T, NEW b \in T, b.confirmed <= n, a.index < b.index
      PROVE  a \in S /\ b \in S /\ (Consecutive(S, a, b) <=> Consecutive(T, a, b))
  <2>1. a.confirmed <= n
    BY <1>1, <1>4, <1>5, <1>6
  <2>2. \A s \in T : s.index < b.index => s \in S
    BY <1>1, <1>2, <1>4, <1>5, <1>6
  <2>3. QED BY <1>2, <1>6, <2>1, <2>2 DEF Consecutive
<1>7. ASSUME NEW p \in T \X T, p[2].confirmed <= n
      PROVE  p \in DetectEqualLevels(S, u) <=> p \in DetectEqualLevels(T, v)
  <2>1. p[1] \in T /\ p[2] \in T /\ p = <<p[1], p[2]>>
    OBVIOUS
  <2>2. CASE p[1].index < p[2].index
    <3>1. p \in S \X S /\ (Consecutive(S, p[1], p[2]) <=> Consecutive(T, p[1], p[2]))
      BY <1>6, <1>7, <2>1, <2>2
    <3>2. p[2].confirmed \in DOMAIN u <=> p[2].confirmed \in DOMAIN v
      BY <1>3, <1>7
    <3>3. QED BY <1>3, <3>1, <3>2 DEF DetectEqualLevels
  <2>3. CASE ~(p[1].index < p[2].index)
    BY <2>3 DEF DetectEqualLevels, Consecutive
  <2>4. QED BY <2>2, <2>3
<1>8. \A p \in DetectEqualLevels(S, u) : p \in T \X T /\ p[2].confirmed <= n
  BY <1>2 DEF DetectEqualLevels
<1>9. \A p \in DetectEqualLevels(T, v) : p \in T \X T
  BY DEF DetectEqualLevels
<1>10. QED BY <1>7, <1>8, <1>9 DEF S, T, u, v, n

-----------------------------------------------------------------------------
(* The candles that displace.                                              *)
Displaces(cs, j) ==
  /\ j \in DOMAIN AverageTrueRange(cs) /\ j \in DOMAIN RollingMean(cs)
  /\ Direction(cs[j]) # "none" /\ RangeSize(cs[j]) # 0
  /\ AtLeast(BodySize(cs[j]), AverageTrueRange(cs)[j], BodyTenths)
  /\ AtLeast(RangeSize(cs[j]), RollingMean(cs)[j], RangeTenths)
  /\ ClosesNearExtreme(cs[j])

DisplacementAt(cs, j) == [direction |-> Direction(cs[j]), index |-> j]

LEMMA DisplacementIff ==
  ASSUME NEW cs \in Seq(Candles), NEW d
  PROVE  d \in DetectDisplacements(cs, AverageTrueRange(cs)) <=>
           \E j \in 1..Len(cs) : Displaces(cs, j) /\ d = DisplacementAt(cs, j)
<1>1. \A j : Displaces(cs, j) => j \in 1..Len(cs)
  <2>1. DOMAIN AverageTrueRange(cs) = AtrPeriod..Len(cs) /\ AtrPeriod \in Nat \ {0}
    BY AtrRule, Periods
  <2>2. QED BY <2>1 DEF Displaces
<1>2. d \in DetectDisplacements(cs, AverageTrueRange(cs)) <=>
        \E j : Displaces(cs, j) /\ d = DisplacementAt(cs, j)
  BY DEF DetectDisplacements, Displaces, DisplacementAt
<1>3. QED BY <1>1, <1>2

LEMMA DisplacesInPrefix ==
  ASSUME NEW cs, NEW ds, Prefix(cs, ds), NEW j \in 1..Len(cs)
  PROVE  /\ Displaces(cs, j) <=> Displaces(ds, j)
         /\ DisplacementAt(cs, j) = DisplacementAt(ds, j)
<1>1. cs[j] = ds[j] /\ j <= Len(cs)
  BY DEF Prefix
<1>2. j \in DOMAIN AverageTrueRange(cs) <=> j \in DOMAIN AverageTrueRange(ds)
  BY <1>1, AtrAgrees
<1>3. j \in DOMAIN RollingMean(cs) <=> j \in DOMAIN RollingMean(ds)
  BY <1>1, MeansAgree
<1>4. j \in DOMAIN AverageTrueRange(cs) => AverageTrueRange(cs)[j] = AverageTrueRange(ds)[j]
  BY AtrAgrees
<1>5. j \in DOMAIN RollingMean(cs) => RollingMean(cs)[j] = RollingMean(ds)[j]
  BY MeansAgree
<1>6. QED BY <1>1, <1>2, <1>3, <1>4, <1>5 DEF Displaces, DisplacementAt

LEMMA DisplacementsOfPrefix ==
  ASSUME NEW cs, NEW ds, Prefix(cs, ds)
  PROVE  DetectDisplacements(cs, AverageTrueRange(cs)) =
           {d \in DetectDisplacements(ds, AverageTrueRange(ds)) : d.index <= Len(cs)}
<1>1. cs \in Seq(Candles) /\ ds \in Seq(Candles)
  BY DEF Prefix
<1>2. \A j : DisplacementAt(ds, j).index = j
  BY DEF DisplacementAt
<1>3. 1..Len(cs) = {j \in 1..Len(ds) : j <= Len(cs)}
  BY <1>1 DEF Prefix
<1>4. ASSUME NEW d PROVE d \in DetectDisplacements(cs, AverageTrueRange(cs)) <=>
        d \in DetectDisplacements(ds, AverageTrueRange(ds)) /\ d.index <= Len(cs)
  <2>1. d \in DetectDisplacements(cs, AverageTrueRange(cs)) <=>
          \E j \in 1..Len(cs) : Displaces(ds, j) /\ d = DisplacementAt(ds, j)
    BY <1>1, DisplacementIff, DisplacesInPrefix
  <2>2. d \in DetectDisplacements(ds, AverageTrueRange(ds)) <=>
          \E j \in 1..Len(ds) : Displaces(ds, j) /\ d = DisplacementAt(ds, j)
    BY <1>1, DisplacementIff
  <2>3. QED BY <1>2, <1>3, <2>1, <2>2
<1>5. QED BY <1>4

-----------------------------------------------------------------------------
(* The candles that leave a gap, and the gaps.                             *)
BullishGap(cs, j) ==
  /\ j \in DOMAIN AverageTrueRange(cs) /\ j >= 3
  /\ cs[j].low > cs[j - 2].high
  /\ AtLeast(cs[j].low - cs[j - 2].high, AverageTrueRange(cs)[j], FvgTenths)

BearishGap(cs, j) ==
  /\ j \in DOMAIN AverageTrueRange(cs) /\ j >= 3
  /\ cs[j].high < cs[j - 2].low
  /\ AtLeast(cs[j - 2].low - cs[j].high, AverageTrueRange(cs)[j], FvgTenths)

BullishGapAt(cs, j) == ResolveGap(cs, "bullish", j, cs[j - 2].high, cs[j].low)
BearishGapAt(cs, j) == ResolveGap(cs, "bearish", j, cs[j].high, cs[j - 2].low)

LEMMA GapIff ==
  ASSUME NEW cs \in Seq(Candles), NEW z
  PROVE  z \in DetectFairValueGaps(cs, AverageTrueRange(cs)) <=>
           \E j \in 3..Len(cs) : \/ BullishGap(cs, j) /\ z = BullishGapAt(cs, j)
                                 \/ BearishGap(cs, j) /\ z = BearishGapAt(cs, j)
<1>1. \A j \in DOMAIN AverageTrueRange(cs) : j >= 3 => j \in 3..Len(cs)
  <2>1. DOMAIN AverageTrueRange(cs) = AtrPeriod..Len(cs) /\ AtrPeriod \in Nat \ {0}
    BY AtrRule, Periods
  <2>2. QED BY <2>1
<1>2. \A j : BullishGap(cs, j) \/ BearishGap(cs, j) => j \in 3..Len(cs)
  BY <1>1 DEF BullishGap, BearishGap
<1>3. z \in DetectFairValueGaps(cs, AverageTrueRange(cs)) <=>
        \E j : \/ BullishGap(cs, j) /\ z = BullishGapAt(cs, j)
               \/ BearishGap(cs, j) /\ z = BearishGapAt(cs, j)
  BY DEF DetectFairValueGaps, BullishGap, BearishGap, BullishGapAt, BearishGapAt
<1>4. QED BY <1>2, <1>3

(* The breaks that make an order block, and the block of one.              *)
Displacing(cs, b) ==
  /\ b \in DetectStructureBreaks(cs, DetectSwings(cs))
  /\ [direction |-> b.direction, index |-> b.index] \in DetectDisplacements(cs, AverageTrueRange(cs))
  /\ Sources(cs, b) # {}

SourceOf(cs, b) == Max(Sources(cs, b))

MakesBlock(cs, b) ==
  /\ Displacing(cs, b)
  /\ \A e : Displacing(cs, e) /\ e.direction = b.direction /\ SourceOf(cs, e) = SourceOf(cs, b)
             => b.index <= e.index

BlockOf(cs, b) == ResolveOrderBlock(cs, b.direction, b.index, SourceOf(cs, b))

LEMMA BlockIff ==
  ASSUME NEW cs \in Seq(Candles), NEW z
  PROVE  z \in DetectOrderBlocks(cs, DetectStructureBreaks(cs, DetectSwings(cs)),
                                 DetectDisplacements(cs, AverageTrueRange(cs)))
           <=> \E b : MakesBlock(cs, b) /\ z = BlockOf(cs, b)
<1> DEFINE breaks == DetectStructureBreaks(cs, DetectSwings(cs))
           displacements == DetectDisplacements(cs, AverageTrueRange(cs))
           displacing == {b \in breaks : Displacing(cs, b)}
           makers == {b \in displacing : MakesBlock(cs, b)}
<1> HIDE DEF breaks, displacements
<1>1. DetectOrderBlocks(cs, breaks, displacements) =
        {ResolveOrderBlock(cs, b.direction, b.index, Max(Sources(cs, b))) :
           b \in {e \in displacing :
                    \A f \in displacing :
                       f.direction = e.direction /\ Max(Sources(cs, f)) = Max(Sources(cs, e))
                         => e.index <= f.index}}
  BY DEF DetectOrderBlocks, Displacing, breaks, displacements
<1>2. \A b : b \in displacing <=> Displacing(cs, b)
  BY DEF Displacing, breaks
<1>3. {e \in displacing :
         \A f \in displacing :
            f.direction = e.direction /\ Max(Sources(cs, f)) = Max(Sources(cs, e))
              => e.index <= f.index} = makers
  BY <1>2 DEF MakesBlock, SourceOf
<1>4. \A b : b \in makers <=> MakesBlock(cs, b)
  BY <1>2 DEF MakesBlock
<1> HIDE DEF makers, displacing
<1>5. DetectOrderBlocks(cs, breaks, displacements) = {BlockOf(cs, b) : b \in makers}
  BY <1>1, <1>3 DEF BlockOf, SourceOf
<1>6. QED BY <1>4, <1>5 DEF breaks, displacements

LEMMA GapsInPrefix ==
  ASSUME NEW cs, NEW ds, Prefix(cs, ds), NEW j \in 3..Len(cs)
  PROVE  /\ BullishGap(cs, j) <=> BullishGap(ds, j)
         /\ BearishGap(cs, j) <=> BearishGap(ds, j)
         /\ cs[j] = ds[j] /\ cs[j - 2] = ds[j - 2]
<1>1. j \in 1..Len(cs) /\ j - 2 \in 1..Len(cs) /\ j <= Len(cs)
  BY DEF Prefix
<1>2. cs[j] = ds[j] /\ cs[j - 2] = ds[j - 2]
  BY <1>1 DEF Prefix
<1>3. j \in DOMAIN AverageTrueRange(cs) <=> j \in DOMAIN AverageTrueRange(ds)
  BY <1>1, AtrAgrees
<1>4. j \in DOMAIN AverageTrueRange(cs) => AverageTrueRange(cs)[j] = AverageTrueRange(ds)[j]
  BY AtrAgrees
<1>5. QED BY <1>2, <1>3, <1>4 DEF BullishGap, BearishGap

LEMMA BlocksInPrefix ==
  ASSUME NEW cs, NEW ds, Prefix(cs, ds)
  PROVE  \A b : /\ MakesBlock(cs, b) <=> MakesBlock(ds, b) /\ b.index <= Len(cs)
                /\ MakesBlock(cs, b) => /\ SourceOf(cs, b) = SourceOf(ds, b)
                                        /\ Sources(cs, b) = Sources(ds, b)
                                        /\ b.index \in 1..Len(cs)
<1> DEFINE n == Len(cs)
<1>1. /\ cs \in Seq(Candles) /\ ds \in Seq(Candles) /\ n \in Nat /\ Len(ds) \in Nat /\ n <= Len(ds)
      /\ DOMAIN cs = 1..n /\ DOMAIN ds = 1..Len(ds) /\ SearchLookback \in Nat
  BY Periods DEF Prefix
<1>2. ASSUME NEW b \in DetectStructureBreaks(ds, DetectSwings(ds))
      PROVE  b.index \in 1..Len(ds)
  <2>1. PICK p \in FirstClosings(ds) : b = BreakOf(p, FirstClosings(ds))
    BY <1>1, BreaksOf
  <2>2. b.index = p[1]
    BY <2>1 DEF BreakOf, Break
  <2>3. QED BY <1>1, <2>2, HitFacts
<1>3. ASSUME NEW b, b.index \in 1..n
      PROVE  Sources(cs, b) = Sources(ds, b)
  <2>1. \A j \in (b.index - SearchLookback)..(b.index - 1) :
          (j \in DOMAIN cs <=> j \in DOMAIN ds) /\ (j \in DOMAIN cs => cs[j] = ds[j])
    BY <1>1, <1>3 DEF Prefix
  <2>2. QED BY <2>1 DEF Sources
<1>4. ASSUME NEW b PROVE Displacing(cs, b) <=> Displacing(ds, b) /\ b.index <= n
  <2> DEFINE d == [direction |-> b.direction, index |-> b.index]
  <2>1. b \in DetectStructureBreaks(cs, DetectSwings(cs)) <=>
          b \in DetectStructureBreaks(ds, DetectSwings(ds)) /\ b.index <= n
    BY BreaksOfPrefix
  <2>2. d \in DetectDisplacements(cs, AverageTrueRange(cs)) <=>
          d \in DetectDisplacements(ds, AverageTrueRange(ds)) /\ b.index <= n
    BY DisplacementsOfPrefix
  <2>3. b \in DetectStructureBreaks(ds, DetectSwings(ds)) /\ b.index <= n => b.index \in 1..n
    BY <1>1, <1>2
  <2>4. QED BY <1>3, <2>1, <2>2, <2>3 DEF Displacing
<1>5. \A b : Displacing(ds, b) => b.index \in 1..Len(ds)
  BY <1>2 DEF Displacing
<1>6. \A b : Displacing(cs, b) => b.index \in 1..n
  BY <1>1, <1>4, <1>5
<1>7. \A b : Displacing(cs, b) => SourceOf(cs, b) = SourceOf(ds, b)
  BY <1>3, <1>6 DEF SourceOf
<1>8. ASSUME NEW b, Displacing(cs, b) PROVE MakesBlock(cs, b) <=> MakesBlock(ds, b)
  <2>1. Displacing(ds, b) /\ b.index \in 1..n
    BY <1>4, <1>6, <1>8
  <2>2. ASSUME NEW e, Displacing(ds, e), ~Displacing(cs, e) PROVE b.index <= e.index
    <3>1. e.index \in 1..Len(ds) /\ ~(e.index <= n)
      BY <1>4, <1>5, <2>2
    <3>2. QED BY <1>1, <2>1, <3>1
  <2>3. \A e : Displacing(cs, e) => Displacing(ds, e) /\ SourceOf(cs, e) = SourceOf(ds, e)
    BY <1>4, <1>7
  <2>4. SourceOf(cs, b) = SourceOf(ds, b)
    BY <1>7, <1>8
  <2>5. QED BY <1>8, <2>1, <2>2, <2>3, <2>4 DEF MakesBlock
<1>9. QED BY <1>3, <1>4, <1>6, <1>7, <1>8 DEF MakesBlock

-----------------------------------------------------------------------------
LEMMA AnalysisOfPrefix ==
  ASSUME NEW cs, NEW ds, Prefix(cs, ds)
  PROVE  LET n == Len(cs)
             old == Analyze(cs)
             new == Analyze(ds)
         IN  /\ old.swings = {s \in new.swings : s.confirmed <= n}
             /\ old.breaks = {b \in new.breaks : b.index <= n}
             /\ old.sweeps = {e \in new.sweeps : e.index <= n}
             /\ old.levels = {p \in new.levels : p[2].confirmed <= n}
             /\ old.displacements = {d \in new.displacements : d.index <= n}
  BY SwingsOfPrefix, BreaksOfPrefix, LevelsOfPrefix, DisplacementsOfPrefix, Analysis

(* How a zone comes out of what has touched and ended it.                  *)
Origin(z) == [direction |-> z.direction, source |-> z.source, created |-> z.created,
              lower |-> z.lower, upper |-> z.upper]

Positive(T) == \A x \in T : x \in Nat /\ x > 0

LEMMA FirstOfFacts ==
  ASSUME NEW T, Positive(T)
  PROVE  /\ T = {} => FirstOf(T) = 0
         /\ T # {} => FirstOf(T) \in T /\ \A x \in T : FirstOf(T) <= x
<1> DEFINE R == OpToRel(<, Nat)
<1>1. ASSUME T # {} PROVE \E x \in T : \A y \in T : x <= y
  <2>1. T \subseteq Nat
    BY DEF Positive
  <2>2. PICK x \in T : \A y \in T : ~(<<y, x>> \in R)
    BY <1>1, <2>1, NatLessThanWellFounded, WFMin
  <2>3. \A y, z \in Nat : <<y, z>> \in R <=> y < z
    BY DEF OpToRel
  <2> HIDE DEF R
  <2>4. ASSUME NEW y \in T PROVE x <= y
    <3>1. ~(y < x) /\ x \in Nat /\ y \in Nat
      BY <2>1, <2>2, <2>3
    <3>2. QED BY <3>1
  <2>5. QED BY <2>4
<1>2. QED BY <1>1 DEF FirstOf

(* More candles touch or end a zone later than the ones there were.        *)
LEMMA ZoneAges ==
  ASSUME NEW n \in Nat, NEW t, NEW e, Positive(t), Positive(e),
         NEW direction, NEW source, NEW created, NEW lower, NEW upper, NEW last
  PROVE  Ages(Zone(direction, source, created, lower, upper,
                   {j \in t : j <= n}, {j \in e : j <= n}, last),
              Zone(direction, source, created, lower, upper, t, e, last))
<1> DEFINE told == {j \in t : j <= n}
           eold == {j \in e : j <= n}
           old == Zone(direction, source, created, lower, upper, told, eold, last)
           new == Zone(direction, source, created, lower, upper, t, e, last)
           bold == IF FirstOf(eold) = 0 THEN told ELSE {i \in told : i <= FirstOf(eold)}
           bnew == IF FirstOf(e) = 0 THEN t ELSE {i \in t : i <= FirstOf(e)}
<1>1. Positive(told) /\ Positive(eold) /\ Positive(bold) /\ Positive(bnew)
  BY DEF Positive
<1>2. /\ eold = {} => FirstOf(eold) = 0
      /\ eold # {} => FirstOf(eold) \in eold /\ \A x \in eold : FirstOf(eold) <= x
  BY <1>1, FirstOfFacts
<1>3. /\ e = {} => FirstOf(e) = 0
      /\ e # {} => FirstOf(e) \in e /\ \A x \in e : FirstOf(e) <= x
  BY FirstOfFacts
<1>4. /\ bold = {} => FirstOf(bold) = 0
      /\ bold # {} => FirstOf(bold) \in bold /\ \A x \in bold : FirstOf(bold) <= x
  BY <1>1, FirstOfFacts
<1>5. /\ bnew = {} => FirstOf(bnew) = 0
      /\ bnew # {} => FirstOf(bnew) \in bnew /\ \A x \in bnew : FirstOf(bnew) <= x
  BY <1>1, FirstOfFacts
<1>6. /\ old = [direction |-> direction, source |-> source, created |-> created,
                lower |-> lower, upper |-> upper,
                status |-> IF FirstOf(eold) # 0 THEN last
                           ELSE IF bold # {} THEN "partially_filled" ELSE "open",
                touched |-> FirstOf(bold), ended |-> FirstOf(eold)]
      /\ new = [direction |-> direction, source |-> source, created |-> created,
                lower |-> lower, upper |-> upper,
                status |-> IF FirstOf(e) # 0 THEN last
                           ELSE IF bnew # {} THEN "partially_filled" ELSE "open",
                touched |-> FirstOf(bnew), ended |-> FirstOf(e)]
  <2> HIDE DEF told, eold
  <2>1. old = [direction |-> direction, source |-> source, created |-> created,
               lower |-> lower, upper |-> upper,
               status |-> IF FirstOf(eold) # 0 THEN last
                          ELSE IF bold # {} THEN "partially_filled" ELSE "open",
               touched |-> FirstOf(bold), ended |-> FirstOf(eold)]
    BY Zenon DEF Zone
  <2>2. new = [direction |-> direction, source |-> source, created |-> created,
               lower |-> lower, upper |-> upper,
               status |-> IF FirstOf(e) # 0 THEN last
                          ELSE IF bnew # {} THEN "partially_filled" ELSE "open",
               touched |-> FirstOf(bnew), ended |-> FirstOf(e)]
    BY Zenon DEF Zone
  <2> HIDE DEF old, new, bold, bnew
  <2>3. QED BY <2>1, <2>2
<1>7. Origins({old}) = Origins({new})
  <2>1. \A z : Origins({z}) = {Origin(z)}
    BY DEF Origins, Origin
  <2> HIDE DEF old, new
  <2>2. Origin(old) = Origin(new)
    BY <1>6 DEF Origin
  <2>3. QED BY <2>1, <2>2
<1>8. /\ \A x : x \in told <=> x \in t /\ x <= n
      /\ \A x : x \in eold <=> x \in e /\ x <= n
      /\ \A x : x \in bold <=> x \in told /\ (FirstOf(eold) = 0 \/ x <= FirstOf(eold))
      /\ \A x : x \in bnew <=> x \in t /\ (FirstOf(e) = 0 \/ x <= FirstOf(e))
  <2>1. \A x : x \in told <=> x \in t /\ x <= n
    OBVIOUS
  <2>2. \A x : x \in eold <=> x \in e /\ x <= n
    OBVIOUS
  <2> HIDE DEF told, eold
  <2>3. \A x : x \in bold <=> x \in told /\ (FirstOf(eold) = 0 \/ x <= FirstOf(eold))
    OBVIOUS
  <2>4. \A x : x \in bnew <=> x \in t /\ (FirstOf(e) = 0 \/ x <= FirstOf(e))
    OBVIOUS
  <2>5. QED BY <2>1, <2>2, <2>3, <2>4
<1>9. /\ \A x \in t : x \in Nat /\ x > 0
      /\ \A x \in e : x \in Nat /\ x > 0
  BY DEF Positive
<1> HIDE DEF told, eold, bold, bnew
<1>10. ASSUME eold # {} PROVE Ages(old, new)
  <2>1. FirstOf(e) = FirstOf(eold)
    <3>1. FirstOf(eold) \in e /\ FirstOf(eold) <= n
      BY <1>2, <1>8, <1>10
    <3>2. FirstOf(e) \in e /\ FirstOf(e) <= FirstOf(eold)
      BY <1>3, <3>1
    <3>3. FirstOf(e) \in eold
      BY <1>8, <1>9, <3>1, <3>2
    <3>4. FirstOf(eold) <= FirstOf(e)
      BY <1>2, <3>3
    <3>5. QED BY <1>9, <3>1, <3>2, <3>4
  <2>2. FirstOf(e) # 0 /\ FirstOf(e) <= n /\ FirstOf(e) \in Nat
    BY <1>2, <1>8, <1>9, <1>10, <2>1
  <2>3. bold = bnew
    BY <1>8, <1>9, <2>1, <2>2
  <2>4. old = new
    BY <1>6, <2>1, <2>3
  <2> HIDE DEF old, new
  <2>5. QED BY <1>7, <2>4 DEF Ages
<1>11. ASSUME eold = {} PROVE Ages(old, new)
  <2>1. FirstOf(eold) = 0 /\ old.ended = 0
    BY <1>2, <1>6, <1>11
  <2>2. old.touched = FirstOf(bold) /\ new.touched = FirstOf(bnew) /\ new.ended = FirstOf(e)
    BY <1>6
  <2>3. FirstOf(e) # 0 => FirstOf(e) \in Nat /\ FirstOf(e) > n
    <3>1. \A x \in e : x > n
      BY <1>8, <1>9, <1>11
    <3>2. QED BY <1>3, <1>9, <3>1
  <2>4. \A x : x \in bold <=> x \in bnew /\ x <= n
    BY <1>8, <1>9, <2>1, <2>3
  <2>5. CASE bold # {}
    <3>1. FirstOf(bold) \in bold /\ \A x \in bold : FirstOf(bold) <= x
      BY <1>4, <2>5
    <3>2. FirstOf(bnew) \in bnew /\ \A x \in bnew : FirstOf(bnew) <= x
      BY <1>5, <2>4, <3>1
    <3>3. \A x \in bnew : x \in Nat
      BY <1>1 DEF Positive
    <3>4. FirstOf(bold) \in bnew /\ FirstOf(bold) <= n
      BY <2>4, <3>1
    <3>5. FirstOf(bnew) \in bold
      BY <2>4, <3>2, <3>3, <3>4
    <3>6. FirstOf(bold) = FirstOf(bnew)
      BY <3>1, <3>2, <3>3, <3>4, <3>5
    <3>7. new.ended # 0 \/ new.status = "partially_filled"
      BY <1>6, <3>2
    <3> HIDE DEF old, new
    <3>8. QED BY <1>7, <2>1, <2>2, <3>6, <3>7 DEF Ages
  <2>6. CASE bold = {}
    <3>1. old.touched = 0
      BY <1>4, <2>2, <2>6
    <3>2. CASE FirstOf(e) # 0
      <4> HIDE DEF old, new
      <4>1. QED BY <1>7, <2>1, <2>2, <3>1, <3>2 DEF Ages
    <3>3. CASE FirstOf(e) = 0 /\ bnew # {}
      <4>1. new.status = "partially_filled"
        BY <1>6, <3>3
      <4> HIDE DEF old, new
      <4>2. QED BY <1>7, <2>1, <3>1, <4>1 DEF Ages
    <3>4. CASE FirstOf(e) = 0 /\ bnew = {}
      <4>1. old = new
        BY <1>6, <2>1, <2>6, <3>4
      <4> HIDE DEF old, new
      <4>2. QED BY <1>7, <4>1 DEF Ages
    <3>5. QED BY <3>2, <3>3, <3>4
  <2>7. QED BY <2>5, <2>6
<1>12. Ages(old, new)
  BY <1>10, <1>11
<1>13. QED BY <1>12 DEF told, eold

LEMMA GapAges ==
  ASSUME NEW cs, NEW ds, Prefix(cs, ds), NEW i \in 1..Len(cs), NEW direction, NEW lower, NEW upper
  PROVE  /\ Ages(ResolveGap(cs, direction, i, lower, upper), ResolveGap(ds, direction, i, lower, upper))
         /\ ResolveGap(cs, direction, i, lower, upper).created = i
<1> DEFINE n == Len(cs)
           bullish == direction = "bullish"
           t == {j \in Later(ds, i) : IF bullish THEN ds[j].low < upper ELSE ds[j].high > lower}
           e == {j \in Later(ds, i) : IF bullish THEN ds[j].low <= lower ELSE ds[j].high >= upper}
<1>1. n \in Nat /\ Len(ds) \in Nat /\ n <= Len(ds)
  BY DEF Prefix
<1>2. \A j : j \in Later(cs, i) <=> j \in Later(ds, i) /\ j <= n
  BY <1>1 DEF Later
<1>3. \A j \in Later(cs, i) : cs[j] = ds[j]
  BY <1>1 DEF Later, Prefix
<1>4. {j \in Later(cs, i) : IF bullish THEN cs[j].low < upper ELSE cs[j].high > lower}
        = {j \in t : j <= n}
  BY <1>2, <1>3
<1>5. {j \in Later(cs, i) : IF bullish THEN cs[j].low <= lower ELSE cs[j].high >= upper}
        = {j \in e : j <= n}
  BY <1>2, <1>3
<1>6. Positive(t) /\ Positive(e)
  BY <1>1 DEF Later, Positive
<1>7. ResolveGap(cs, direction, i, lower, upper) =
        Zone(direction, i - 2, i, lower, upper, {j \in t : j <= n}, {j \in e : j <= n}, "filled")
  BY <1>4, <1>5 DEF ResolveGap
<1>8. ResolveGap(ds, direction, i, lower, upper) = Zone(direction, i - 2, i, lower, upper, t, e, "filled")
  BY DEF ResolveGap
<1> HIDE DEF t, e, n
<1>9. Ages(Zone(direction, i - 2, i, lower, upper, {j \in t : j <= n}, {j \in e : j <= n}, "filled"),
           Zone(direction, i - 2, i, lower, upper, t, e, "filled"))
  BY <1>1, <1>6, ZoneAges
<1>10. QED BY <1>7, <1>8, <1>9 DEF Zone

LEMMA BlockAges ==
  ASSUME NEW cs, NEW ds, Prefix(cs, ds), NEW i \in 1..Len(cs), NEW k \in 1..Len(cs), NEW direction
  PROVE  /\ Ages(ResolveOrderBlock(cs, direction, i, k), ResolveOrderBlock(ds, direction, i, k))
         /\ ResolveOrderBlock(cs, direction, i, k).created = i
<1> DEFINE n == Len(cs)
           bullish == direction = "bullish"
           c == ds[k]
           e == {j \in Later(ds, i) : IF bullish THEN ds[j].close < c.low ELSE ds[j].close > c.high}
           t == {j \in Later(ds, i) \ e :
                   IF bullish THEN ds[j].low <= c.high ELSE ds[j].high >= c.low}
           eold == {j \in Later(cs, i) : IF bullish THEN cs[j].close < c.low ELSE cs[j].close > c.high}
           told == {j \in Later(cs, i) \ eold :
                      IF bullish THEN cs[j].low <= c.high ELSE cs[j].high >= c.low}
<1>1. n \in Nat /\ Len(ds) \in Nat /\ n <= Len(ds) /\ cs[k] = c
  BY DEF Prefix
<1>2. \A j : j \in Later(cs, i) <=> j \in Later(ds, i) /\ j <= n
  BY <1>1 DEF Later
<1>3. \A j \in Later(cs, i) : cs[j] = ds[j]
  BY <1>1 DEF Later, Prefix
<1>4. eold = {j \in e : j <= n}
  BY <1>2, <1>3
<1>5. told = {j \in t : j <= n}
  <2> HIDE DEF e, eold
  <2>1. QED BY <1>2, <1>3, <1>4
<1>6. Positive(t) /\ Positive(e)
  BY <1>1 DEF Later, Positive
<1>7. ResolveOrderBlock(cs, direction, i, k) =
        Zone(direction, k, i, c.low, c.high, told, eold, "invalidated")
  BY <1>1 DEF ResolveOrderBlock
<1>8. ResolveOrderBlock(ds, direction, i, k) = Zone(direction, k, i, c.low, c.high, t, e, "invalidated")
  BY DEF ResolveOrderBlock
<1> HIDE DEF t, e, n, told, eold, c
<1>9. Ages(Zone(direction, k, i, c.low, c.high, {j \in t : j <= n}, {j \in e : j <= n}, "invalidated"),
           Zone(direction, k, i, c.low, c.high, t, e, "invalidated"))
  BY <1>1, <1>6, ZoneAges
<1>10. QED BY <1>4, <1>5, <1>7, <1>8, <1>9 DEF Zone

(* The source of a block is the last of the candles that may be. *)
LEMMA SourceFacts ==
  ASSUME NEW cs \in Seq(Candles), NEW b, b.index \in 1..Len(cs), Sources(cs, b) # {}
  PROVE  /\ SourceOf(cs, b) \in Sources(cs, b)
         /\ \A j \in Sources(cs, b) : j <= SourceOf(cs, b)
         /\ SourceOf(cs, b) \in 1..Len(cs) /\ SourceOf(cs, b) < b.index
<1> DEFINE T == {b.index - j : j \in Sources(cs, b)}
<1>1. \A j \in Sources(cs, b) : j \in 1..Len(cs) /\ j < b.index
  BY Periods DEF Sources
<1>2. Positive(T) /\ T # {}
  BY <1>1 DEF Positive
<1>3. PICK j \in Sources(cs, b) : FirstOf(T) = b.index - j
  <2>1. FirstOf(T) \in T
    BY <1>2, FirstOfFacts
  <2>2. QED BY <2>1
<1>4. ASSUME NEW k \in Sources(cs, b) PROVE k <= j
  <2>1. b.index - k \in T
    OBVIOUS
  <2>2. FirstOf(T) <= b.index - k
    BY <1>2, <2>1, FirstOfFacts
  <2>3. QED BY <1>1, <1>3, <2>2
<1>5. \E x \in Sources(cs, b) : \A y \in Sources(cs, b) : x >= y
  BY <1>1, <1>4
<1>6. SourceOf(cs, b) \in Sources(cs, b) /\ \A y \in Sources(cs, b) : SourceOf(cs, b) >= y
  BY <1>5 DEF SourceOf, Max
<1>7. QED BY <1>1, <1>6

LEMMA ZonesOfPrefix ==
  ASSUME NEW cs, NEW ds, Prefix(cs, ds)
  PROVE  LET old == Analyze(cs)
             new == Analyze(ds)
         IN  /\ \A z \in old.gaps : \E later \in new.gaps : Ages(z, later)
             /\ \A z \in old.blocks : \E later \in new.blocks : Ages(z, later)
             /\ Origins(old.gaps) = {o \in Origins(new.gaps) : o.created <= Len(cs)}
             /\ Origins(old.blocks) = {o \in Origins(new.blocks) : o.created <= Len(cs)}
<1> DEFINE n == Len(cs)
           gold == Analyze(cs).gaps
           gnew == Analyze(ds).gaps
           bold == Analyze(cs).blocks
           bnew == Analyze(ds).blocks
<1>1. /\ cs \in Seq(Candles) /\ ds \in Seq(Candles) /\ n \in Nat /\ Len(ds) \in Nat /\ n <= Len(ds)
  BY DEF Prefix
<1>2. \A z : z \in gold <=> \E j \in 3..n : \/ BullishGap(cs, j) /\ z = BullishGapAt(cs, j)
                                            \/ BearishGap(cs, j) /\ z = BearishGapAt(cs, j)
  BY <1>1, GapIff, Analysis
<1>3. \A z : z \in gnew <=> \E j \in 3..Len(ds) : \/ BullishGap(ds, j) /\ z = BullishGapAt(ds, j)
                                                  \/ BearishGap(ds, j) /\ z = BearishGapAt(ds, j)
  BY <1>1, GapIff, Analysis
<1>4. \A z : z \in bold <=> \E b : MakesBlock(cs, b) /\ z = BlockOf(cs, b)
  BY <1>1, BlockIff, Analysis
<1>5. \A z : z \in bnew <=> \E b : MakesBlock(ds, b) /\ z = BlockOf(ds, b)
  BY <1>1, BlockIff, Analysis
<1>6. ASSUME NEW j \in 3..n
      PROVE  /\ BullishGap(cs, j) <=> BullishGap(ds, j)
             /\ BearishGap(cs, j) <=> BearishGap(ds, j)
             /\ Ages(BullishGapAt(cs, j), BullishGapAt(ds, j))
             /\ Ages(BearishGapAt(cs, j), BearishGapAt(ds, j))
             /\ j \in 3..Len(ds)
  <2>1. j \in 1..n
    OBVIOUS
  <2>2. cs[j] = ds[j] /\ cs[j - 2] = ds[j - 2]
    BY GapsInPrefix
  <2>3. QED BY <1>1, <2>1, <2>2, GapsInPrefix, GapAges DEF BullishGapAt, BearishGapAt
<1>7. ASSUME NEW b, MakesBlock(cs, b)
      PROVE  MakesBlock(ds, b) /\ Ages(BlockOf(cs, b), BlockOf(ds, b))
  <2>1. /\ MakesBlock(ds, b) /\ b.index \in 1..n
        /\ SourceOf(cs, b) = SourceOf(ds, b)
    BY <1>7, BlocksInPrefix
  <2>2. SourceOf(cs, b) \in 1..n
    BY <1>1, <1>7, <2>1, SourceFacts DEF MakesBlock, Displacing
  <2>3. QED BY <2>1, <2>2, BlockAges DEF BlockOf
<1>8. \A z, later : Ages(z, later) => Origin(z) = Origin(later)
  <2>1. \A z : Origins({z}) = {Origin(z)}
    BY DEF Origins, Origin
  <2>2. QED BY <2>1 DEF Ages
<1>9. \A zones : Origins(zones) = {Origin(z) : z \in zones}
  BY DEF Origins, Origin
<1>10. \A z : Origin(z).created = z.created
  BY DEF Origin
<1>11. \A j : BullishGapAt(ds, j).created = j /\ BearishGapAt(ds, j).created = j
  BY DEF BullishGapAt, BearishGapAt, ResolveGap, Zone
<1>12. \A b : BlockOf(ds, b).created = b.index
  BY DEF BlockOf, ResolveOrderBlock, Zone
<1> HIDE DEF gold, gnew, bold, bnew, n
<1>13. \A z \in gold : \E later \in gnew : Ages(z, later)
  BY <1>2, <1>3, <1>6
<1>14. \A z \in bold : \E later \in bnew : Ages(z, later)
  BY <1>4, <1>5, <1>7
<1>15. ASSUME NEW later \in gnew, later.created <= n PROVE \E z \in gold : Origin(z) = Origin(later)
  <2>1. PICK j \in 3..Len(ds) : \/ BullishGap(ds, j) /\ later = BullishGapAt(ds, j)
                                \/ BearishGap(ds, j) /\ later = BearishGapAt(ds, j)
    BY <1>3
  <2>2. j \in 3..n
    BY <1>1, <1>11, <1>15, <2>1
  <2>3. CASE BullishGap(ds, j) /\ later = BullishGapAt(ds, j)
    <3>1. BullishGapAt(cs, j) \in gold
      BY <1>2, <1>6, <2>2, <2>3
    <3>2. QED BY <1>6, <1>8, <2>2, <2>3, <3>1
  <2>4. CASE BearishGap(ds, j) /\ later = BearishGapAt(ds, j)
    <3>1. BearishGapAt(cs, j) \in gold
      BY <1>2, <1>6, <2>2, <2>4
    <3>2. QED BY <1>6, <1>8, <2>2, <2>4, <3>1
  <2>5. QED BY <2>1, <2>3, <2>4
<1>16. ASSUME NEW later \in bnew, later.created <= n PROVE \E z \in bold : Origin(z) = Origin(later)
  <2>1. PICK b : MakesBlock(ds, b) /\ later = BlockOf(ds, b)
    BY <1>5
  <2>2. MakesBlock(cs, b)
    BY <1>12, <1>16, <2>1, BlocksInPrefix DEF n
  <2>3. QED BY <1>4, <1>7, <1>8, <2>1, <2>2
<1>17. \A z \in gold : z.created <= n
  <2>1. \A j \in 3..n : BullishGapAt(cs, j).created = j /\ BearishGapAt(cs, j).created = j
    BY DEF BullishGapAt, BearishGapAt, ResolveGap, Zone
  <2>2. \A j \in 3..n : j <= n
    BY <1>1
  <2>3. QED BY <1>2, <2>1, <2>2
<1>18. \A z \in bold : z.created <= n
  <2>1. \A b : BlockOf(cs, b).created = b.index
    BY DEF BlockOf, ResolveOrderBlock, Zone
  <2>2. \A b : MakesBlock(cs, b) => b.index <= n
    BY BlocksInPrefix DEF n
  <2>3. QED BY <1>4, <2>1, <2>2
<1> HIDE DEF Origin
<1>19. Origins(gold) = {o \in Origins(gnew) : o.created <= n}
  <2>1. ASSUME NEW z \in gold PROVE \E later \in gnew : Origin(z) = Origin(later)
    BY <1>8, <1>13
  <2>2. QED BY <1>9, <1>10, <1>15, <1>17, <2>1
<1>20. Origins(bold) = {o \in Origins(bnew) : o.created <= n}
  <2>1. ASSUME NEW z \in bold PROVE \E later \in bnew : Origin(z) = Origin(later)
    BY <1>8, <1>14
  <2>2. QED BY <1>9, <1>10, <1>16, <1>18, <2>1
<1>21. QED BY <1>13, <1>14, <1>19, <1>20 DEF gold, gnew, bold, bnew, n

LEMMA NextCandleExtends ==
  ASSUME StructureInvariant, NEW c \in Shapes, CandleAdded(c)
  PROVE  Prefix(closed, closed') /\ whole = Analyze(closed) /\ whole' = Analyze(closed')
<1>1. closed \in Seq(Shapes) /\ closed' = Append(closed, c)
  BY DEF StructureInvariant, CandleAdded
<1>2. closed' \in Seq(Shapes)
  BY <1>1
<1>3. closed \in Seq(Candles) /\ closed' \in Seq(Candles)
  BY <1>1, <1>2, ShapesAreCandles
<1>4. Len(closed) <= Len(closed') /\ \A i \in 1..Len(closed) : closed'[i] = closed[i]
  BY <1>1
<1>5. QED BY <1>3, <1>4 DEF Prefix, StructureInvariant, CandleAdded

(* No further candle revises an event that was reported: swings, breaks,   *)
(* sweeps, levels, displacements and the origins of zones stay what they   *)
(* are and only events of the new candle are added (analyze, over closed   *)
(* candles).                                                               *)
THEOREM ReportedIsFinal == EvaluationSpec => NothingIsRevised
<1> DEFINE n == Len(closed)
           Same == /\ whole.swings = {s \in whole'.swings : s.confirmed <= n}
                   /\ whole.breaks = {b \in whole'.breaks : b.index <= n}
                   /\ whole.sweeps = {e \in whole'.sweeps : e.index <= n}
                   /\ whole.levels = {p \in whole'.levels : p[2].confirmed <= n}
                   /\ whole.displacements = {d \in whole'.displacements : d.index <= n}
                   /\ Origins(whole.gaps) = {o \in Origins(whole'.gaps) : o.created <= n}
                   /\ Origins(whole.blocks) = {o \in Origins(whole'.blocks) : o.created <= n}
<1>1. StructureInvariant /\ [EvaluationNext]_evaluationVars => [Same]_structureVars
  <2> SUFFICES ASSUME StructureInvariant, EvaluationNext PROVE Same \/ UNCHANGED structureVars
    BY DEF evaluationVars
  <2>1. ASSUME NEW c \in Shapes, CandleAdded(c) PROVE Same
    <3>1. Prefix(closed, closed') /\ whole = Analyze(closed) /\ whole' = Analyze(closed')
      BY <2>1, NextCandleExtends
    <3>2. QED BY <3>1, AnalysisOfPrefix, ZonesOfPrefix
  <2>2. QED BY <2>1 DEF EvaluationNext, AnalyzeOnce
<1>2. QED BY <1>1, StructureInvariantHolds, PTL DEF EvaluationSpec, NothingIsRevised

(* What has touched or ended a zone stays, and a zone that is filled or    *)
(* invalidated is not traded again, although every analysis resolves all   *)
(* zones anew (_resolve_gap, _resolve_order_block).                        *)
THEOREM ZonesAge == EvaluationSpec => ZonesOnlyAge
<1> DEFINE Aged == /\ \A z \in whole.gaps : \E later \in whole'.gaps : Ages(z, later)
                   /\ \A z \in whole.blocks : \E later \in whole'.blocks : Ages(z, later)
<1>1. StructureInvariant /\ [EvaluationNext]_evaluationVars => [Aged]_structureVars
  <2> SUFFICES ASSUME StructureInvariant, EvaluationNext PROVE Aged \/ UNCHANGED structureVars
    BY DEF evaluationVars
  <2>1. ASSUME NEW c \in Shapes, CandleAdded(c) PROVE Aged
    <3>1. Prefix(closed, closed') /\ whole = Analyze(closed) /\ whole' = Analyze(closed')
      BY <2>1, NextCandleExtends
    <3>2. QED BY <3>1, ZonesOfPrefix
  <2>2. QED BY <2>1 DEF EvaluationNext, AnalyzeOnce
<1>2. QED BY <1>1, StructureInvariantHolds, PTL DEF EvaluationSpec, ZonesOnlyAge

-----------------------------------------------------------------------------
(* What is seen of a series in a window that starts after its first k      *)
(* candles.                                                                *)
Window(cs, w, k) ==
  /\ cs \in Seq(Candles) /\ w \in Seq(Candles) /\ k \in Nat /\ Len(w) >= 1
  /\ Len(cs) = Len(w) + k /\ \A i \in 1..Len(w) : w[i] = cs[i + k]

Shifted(s, k) == [kind |-> s.kind, index |-> s.index + k, confirmed |-> s.confirmed + k,
                  price |-> s.price]

LEMMA LoadedFacts ==
  ASSUME NEW cs \in Seq(Candles), cs # <<>>
  PROVE  Window(cs, Loaded(cs), Len(cs) - Len(Loaded(cs)))
<1> DEFINE n == Len(cs)
           m == Max({1, n - HistoryCandles + 1})
           w == Loaded(cs)
<1>1. n \in Nat /\ n >= 1 /\ HistoryCandles \in Nat \ {0}
  BY StructureAssumption
<1>2. m \in 1..n
  <2>1. \E x \in {1, n - HistoryCandles + 1} : \A y \in {1, n - HistoryCandles + 1} : x >= y
    BY <1>1
  <2>2. m \in {1, n - HistoryCandles + 1} /\ m >= 1
    BY <2>1 DEF Max
  <2>3. QED BY <1>1, <2>2
<1> HIDE DEF m
<1>3. \A i \in m..n : cs[i] \in Candles
  BY <1>2
<1>4. m \in Int /\ n \in Int /\ m <= n
  BY <1>1, <1>2
<1>5. w = SubSeq(cs, m, n)
  BY DEF Loaded, m
<1>6. /\ w \in Seq(Candles) /\ Len(w) = n - m + 1
      /\ \A i \in 1..(n - m + 1) : w[i] = cs[m + i - 1]
  <2> HIDE DEF n, w
  <2>1. /\ SubSeq(cs, m, n) \in Seq(Candles)
        /\ Len(SubSeq(cs, m, n)) = IF m <= n THEN n - m + 1 ELSE 0
        /\ \A i \in 1..(n - m + 1) : SubSeq(cs, m, n)[i] = cs[m + i - 1]
    BY <1>3, <1>4, SubSeqProperties
  <2>2. QED BY <1>4, <1>5, <2>1
<1> HIDE DEF w
<1>7. n - Len(w) = m - 1
  BY <1>1, <1>2, <1>6
<1>8. \A i \in 1..Len(w) : w[i] = cs[i + (m - 1)]
  <2>1. \A i \in 1..Len(w) : m + i - 1 = i + (m - 1)
    BY <1>2
  <2>2. QED BY <1>6, <2>1
<1>9. m - 1 \in Nat /\ n = Len(w) + (m - 1) /\ Len(w) >= 1
  BY <1>1, <1>2, <1>6
<1>10. Window(cs, w, m - 1)
  BY <1>6, <1>8, <1>9 DEF Window
<1>11. QED BY <1>7, <1>10 DEF w

LEMMA SwingsOfWindow ==
  ASSUME NEW cs, NEW w, NEW k, Window(cs, w, k)
  PROVE  /\ \A s \in DetectSwings(w) : Shifted(s, k) \in DetectSwings(cs) /\ s.index > SwingLookback
         /\ \A t \in DetectSwings(cs) : t.index > k + SwingLookback
              => \E s \in DetectSwings(w) : t = Shifted(s, k)
<1> DEFINE L == SwingLookback
<1>1. /\ cs \in Seq(Candles) /\ w \in Seq(Candles) /\ k \in Nat /\ Len(cs) \in Nat /\ Len(w) \in Nat
      /\ Len(cs) = Len(w) + k /\ L \in Nat \ {0}
      /\ DOMAIN cs = 1..Len(cs) /\ DOMAIN w = 1..Len(w)
  BY Lookback DEF Window
<1>2. ASSUME NEW i \in Inner(w)
      PROVE  /\ i \in Nat /\ i > L /\ i + k \in Inner(cs) /\ w[i] = cs[i + k]
             /\ \A j : j \in Neighbours(w, i) <=> j + k \in Neighbours(cs, i + k) /\ j \in Int
             /\ \A j \in Neighbours(w, i) : w[j] = cs[j + k] /\ j \in Int
  <2>1. i \in Nat /\ i >= L + 1 /\ i + L <= Len(w)
    BY <1>1 DEF Inner
  <2>2. i + k \in Inner(cs)
    BY <1>1, <2>1 DEF Inner
  <2>3. \A j : j \in Neighbours(w, i) <=> j \in Int /\ i - L <= j /\ j <= i + L /\ j # i
    BY <1>1, <2>1 DEF Neighbours
  <2>4. \A j : j \in Neighbours(cs, i + k) <=>
                 j \in Int /\ i + k - L <= j /\ j <= i + k + L /\ j # i + k
    BY <1>1, <2>1 DEF Neighbours
  <2>5. \A j \in Int : j \in Neighbours(w, i) <=> j + k \in Neighbours(cs, i + k)
    BY <1>1, <2>1, <2>3, <2>4
  <2>6. \A j \in Neighbours(w, i) : j \in 1..Len(w)
    BY <1>1, <2>1, <2>3
  <2>7. i \in 1..Len(w)
    BY <1>1, <2>1
  <2>8. w[i] = cs[i + k] /\ \A j \in Neighbours(w, i) : w[j] = cs[j + k]
    BY <2>6, <2>7 DEF Window
  <2>9. \A j : j \in Neighbours(w, i) <=> j + k \in Neighbours(cs, i + k) /\ j \in Int
    BY <2>3, <2>5
  <2>10. i \in Nat /\ i > L
    BY <1>1, <2>1
  <2>11. \A j \in Neighbours(w, i) : j \in Int
    BY <2>3
  <2> HIDE DEF L
  <2>12. QED BY <2>2, <2>8, <2>9, <2>10, <2>11
<1>3. ASSUME NEW i \in Inner(w), NEW j \in Neighbours(cs, i + k)
      PROVE  \E h \in Neighbours(w, i) : j = h + k
  <2>1. j \in Int /\ j - k \in Int /\ j = (j - k) + k
    BY <1>1 DEF Neighbours
  <2>2. j - k \in Neighbours(w, i)
    BY <1>2, <2>1
  <2>3. QED BY <2>1, <2>2
<1>4. ASSUME NEW i \in Inner(w)
      PROVE  /\ (\A j \in Neighbours(w, i) : w[i].high > w[j].high)
                  <=> \A j \in Neighbours(cs, i + k) : cs[i + k].high > cs[j].high
             /\ (\A j \in Neighbours(w, i) : w[i].low < w[j].low)
                  <=> \A j \in Neighbours(cs, i + k) : cs[i + k].low < cs[j].low
  BY <1>2, <1>3
<1>5. \A i \in Inner(w) : \A p : /\ Shifted(Swing("high", i, p), k) = Swing("high", i + k, p)
                                  /\ Shifted(Swing("low", i, p), k) = Swing("low", i + k, p)
  <2>1. \A i \in Inner(w) : i \in Nat
    BY <1>2
  <2>2. \A i \in Inner(w) : (i + SwingLookback) + k = (i + k) + SwingLookback
    BY <1>1, <2>1
  <2>3. QED BY <2>2 DEF Shifted, Swing
<1>6. ASSUME NEW s \in DetectSwings(w) PROVE Shifted(s, k) \in DetectSwings(cs) /\ s.index > L
  <2>1. PICK i \in Inner(w) :
          \/ s = Swing("high", i, w[i].high) /\ \A j \in Neighbours(w, i) : w[i].high > w[j].high
          \/ s = Swing("low", i, w[i].low) /\ \A j \in Neighbours(w, i) : w[i].low < w[j].low
    BY <1>1, SwingIff
  <2>2. s.index = i
    BY <2>1 DEF Swing
  <2>3. CASE s = Swing("high", i, w[i].high) /\ \A j \in Neighbours(w, i) : w[i].high > w[j].high
    <3>1. Shifted(s, k) = Swing("high", i + k, cs[i + k].high)
      BY <1>2, <1>5, <2>3
    <3>2. QED BY <1>1, <1>2, <1>4, <2>2, <2>3, <3>1, SwingIff
  <2>4. CASE s = Swing("low", i, w[i].low) /\ \A j \in Neighbours(w, i) : w[i].low < w[j].low
    <3>1. Shifted(s, k) = Swing("low", i + k, cs[i + k].low)
      BY <1>2, <1>5, <2>4
    <3>2. QED BY <1>1, <1>2, <1>4, <2>2, <2>4, <3>1, SwingIff
  <2>5. QED BY <2>1, <2>3, <2>4
<1>7. ASSUME NEW t \in DetectSwings(cs), t.index > k + L PROVE \E s \in DetectSwings(w) : t = Shifted(s, k)
  <2>1. PICK h \in Inner(cs) :
          \/ t = Swing("high", h, cs[h].high) /\ \A j \in Neighbours(cs, h) : cs[h].high > cs[j].high
          \/ t = Swing("low", h, cs[h].low) /\ \A j \in Neighbours(cs, h) : cs[h].low < cs[j].low
    BY <1>1, SwingIff
  <2>2. t.index = h
    BY <2>1 DEF Swing
  <2> DEFINE i == h - k
  <2>3. h \in Nat /\ h + L <= Len(cs)
    BY <1>1 DEF Inner
  <2>4. i \in Inner(w) /\ i + k = h
    BY <1>1, <1>7, <2>2, <2>3 DEF Inner
  <2> HIDE DEF i
  <2>5. CASE t = Swing("high", h, cs[h].high) /\ \A j \in Neighbours(cs, h) : cs[h].high > cs[j].high
    <3>1. t = Shifted(Swing("high", i, w[i].high), k)
      BY <1>2, <1>5, <2>4, <2>5
    <3>2. Swing("high", i, w[i].high) \in DetectSwings(w)
      BY <1>1, <1>4, <2>4, <2>5, SwingIff
    <3>3. QED BY <3>1, <3>2
  <2>6. CASE t = Swing("low", h, cs[h].low) /\ \A j \in Neighbours(cs, h) : cs[h].low < cs[j].low
    <3>1. t = Shifted(Swing("low", i, w[i].low), k)
      BY <1>2, <1>5, <2>4, <2>6
    <3>2. Swing("low", i, w[i].low) \in DetectSwings(w)
      BY <1>1, <1>4, <2>4, <2>6, SwingIff
    <3>3. QED BY <3>1, <3>2
  <2>7. QED BY <2>1, <2>5, <2>6
<1>8. QED BY <1>6, <1>7

(* The swings V of a window and their hits J are those of the series, T    *)
(* and K.                                                                  *)
ShowsSwings(V, T, k) ==
  /\ \A s \in V : Shifted(s, k) \in T /\ s.index > SwingLookback
  /\ \A t \in T : t.index > k + SwingLookback => \E s \in V : t = Shifted(s, k)

ShowsHits(V, J, K, k) ==
  \A s \in V : \A j \in Nat \ {0} : <<j, s>> \in J <=> <<j + k, Shifted(s, k)>> \in K

ShowsFirst(F, G, k) ==
  /\ \A p \in F : <<p[1] + k, Shifted(p[2], k)>> \in G
  /\ \A q \in G : q[2].index > k + SwingLookback
       => \E p \in F : q = <<p[1] + k, Shifted(p[2], k)>>

(* In the window a candle faces the swings it faces in the series, as long *)
(* as the window shows them.                                               *)
LEMMA FirstOfWindow ==
  ASSUME NEW k \in Nat, NEW V, NEW T, ApartSwings(V), ApartSwings(T),
         NEW J, NEW K, J \subseteq (Nat \ {0}) \X V, K \subseteq (Nat \ {0}) \X T,
         ShowsSwings(V, T, k), ShowsHits(V, J, K, k)
  PROVE  ShowsFirst(First(V, J), First(T, K), k)
<1> USE DEF ShowsSwings, ShowsHits
<1> DEFINE L == SwingLookback
<1>1. L \in Nat \ {0}
  BY Lookback
<1>2. \A s \in V : /\ s.index \in Nat /\ s.confirmed = s.index + L /\ s.confirmed \in Nat
                   /\ Shifted(s, k).kind = s.kind /\ Shifted(s, k).index = s.index + k
                   /\ Shifted(s, k).confirmed = s.confirmed + k
  BY <1>1 DEF ApartSwings, Shifted
<1>3. ASSUME NEW s \in V, NEW i \in Nat
      PROVE  LatestAt(i, s, V) <=> LatestAt(i + k, Shifted(s, k), T)
  <2> DEFINE u == Shifted(s, k)
  <2>1. s.confirmed < i <=> u.confirmed < i + k
    BY <1>2
  <2>2. ASSUME NEW t \in V, t.kind = s.kind, s.index < t.index, t.confirmed < i
        PROVE  \E v \in T : v.kind = u.kind /\ u.index < v.index /\ v.confirmed < i + k
    <3>1. Shifted(t, k) \in T
      OBVIOUS
    <3>2. Shifted(t, k).kind = u.kind /\ u.index < Shifted(t, k).index /\ Shifted(t, k).confirmed < i + k
      BY <1>2, <2>2
    <3>3. QED BY <3>1, <3>2
  <2>3. ASSUME NEW v \in T, v.kind = u.kind, u.index < v.index, v.confirmed < i + k
        PROVE  \E t \in V : t.kind = s.kind /\ s.index < t.index /\ t.confirmed < i
    <3>1. s.index > L /\ v.index \in Nat
      BY DEF ApartSwings
    <3>2. v.index > k + SwingLookback
      BY <1>1, <1>2, <2>3, <3>1
    <3>3. PICK t \in V : v = Shifted(t, k)
      BY <3>2
    <3>4. t.kind = s.kind /\ s.index < t.index /\ t.confirmed < i
      BY <1>2, <2>3, <3>3
    <3>5. QED BY <3>4
  <2>4. QED BY <2>1, <2>2, <2>3 DEF LatestAt
<1>4. ASSUME NEW s \in V, NEW i \in Nat
      PROVE  (\A j \in (s.confirmed + 1)..(i - 1) : <<j, s>> \notin J)
               <=> \A j \in (Shifted(s, k).confirmed + 1)..(i + k - 1) : <<j, Shifted(s, k)>> \notin K
  <2> DEFINE u == Shifted(s, k)
  <2>1. s.confirmed \in Nat /\ u.confirmed = s.confirmed + k
    BY <1>2
  <2> HIDE DEF u
  <2>2. ASSUME NEW j \in (s.confirmed + 1)..(i - 1), <<j, s>> \in J
        PROVE  \E h \in (u.confirmed + 1)..(i + k - 1) : <<h, u>> \in K
    <3>1. j \in Nat \ {0} /\ j + k \in (u.confirmed + 1)..(i + k - 1)
      BY <2>1
    <3>2. <<j + k, u>> \in K
      BY <2>2, <3>1 DEF u
    <3>3. QED BY <3>1, <3>2
  <2>3. ASSUME NEW h \in (u.confirmed + 1)..(i + k - 1), <<h, u>> \in K
        PROVE  \E j \in (s.confirmed + 1)..(i - 1) : <<j, s>> \in J
    <3>1. h - k \in Nat \ {0} /\ h - k \in (s.confirmed + 1)..(i - 1) /\ (h - k) + k = h
      BY <2>1
    <3>2. <<h - k, s>> \in J
      BY <2>3, <3>1 DEF u
    <3>3. QED BY <3>1, <3>2
  <2>4. QED BY <2>2, <2>3 DEF u
<1>5. ASSUME NEW s \in V, NEW i \in Nat \ {0}
      PROVE  <<i, s>> \in First(V, J) <=> <<i + k, Shifted(s, k)>> \in First(T, K)
  <2> DEFINE u == Shifted(s, k)
  <2>1. u \in T /\ i + k \in Nat /\ i \in Nat
    OBVIOUS
  <2>2. <<i, s>> \in First(V, J) <=>
          <<i, s>> \in J /\ LatestAt(i, s, V) /\ \A j \in (s.confirmed + 1)..(i - 1) : <<j, s>> \notin J
    BY DEF First, Facing
  <2> HIDE DEF u
  <2>3. <<i + k, u>> \in First(T, K) <=>
          /\ <<i + k, u>> \in K /\ LatestAt(i + k, u, T)
          /\ \A j \in (u.confirmed + 1)..(i + k - 1) : <<j, u>> \notin K
    BY <2>1 DEF First, Facing
  <2>4. QED BY <1>3, <1>4, <2>1, <2>2, <2>3 DEF u
<1>6. ASSUME NEW p \in First(V, J) PROVE <<p[1] + k, Shifted(p[2], k)>> \in First(T, K)
  <2>1. p \in J
    BY DEF First
  <2>2. p[1] \in Nat \ {0} /\ p[2] \in V /\ p = <<p[1], p[2]>>
    BY <2>1
  <2>3. QED BY <1>5, <1>6, <2>2
<1>7. ASSUME NEW q \in First(T, K), q[2].index > k + L
      PROVE  \E p \in First(V, J) : q = <<p[1] + k, Shifted(p[2], k)>>
  <2>1. q \in K /\ q[2] \in Facing(q[2].kind, q[1], T, K)
    BY DEF First
  <2>2. q[1] \in Nat \ {0} /\ q[2] \in T /\ q = <<q[1], q[2]>> /\ q[2].confirmed < q[1]
    BY <2>1 DEF Facing, LatestAt
  <2>3. PICK s \in V : q[2] = Shifted(s, k)
    BY <1>7, <2>2
  <2> DEFINE i == q[1] - k
  <2>4. i \in Nat \ {0} /\ i + k = q[1]
    BY <1>2, <2>2, <2>3
  <2> HIDE DEF i
  <2>5. <<i, s>> \in First(V, J)
    BY <1>5, <1>7, <2>2, <2>3, <2>4
  <2>6. q = <<<<i, s>>[1] + k, Shifted(<<i, s>>[2], k)>>
    BY <2>2, <2>3, <2>4
  <2>7. QED BY <2>5, <2>6
<1>8. QED BY <1>6, <1>7 DEF ShowsFirst

-----------------------------------------------------------------------------
LEMMA FirstClosingsOfWindow ==
  ASSUME NEW cs, NEW w, NEW k, Window(cs, w, k)
  PROVE  ShowsFirst(FirstClosings(w), FirstClosings(cs), k)
<1> DEFINE V == DetectSwings(w)
           T == DetectSwings(cs)
           J == Closings(w, V)
           K == Closings(cs, T)
<1>1. /\ cs \in Seq(Candles) /\ w \in Seq(Candles) /\ k \in Nat /\ Len(cs) \in Nat /\ Len(w) \in Nat
      /\ Len(cs) = Len(w) + k /\ DOMAIN cs = 1..Len(cs) /\ DOMAIN w = 1..Len(w)
      /\ \A i \in 1..Len(w) : w[i] = cs[i + k]
  BY DEF Window
<1>2. /\ ApartSwings(V) /\ ApartSwings(T)
      /\ \A s \in V : Shifted(s, k) \in T /\ s.index > SwingLookback
      /\ \A t \in T : t.index > k + SwingLookback => \E s \in V : t = Shifted(s, k)
  BY <1>1, DetectedApart, SwingsOfWindow
<1> HIDE DEF V, T
<1>3. J \subseteq (Nat \ {0}) \X V /\ K \subseteq (Nat \ {0}) \X T
  BY <1>1 DEF Closings
<1>4. ASSUME NEW s \in V, NEW j \in Nat \ {0}
      PROVE  <<j, s>> \in J <=> <<j + k, Shifted(s, k)>> \in K
  <2>1. j \in 1..Len(w) <=> j + k \in 1..Len(cs)
    BY <1>1
  <2>2. ASSUME j \in 1..Len(w)
        PROVE  ClosesBeyond(w[j], s) <=> ClosesBeyond(cs[j + k], Shifted(s, k))
    BY <1>1, <2>2 DEF ClosesBeyond, Shifted
  <2>3. <<j, s>> \in J <=> j \in 1..Len(w) /\ ClosesBeyond(w[j], s)
    BY <1>1 DEF Closings
  <2>4. <<j + k, Shifted(s, k)>> \in K <=> j + k \in 1..Len(cs) /\ ClosesBeyond(cs[j + k], Shifted(s, k))
    BY <1>1, <1>2 DEF Closings
  <2>5. QED BY <2>1, <2>2, <2>3, <2>4
<1> HIDE DEF J, K
<1>5. ShowsSwings(V, T, k) /\ ShowsHits(V, J, K, k)
  BY <1>2, <1>4 DEF ShowsSwings, ShowsHits
<1>6. ShowsFirst(First(V, J), First(T, K), k)
  BY <1>1, <1>2, <1>3, <1>5, FirstOfWindow
<1>7. QED BY <1>6 DEF FirstClosings, V, T, J, K

LEMMA FirstSweepingsOfWindow ==
  ASSUME NEW cs, NEW w, NEW k, Window(cs, w, k)
  PROVE  ShowsFirst(FirstSweepings(w), FirstSweepings(cs), k)
<1> DEFINE V == DetectSwings(w)
           T == DetectSwings(cs)
           J == Sweepings(w, V)
           K == Sweepings(cs, T)
<1>1. /\ cs \in Seq(Candles) /\ w \in Seq(Candles) /\ k \in Nat /\ Len(cs) \in Nat /\ Len(w) \in Nat
      /\ Len(cs) = Len(w) + k /\ DOMAIN cs = 1..Len(cs) /\ DOMAIN w = 1..Len(w)
      /\ \A i \in 1..Len(w) : w[i] = cs[i + k]
  BY DEF Window
<1>2. /\ ApartSwings(V) /\ ApartSwings(T)
      /\ \A s \in V : Shifted(s, k) \in T /\ s.index > SwingLookback
      /\ \A t \in T : t.index > k + SwingLookback => \E s \in V : t = Shifted(s, k)
  BY <1>1, DetectedApart, SwingsOfWindow
<1> HIDE DEF V, T
<1>3. J \subseteq (Nat \ {0}) \X V /\ K \subseteq (Nat \ {0}) \X T
  BY <1>1 DEF Sweepings
<1>4. ASSUME NEW s \in V, NEW j \in Nat \ {0}
      PROVE  <<j, s>> \in J <=> <<j + k, Shifted(s, k)>> \in K
  <2>1. j \in 1..Len(w) <=> j + k \in 1..Len(cs)
    BY <1>1
  <2>2. ASSUME j \in 1..Len(w)
        PROVE  SweepsOver(w[j], s) <=> SweepsOver(cs[j + k], Shifted(s, k))
    BY <1>1, <2>2 DEF SweepsOver, Shifted
  <2>3. <<j, s>> \in J <=> j \in 1..Len(w) /\ SweepsOver(w[j], s)
    BY <1>1 DEF Sweepings
  <2>4. <<j + k, Shifted(s, k)>> \in K <=> j + k \in 1..Len(cs) /\ SweepsOver(cs[j + k], Shifted(s, k))
    BY <1>1, <1>2 DEF Sweepings
  <2>5. QED BY <2>1, <2>2, <2>3, <2>4
<1> HIDE DEF J, K
<1>5. ShowsSwings(V, T, k) /\ ShowsHits(V, J, K, k)
  BY <1>2, <1>4 DEF ShowsSwings, ShowsHits
<1>6. ShowsFirst(First(V, J), First(T, K), k)
  BY <1>1, <1>2, <1>3, <1>5, FirstOfWindow
<1>7. QED BY <1>6 DEF FirstSweepings, V, T, J, K

Mark(direction, i, s) == [direction |-> direction, index |-> i, swing |-> s]

MarksBreak(x, cs, k, m) ==
  \E p \in FirstClosings(cs) : /\ p[2].index + k > m
                               /\ x = Mark(DirectionOf(p[2]), p[1] + k, p[2].index + k)
MarksSweep(x, cs, k, m) ==
  \E p \in FirstSweepings(cs) : /\ p[2].index + k > m
                                /\ x = Mark(SweepOf(p).direction, p[1] + k, p[2].index + k)

LEMMA HitIff ==
  ASSUME NEW cs \in Seq(Candles), NEW k, NEW m, NEW x
  PROVE  /\ x \in Hit(Analyze(cs).breaks, k, m) <=> MarksBreak(x, cs, k, m)
         /\ x \in Hit(Analyze(cs).sweeps, k, m) <=> MarksSweep(x, cs, k, m)
<1> DEFINE F == FirstClosings(cs)
<1>1. Analyze(cs).breaks = {BreakOf(p, F) : p \in F}
  BY BreaksOf, Analysis
<1>2. \A p : BreakOf(p, F).direction = DirectionOf(p[2]) /\ BreakOf(p, F).index = p[1]
             /\ BreakOf(p, F).swing = p[2]
  BY DEF BreakOf, Break
<1>3. Analyze(cs).sweeps = {SweepOf(p) : p \in FirstSweepings(cs)}
  BY SweepsOf, Analysis
<1>4. \A p : SweepOf(p).index = p[1] /\ SweepOf(p).swing = p[2]
  BY DEF SweepOf, Sweep
<1> HIDE DEF F
<1>5. \A events : x \in Hit(events, k, m) <=>
        \E e \in events : e.swing.index + k > m
                          /\ x = Mark(e.direction, e.index + k, e.swing.index + k)
  BY DEF Hit, Mark
<1> HIDE DEF BreakOf
<1>6. x \in Hit(Analyze(cs).breaks, k, m) <=>
        \E p \in F : p[2].index + k > m /\ x = Mark(DirectionOf(p[2]), p[1] + k, p[2].index + k)
  BY <1>1, <1>2, <1>5
<1>7. x \in Hit(Analyze(cs).sweeps, k, m) <=>
        \E p \in FirstSweepings(cs) :
          p[2].index + k > m /\ x = Mark(SweepOf(p).direction, p[1] + k, p[2].index + k)
  BY <1>3, <1>4, <1>5
<1>8. QED BY <1>6, <1>7 DEF F, MarksBreak, MarksSweep

(* The breaks and sweeps the worker reports of the swings its window shows *)
(* are those the whole history has, for every history and window           *)
(* (load_candles, strategy_history_candles): no swing before the window    *)
(* hides or adds one.                                                      *)
THEOREM WindowHidesNothing == EvaluationSpec => []WindowSeesTheSame
<1>1. StructureInvariant => WindowSeesTheSame
  <2> SUFFICES ASSUME StructureInvariant PROVE WindowSeesTheSame
    OBVIOUS
  <2> DEFINE w == Loaded(closed)
             k == Len(closed) - Len(w)
  <2>1. closed \in Seq(Candles) /\ closed # <<>>
    BY ShapesAreCandles DEF StructureInvariant
  <2>2. Window(closed, w, k)
    BY <2>1, LoadedFacts
  <2> HIDE DEF w, k
  <2>3. w \in Seq(Candles) /\ k \in Nat /\ 0 \in Nat /\ k + SwingLookback \in Nat
    BY <2>2, Lookback DEF Window
  <2>4. /\ \A p \in FirstClosings(w) : p[2].index \in Nat
        /\ \A p \in FirstSweepings(w) : p[2].index \in Nat
        /\ \A p \in FirstClosings(closed) : p[1] \in Nat /\ p[2].index \in Nat
        /\ \A p \in FirstSweepings(closed) : p[1] \in Nat /\ p[2].index \in Nat
    BY <2>1, <2>3, HitFacts, DetectedApart DEF ApartSwings
  <2>5. \A p \in FirstClosings(w) \cup FirstSweepings(w) : p[2].index > SwingLookback
    BY <2>2, <2>3, HitFacts, SwingsOfWindow
  <2>6. \A s : /\ Shifted(s, k).index = s.index + k /\ Shifted(s, k).kind = s.kind
               /\ DirectionOf(Shifted(s, k)) = DirectionOf(s)
    BY DEF Shifted, DirectionOf
  <2>7. \A p, q : p[2].kind = q[2].kind => SweepOf(p).direction = SweepOf(q).direction
    BY DEF SweepOf, Sweep
  <2>8. /\ recent = Analyze(w) /\ whole = Analyze(closed)
    BY DEF StructureInvariant, w
  <2>9. ASSUME NEW x
        PROVE  x \in Hit(recent.breaks, k, 0) <=> x \in Hit(whole.breaks, 0, k + SwingLookback)
    <3>1. x \in Hit(recent.breaks, k, 0) <=> MarksBreak(x, w, k, 0)
      BY <2>3, <2>8, HitIff
    <3>2. x \in Hit(whole.breaks, 0, k + SwingLookback) <=> MarksBreak(x, closed, 0, k + SwingLookback)
      BY <2>1, <2>8, HitIff
    <3>3. ASSUME NEW p \in FirstClosings(w), x = Mark(DirectionOf(p[2]), p[1] + k, p[2].index + k)
          PROVE  x \in Hit(whole.breaks, 0, k + SwingLookback)
      <4> DEFINE q == <<p[1] + k, Shifted(p[2], k)>>
      <4>1. q \in FirstClosings(closed)
        BY <2>2, FirstClosingsOfWindow DEF ShowsFirst
      <4>2. q[1] = p[1] + k /\ q[2].index = p[2].index + k /\ DirectionOf(q[2]) = DirectionOf(p[2])
        BY <2>6
      <4>3. q[2].index + 0 > k + SwingLookback
        BY <2>3, <2>4, <2>5, <4>2, Lookback
      <4>4. q[1] + 0 = p[1] + k /\ q[2].index + 0 = p[2].index + k
        BY <2>4, <4>1, <4>2
      <4> HIDE DEF q
      <4>5. QED BY <3>2, <3>3, <4>1, <4>2, <4>3, <4>4 DEF MarksBreak
    <3>4. ASSUME NEW q \in FirstClosings(closed), q[2].index + 0 > k + SwingLookback,
                 x = Mark(DirectionOf(q[2]), q[1] + 0, q[2].index + 0)
          PROVE  x \in Hit(recent.breaks, k, 0)
      <4>1. q[2].index > k + SwingLookback /\ q[1] + 0 = q[1] /\ q[2].index + 0 = q[2].index
        BY <2>4, <3>4
      <4>2. PICK p \in FirstClosings(w) : q = <<p[1] + k, Shifted(p[2], k)>>
        BY <2>2, <4>1, FirstClosingsOfWindow DEF ShowsFirst
      <4>3. q[1] = p[1] + k /\ q[2].index = p[2].index + k /\ DirectionOf(q[2]) = DirectionOf(p[2])
        BY <2>6, <4>2
      <4>4. p[2].index + k > 0
        BY <2>3, <2>4, <4>1, <4>3, Lookback
      <4>5. QED BY <3>1, <3>4, <4>1, <4>3, <4>4 DEF MarksBreak
    <3>5. QED BY <3>1, <3>2, <3>3, <3>4 DEF MarksBreak
  <2>10. ASSUME NEW x
         PROVE  x \in Hit(recent.sweeps, k, 0) <=> x \in Hit(whole.sweeps, 0, k + SwingLookback)
    <3>1. x \in Hit(recent.sweeps, k, 0) <=> MarksSweep(x, w, k, 0)
      BY <2>3, <2>8, HitIff
    <3>2. x \in Hit(whole.sweeps, 0, k + SwingLookback) <=> MarksSweep(x, closed, 0, k + SwingLookback)
      BY <2>1, <2>8, HitIff
    <3>3. ASSUME NEW p \in FirstSweepings(w), x = Mark(SweepOf(p).direction, p[1] + k, p[2].index + k)
          PROVE  x \in Hit(whole.sweeps, 0, k + SwingLookback)
      <4> DEFINE q == <<p[1] + k, Shifted(p[2], k)>>
      <4>1. q \in FirstSweepings(closed)
        BY <2>2, FirstSweepingsOfWindow DEF ShowsFirst
      <4>2. q[1] = p[1] + k /\ q[2].index = p[2].index + k /\ q[2].kind = p[2].kind
        BY <2>6
      <4>3. q[2].index + 0 > k + SwingLookback
        BY <2>3, <2>4, <2>5, <4>2, Lookback
      <4>4. q[1] + 0 = p[1] + k /\ q[2].index + 0 = p[2].index + k
        BY <2>4, <4>1, <4>2
      <4>5. SweepOf(q).direction = SweepOf(p).direction
        BY <2>7, <4>2
      <4> HIDE DEF q, SweepOf
      <4>6. QED BY <3>2, <3>3, <4>1, <4>3, <4>4, <4>5 DEF MarksSweep
    <3>4. ASSUME NEW q \in FirstSweepings(closed), q[2].index + 0 > k + SwingLookback,
                 x = Mark(SweepOf(q).direction, q[1] + 0, q[2].index + 0)
          PROVE  x \in Hit(recent.sweeps, k, 0)
      <4>1. q[2].index > k + SwingLookback /\ q[1] + 0 = q[1] /\ q[2].index + 0 = q[2].index
        BY <2>4, <3>4
      <4>2. PICK p \in FirstSweepings(w) : q = <<p[1] + k, Shifted(p[2], k)>>
        BY <2>2, <4>1, FirstSweepingsOfWindow DEF ShowsFirst
      <4>3. q[1] = p[1] + k /\ q[2].index = p[2].index + k /\ q[2].kind = p[2].kind
        BY <2>6, <4>2
      <4>4. p[2].index + k > 0
        BY <2>3, <2>4, <4>1, <4>3, Lookback
      <4>5. SweepOf(q).direction = SweepOf(p).direction
        BY <2>7, <4>3
      <4>6. QED BY <3>1, <3>4, <4>1, <4>3, <4>4, <4>5 DEF MarksSweep
    <3>5. QED BY <3>1, <3>2, <3>3, <3>4 DEF MarksSweep
  <2>11. Hit(recent.breaks, k, 0) = Hit(whole.breaks, 0, k + SwingLookback)
    BY <2>9
  <2>12. Hit(recent.sweeps, k, 0) = Hit(whole.sweeps, 0, k + SwingLookback)
    BY <2>10
  <2>13. QED BY <2>11, <2>12 DEF WindowSeesTheSame, w, k
<1>2. QED BY <1>1, StructureInvariantHolds, PTL

-----------------------------------------------------------------------------
USE PlanAssumption

LEMMA FloorDivision ==
  ASSUME NEW a \in Int, NEW b \in Nat \ {0}
  PROVE  /\ a \div b \in Int
         /\ (a \div b) * b <= a
         /\ a < (a \div b) * b + b
  OBVIOUS

LEMMA Levels ==
  ASSUME NEW s \in TypedSetups
  PROVE  /\ s.direction \in {"long", "short"}
         /\ {s.entryLower, s.entryUpper, s.atr, s.target} \subseteq Int
         /\ s.step \in Nat \ {0} /\ s.minimumNotional \in Nat
         /\ PlannedEntry(s) \in Int
         /\ StopLoss(s) \in Int
         /\ Risk(s) \in Int /\ Reward(s) \in Int
<1>1. /\ s.direction \in {"long", "short"}
      /\ {s.entryLower, s.entryUpper, s.atr, s.target} \subseteq Int
      /\ s.step \in Nat \ {0} /\ s.minimumNotional \in Nat
  BY DEF TypedSetups
<1>2. PlannedEntry(s) \in Int
  BY <1>1 DEF PlannedEntry
<1>3. StopLoss(s) \in Int
  <2>1. StopBufferPercent \in Int
    BY DEF PlanAssumption
  <2>2. s.atr * StopBufferPercent \in Int
    BY <1>1, <2>1
  <2>3. (s.atr * StopBufferPercent) \div 100 \in Int
    BY <2>2
  <2>4. QED BY <1>1, <2>3 DEF StopLoss
<1>4. Risk(s) \in Int /\ Reward(s) \in Int
  BY <1>1, <1>2, <1>3 DEF Risk, Reward, Toward
<1>5. QED BY <1>1, <1>2, <1>3, <1>4

(* The conditions build_trade_plan has checked when it returns a plan.     *)
LEMMA NotRefused ==
  ASSUME NEW s \in TypedSetups, Refusal(s) = "none"
  PROVE  /\ 0 < s.entryLower /\ s.entryLower < s.entryUpper /\ 0 < s.atr
         /\ 0 < StopLoss(s) /\ 0 < Risk(s)
         /\ 0 < Reward(s) /\ ~(Quantity(s) <= 0)
  BY Levels DEF Refusal

LEMMA LossPerUnit ==
  ASSUME NEW s \in TypedSetups, Refusal(s) = "none"
  PROVE  NetRisk(s) \in Nat \ {0}
<1> DEFINE cost == Risk(s) * FeeParts
<1>1. FeeParts \in Nat \ {0}
  BY DEF PlanAssumption
<1>2. Risk(s) \in Nat /\ PlannedEntry(s) \in Int /\ StopLoss(s) \in Int /\ StopLoss(s) > 0
  BY Levels, NotRefused
<1>3. cost \in Nat
  BY <1>1, <1>2
<1>4. PlannedEntry(s) >= s.entryLower /\ s.entryLower > 0 /\ s.entryLower \in Int
  BY Levels, NotRefused DEF PlannedEntry
<1> HIDE DEF cost
<1>5. cost + PlannedEntry(s) + StopLoss(s) \in Nat \ {0}
  BY <1>2, <1>3, <1>4
<1>6. QED BY <1>5 DEF NetRisk, cost

(* A plan stopped out loses no more than the risk amount, the fees of both *)
(* sides included, and falls short of it by less than one step of the      *)
(* exchange (build_trade_plan: the quantity is rounded down;               *)
(* estimated_loss_at_stop).                                                *)
THEOREM PlanKeepsTheRisk ==
  ASSUME NEW s \in TypedSetups, Refusal(s) = "none"
  PROVE  /\ Quantity(s) * NetRisk(s) <= RiskAmount * FeeParts
         /\ RiskAmount * FeeParts < (Quantity(s) + s.step) * NetRisk(s)
<1> DEFINE budget == RiskAmount * FeeParts
           stepLoss == NetRisk(s) * s.step
           steps == budget \div stepLoss
<1>1. RiskAmount \in Nat /\ FeeParts \in Nat
  BY DEF PlanAssumption
<1>2. budget \in Int
  BY <1>1
<1>3. NetRisk(s) \in Nat \ {0} /\ s.step \in Nat \ {0}
  BY LossPerUnit, Levels
<1>4. stepLoss \in Nat \ {0}
  BY <1>3
<1>5. Quantity(s) = steps * s.step
  BY DEF Quantity
<1> HIDE DEF budget, stepLoss
<1>6. steps \in Int /\ steps * stepLoss <= budget /\ budget < steps * stepLoss + stepLoss
  BY <1>2, <1>4, FloorDivision
<1> HIDE DEF steps
<1>7. (steps * s.step) * NetRisk(s) = steps * stepLoss
  BY <1>3, <1>6 DEF stepLoss
<1>8. (steps * s.step + s.step) * NetRisk(s) = steps * stepLoss + stepLoss
  BY <1>3, <1>6 DEF stepLoss
<1>9. QED BY <1>5, <1>6, <1>7, <1>8 DEF budget

(* The levels of a plan lie on their sides of the entry: the stop beyond   *)
(* the far end of the zone, the targets on the other side, TP1 where the   *)
(* stop distance puts it (build_trade_plan after its checks).              *)
THEOREM PlanOrdersLevels ==
  ASSUME NEW s \in TypedSetups, Refusal(s) = "none"
  PROVE  /\ s.entryLower <= PlannedEntry(s) /\ PlannedEntry(s) < s.entryUpper
         /\ s.direction = "long" =>
              /\ 0 < StopLoss(s) /\ StopLoss(s) <= s.entryLower
              /\ PlannedEntry(s) < s.target
              /\ Plan(s).takeProfit1 >= PlannedEntry(s)
         /\ s.direction = "short" =>
              /\ StopLoss(s) >= s.entryUpper
              /\ s.target < PlannedEntry(s)
              /\ Plan(s).takeProfit1 <= PlannedEntry(s)
<1>1. /\ s.entryLower \in Int /\ s.entryUpper \in Int /\ s.entryLower < s.entryUpper
      /\ s.atr \in Nat /\ s.target \in Int /\ PlannedEntry(s) \in Int /\ StopLoss(s) \in Int
      /\ Risk(s) \in Nat
  BY Levels, NotRefused
<1>2. s.entryLower <= PlannedEntry(s) /\ PlannedEntry(s) < s.entryUpper
  BY <1>1 DEF PlannedEntry
<1>3. (s.atr * StopBufferPercent) \div 100 \in Nat
  <2>1. StopBufferPercent \in Nat
    BY DEF PlanAssumption
  <2>2. s.atr * StopBufferPercent \in Nat
    BY <1>1, <2>1
  <2>3. QED BY <2>2
<1>4. (Risk(s) * Tp1Percent) \div 100 \in Nat
  <2>1. Tp1Percent \in Nat
    BY DEF PlanAssumption
  <2>2. Risk(s) * Tp1Percent \in Nat
    BY <1>1, <2>1
  <2>3. QED BY <2>2
<1>5. Plan(s).takeProfit1 = PlannedEntry(s) + Toward(s.direction, (Risk(s) * Tp1Percent) \div 100)
  BY DEF Plan
<1>6. CASE s.direction = "long"
  <2>1. 0 < StopLoss(s) /\ PlannedEntry(s) < s.target
    BY <1>1, <1>6, NotRefused DEF Reward, Toward
  <2>2. StopLoss(s) <= s.entryLower
    BY <1>1, <1>3, <1>6 DEF StopLoss
  <2>3. Plan(s).takeProfit1 >= PlannedEntry(s)
    BY <1>1, <1>4, <1>5, <1>6 DEF Toward
  <2>4. QED BY <1>2, <1>6, <2>1, <2>2, <2>3
<1>7. CASE s.direction = "short"
  <2>1. s.target < PlannedEntry(s)
    BY <1>1, <1>7, NotRefused DEF Reward, Toward
  <2>2. StopLoss(s) >= s.entryUpper
    BY <1>1, <1>3, <1>7 DEF StopLoss
  <2>3. Plan(s).takeProfit1 <= PlannedEntry(s)
    BY <1>1, <1>4, <1>5, <1>7 DEF Toward
  <2>4. QED BY <1>2, <1>7, <2>1, <2>2, <2>3
<1>8. QED BY <1>6, <1>7, Levels

(* TP2 lies beyond the price the stop is moved to at TP1, so the second    *)
(* half of a trade has a way to gain between the two (build_trade_plan     *)
(* refuses with fees_consume_reward; _fee_adjusted_breakeven).             *)
THEOREM PlanPaysTheFees ==
  ASSUME NEW s \in TypedSetups, Refusal(s) = "none"
  PROVE  /\ s.direction = "long" => PlannedEntry(s) + RoundTripCost(s) < s.target
         /\ s.direction = "short" => s.target < PlannedEntry(s) - RoundTripCost(s)
<1> DEFINE e == PlannedEntry(s)
           g == IF s.direction = "long" THEN FeeParts - 1 ELSE FeeParts + 1
           c == RoundTripCost(s)
           d == Reward(s)
<1>1. /\ s.direction \in {"long", "short"} /\ e \in Int /\ s.target \in Int /\ d \in Int
      /\ FeeParts \in Nat /\ g \in Nat \ {0}
  BY Levels DEF PlanAssumption
<1>2. c \in Int /\ c * g <= 2 * e
  <2>1. c = (2 * e) \div g
    BY DEF RoundTripCost
  <2>2. 2 * e \in Int
    BY <1>1
  <2> HIDE DEF c, g, e
  <2>3. QED BY <1>1, <2>1, <2>2, FloorDivision
<1>3. d = IF s.direction = "long" THEN s.target - e ELSE e - s.target
  BY <1>1 DEF Reward, Toward
<1>4. d * FeeParts - e - s.target > 0
  <2>1. NetReward(s) = d * FeeParts - e - s.target
    BY DEF NetReward
  <2>2. ~(NetReward(s) <= 0)
    BY DEF Refusal
  <2>3. d * FeeParts \in Int
    BY <1>1
  <2> HIDE DEF d, e
  <2>4. QED BY <1>1, <2>1, <2>2, <2>3
<1>5. d * g > 2 * e
  <2>1. d * FeeParts \in Int
    BY <1>1
  <2>2. d * g = IF s.direction = "long" THEN d * FeeParts - d ELSE d * FeeParts + d
    <3> HIDE DEF d
    <3>1. QED BY <1>1
  <2> HIDE DEF d, g, e
  <2>3. QED BY <1>1, <1>3, <1>4, <2>1, <2>2
<1> HIDE DEF c, d, e, g
<1>6. c < d
  <2>1. SUFFICES ASSUME c >= d PROVE FALSE
    BY <1>1, <1>2
  <2>2. c * g >= d * g
    BY <1>1, <1>2, <2>1
  <2>3. c * g \in Int /\ d * g \in Int
    BY <1>1, <1>2
  <2>4. QED BY <1>1, <1>2, <1>5, <2>2, <2>3
<1>7. QED BY <1>1, <1>2, <1>3, <1>6 DEF c, e

-----------------------------------------------------------------------------
(* The plans that are followed. *)
TypedPlan(p) ==
  /\ p.direction \in {"long", "short"}
  /\ {p.entryLower, p.entryUpper, p.plannedEntry, p.stopLoss, p.takeProfit1, p.takeProfit2,
      p.roundTripCost} \subseteq Int
  /\ p.plannedEntry \in p.entryLower..p.entryUpper
  /\ p.direction = "long" => /\ p.stopLoss < p.plannedEntry
                             /\ p.plannedEntry <= p.takeProfit1
                             /\ p.plannedEntry + p.roundTripCost < p.takeProfit2
                             /\ p.plannedEntry < p.takeProfit2
  /\ p.direction = "short" => /\ p.plannedEntry < p.stopLoss
                              /\ p.takeProfit1 <= p.plannedEntry
                              /\ p.takeProfit2 < p.plannedEntry - p.roundTripCost
                              /\ p.takeProfit2 < p.plannedEntry

LEMMA FollowedPlans ==
  ASSUME NEW p \in AcceptedPlans(Setups)
  PROVE  TypedPlan(p)
<1>1. PICK s \in Setups : p = Plan(s) /\ Refusal(s) = "none"
  BY DEF AcceptedPlans
<1>2. s \in TypedSetups
  BY CandleAssumption DEF CandleAssumption
<1>3. /\ p.direction = s.direction /\ p.entryLower = s.entryLower /\ p.entryUpper = s.entryUpper
      /\ p.plannedEntry = PlannedEntry(s) /\ p.stopLoss = StopLoss(s)
      /\ p.takeProfit1 = Plan(s).takeProfit1 /\ p.takeProfit2 = s.target
      /\ p.roundTripCost = RoundTripCost(s)
  BY <1>1 DEF Plan
<1>4. /\ s.direction \in {"long", "short"}
      /\ {s.entryLower, s.entryUpper, s.target, PlannedEntry(s), StopLoss(s), Risk(s)} \subseteq Int
      /\ 0 < Risk(s)
  BY <1>1, <1>2, Levels, NotRefused
<1>5. Plan(s).takeProfit1 \in Int
  <2>1. Tp1Percent \in Int
    BY DEF PlanAssumption
  <2>2. Risk(s) * Tp1Percent \in Int
    BY <1>4, <2>1
  <2>3. (Risk(s) * Tp1Percent) \div 100 \in Int
    BY <2>2
  <2>4. QED BY <1>4, <2>3 DEF Plan, Toward
<1>6. RoundTripCost(s) \in Int
  <2>1. FeeParts - 1 \in Nat \ {0} /\ FeeParts + 1 \in Nat \ {0}
    BY DEF PlanAssumption
  <2>2. 2 * PlannedEntry(s) \in Int
    BY <1>4
  <2>3. /\ (2 * PlannedEntry(s)) \div (FeeParts - 1) \in Int
        /\ (2 * PlannedEntry(s)) \div (FeeParts + 1) \in Int
    BY <2>1, <2>2, FloorDivision
  <2>4. QED BY <2>3 DEF RoundTripCost
<1>7. /\ s.direction = "long" => StopLoss(s) < PlannedEntry(s)
      /\ s.direction = "short" => PlannedEntry(s) < StopLoss(s)
  BY <1>4 DEF Risk, Toward
<1>8. PlannedEntry(s) \in s.entryLower..s.entryUpper
  BY <1>1, <1>2, <1>4, PlanOrdersLevels
<1>9. /\ s.direction = "long" => PlannedEntry(s) + RoundTripCost(s) < s.target
      /\ s.direction = "short" => s.target < PlannedEntry(s) - RoundTripCost(s)
  BY <1>1, <1>2, PlanPaysTheFees
<1>10. /\ s.direction = "long" => /\ PlannedEntry(s) < s.target
                                  /\ Plan(s).takeProfit1 >= PlannedEntry(s)
       /\ s.direction = "short" => /\ s.target < PlannedEntry(s)
                                   /\ Plan(s).takeProfit1 <= PlannedEntry(s)
  BY <1>1, <1>2, PlanOrdersLevels
<1>11. QED BY <1>3, <1>4, <1>5, <1>6, <1>7, <1>8, <1>9, <1>10 DEF TypedPlan

-----------------------------------------------------------------------------
(* What is known of the trades of a minute: the range of their prices, and *)
(* how a signal can have come to be entered or to be stopped out by them.  *)
Statuses == {"active", "entered", "tp1_reached", "tp2_completed", "stopped",
             "stopped_at_breakeven", "invalidated", "expired"}

AgreementTyped ==
  /\ plan \in AcceptedPlans(Setups)
  /\ minute \in Nat
  /\ path \in Seq(Int)
  /\ from \in Statuses /\ status \in Statuses

PathHasRange ==
  path # <<>> => \E low, high \in PricesOf(path) : \A x \in PricesOf(path) : low <= x /\ x <= high

StopIsSeen ==
  status \in {"stopped", "invalidated"} /\ status # from =>
    \E x \in PricesOf(path) : BeyondStop(plan, "initial", x)

CameFrom ==
  /\ path = <<>> => status = from
  /\ status = "active" => from = "active"
  /\ status \in {"entered", "stopped", "invalidated"} /\ status # from =>
       \/ from = "active" /\ minute < Lifetime
       \/ from = "entered" /\ status = "stopped"

PathInvariant == AgreementTyped /\ PathHasRange /\ StopIsSeen /\ CameFrom

(* One more trade. *)
LEMMA TradeMoves ==
  ASSUME NEW p, TypedPlan(p), NEW s \in Statuses, NEW price \in Int, minute \in Nat
  PROVE  /\ s = "active" =>
              Traded(p, s, price) =
                IF minute >= Lifetime THEN "expired"
                ELSE IF BeyondStop(p, "initial", price) THEN "invalidated"
                ELSE IF price \in p.entryLower..p.entryUpper THEN "entered" ELSE "active"
         /\ s = "entered" =>
              Traded(p, s, price) =
                IF BeyondStop(p, "initial", price) THEN "stopped"
                ELSE IF TargetReached(p, p.takeProfit2, price) THEN "tp2_completed"
                ELSE IF TargetReached(p, p.takeProfit1, price) THEN "tp1_reached" ELSE "entered"
         /\ s = "tp1_reached" =>
              Traded(p, s, price) =
                IF BeyondStop(p, "breakeven", price) THEN "stopped_at_breakeven"
                ELSE IF TargetReached(p, p.takeProfit2, price) THEN "tp2_completed"
                ELSE "tp1_reached"
         /\ s \notin {"active", "entered", "tp1_reached"} => Traded(p, s, price) = s
<1>1. CASE s = "active"
  BY <1>1 DEF Traded, LastOf, StopOf, EvaluatePublicTrade, EvaluateActive
<1>2. CASE s = "entered"
  BY <1>2 DEF Traded, LastOf, StopOf, EvaluatePublicTrade, EvaluateEntered
<1>3. CASE s = "tp1_reached"
  BY <1>3 DEF Traded, LastOf, StopOf, EvaluatePublicTrade, EvaluateAfterTp1
<1>4. CASE s \notin {"active", "entered", "tp1_reached"}
  BY <1>4 DEF Traded, LastOf, EvaluatePublicTrade
<1>5. QED BY <1>1, <1>2, <1>3, <1>4

LEMMA PriceIsInt ==
  ASSUME TypedPlan(plan)
  PROVE  Prices \subseteq Int
BY DEF TypedPlan, Prices, Toward

LEMMA PathAfterTrade ==
  ASSUME path \in Seq(Int), NEW price \in Int, path' = Append(path, price)
  PROVE  /\ path' \in Seq(Int) /\ path' # <<>>
         /\ PricesOf(path)' = PricesOf(path) \cup {price}
         /\ PricesOf(path) \subseteq Int
<1>1. /\ DOMAIN path = 1..Len(path) /\ Len(path) \in Nat
      /\ path' \in Seq(Int) /\ Len(path') = Len(path) + 1
      /\ DOMAIN path' = 1..(Len(path) + 1)
      /\ \A k \in 1..Len(path) : path'[k] = path[k] /\ path[k] \in Int
      /\ path'[Len(path) + 1] = price
  OBVIOUS
<1>2. DOMAIN path' = DOMAIN path \cup {Len(path) + 1}
  BY <1>1
<1>3. PricesOf(path)' = {path'[k] : k \in DOMAIN path'}
  BY DEF PricesOf
<1>4. QED BY <1>1, <1>2, <1>3 DEF PricesOf

LEMMA PathInvariantStep ==
  ASSUME PathInvariant, [Next]_vars
  PROVE  PathInvariant'
<1> USE DEF PathInvariant
<1>1. TypedPlan(plan) /\ Lifetime \in Nat
  BY FollowedPlans, CandleAssumption DEF AgreementTyped, CandleAssumption
<1>2. ASSUME NEW price \in Prices, Trade(price) PROVE PathInvariant'
  <2>1. /\ path' = Append(path, price) /\ status' = Traded(plan, status, price)
        /\ UNCHANGED <<plan, minute, from>> /\ price \in Int
    BY <1>1, <1>2, PriceIsInt DEF Trade
  <2>2. /\ path' \in Seq(Int) /\ path' # <<>>
        /\ PricesOf(path)' = PricesOf(path) \cup {price}
        /\ PricesOf(path) \subseteq Int
    BY <2>1, PathAfterTrade DEF AgreementTyped
  <2>3. /\ status = "active" =>
             status' = IF minute >= Lifetime THEN "expired"
                       ELSE IF BeyondStop(plan, "initial", price) THEN "invalidated"
                       ELSE IF price \in plan.entryLower..plan.entryUpper THEN "entered"
                       ELSE "active"
        /\ status = "entered" =>
             status' = IF BeyondStop(plan, "initial", price) THEN "stopped"
                       ELSE IF TargetReached(plan, plan.takeProfit2, price) THEN "tp2_completed"
                       ELSE IF TargetReached(plan, plan.takeProfit1, price) THEN "tp1_reached"
                       ELSE "entered"
        /\ status = "tp1_reached" =>
             status' = IF BeyondStop(plan, "breakeven", price) THEN "stopped_at_breakeven"
                       ELSE IF TargetReached(plan, plan.takeProfit2, price) THEN "tp2_completed"
                       ELSE "tp1_reached"
        /\ status \notin {"active", "entered", "tp1_reached"} => status' = status
    BY <1>1, <2>1, TradeMoves DEF AgreementTyped
  <2>4. AgreementTyped'
    BY <2>1, <2>2, <2>3 DEF AgreementTyped, Statuses
  <2>5. PathHasRange'
    <3>1. CASE path = <<>>
      <4>1. PricesOf(path)' = {price}
        <5>1. PricesOf(path) = {}
          BY <3>1 DEF PricesOf
        <5>2. QED BY <2>2, <5>1
      <4>2. QED BY <2>1, <4>1 DEF PathHasRange
    <3>2. CASE path # <<>>
      <4>1. PICK low, high \in PricesOf(path) : \A x \in PricesOf(path) : low <= x /\ x <= high
        BY <3>2 DEF PathHasRange
      <4> DEFINE least == IF price < low THEN price ELSE low
                 most == IF high < price THEN price ELSE high
      <4>2. /\ least \in PricesOf(path)' /\ most \in PricesOf(path)'
            /\ \A x \in PricesOf(path)' : least <= x /\ x <= most
        BY <2>1, <2>2, <4>1
      <4> HIDE DEF least, most
      <4>3. QED BY <4>2 DEF PathHasRange
    <3>3. QED BY <3>1, <3>2
  <2>6. StopIsSeen'
    <3>1. (\E x \in PricesOf(path) : BeyondStop(plan, "initial", x)) =>
            \E x \in PricesOf(path)' : BeyondStop(plan', "initial", x)
      BY <2>1, <2>2
    <3>2. BeyondStop(plan, "initial", price) =>
            \E x \in PricesOf(path)' : BeyondStop(plan', "initial", x)
      BY <2>1, <2>2
    <3>3. status' \in {"stopped", "invalidated"} =>
            status' = status \/ BeyondStop(plan, "initial", price)
      BY <2>3 DEF AgreementTyped, Statuses
    <3>4. QED BY <2>1, <3>1, <3>2, <3>3 DEF StopIsSeen
  <2>7. CameFrom'
    <3>1. path' # <<>> /\ from' = from /\ minute' = minute
      BY <2>1, <2>2
    <3>2. status' = "active" => status = "active"
      BY <2>3 DEF AgreementTyped, Statuses
    <3>3. status' = "entered" => status = "entered" \/ (status = "active" /\ minute < Lifetime)
      BY <1>1, <2>3 DEF AgreementTyped, Statuses
    <3>4. status' = "stopped" => status \in {"stopped", "entered"}
      BY <2>3 DEF AgreementTyped, Statuses
    <3>5. status' = "invalidated" => status = "invalidated" \/ (status = "active" /\ minute < Lifetime)
      BY <1>1, <2>3 DEF AgreementTyped, Statuses
    <3>6. QED BY <3>1, <3>2, <3>3, <3>4, <3>5 DEF CameFrom
  <2>8. QED BY <2>4, <2>5, <2>6, <2>7
<1>3. CASE CandleCloses
  <2>1. path' = <<>> /\ from' = status /\ minute' = minute + 1 /\ UNCHANGED <<plan, status>>
    BY <1>3 DEF CandleCloses
  <2>2. AgreementTyped'
    BY <2>1 DEF AgreementTyped
  <2>3. QED BY <2>1, <2>2 DEF PathHasRange, StopIsSeen, CameFrom
<1>4. CASE UNCHANGED vars
  <2>1. UNCHANGED <<plan, minute, from, path, status>>
    BY <1>4 DEF vars
  <2>2. QED BY <2>1 DEF AgreementTyped, PathHasRange, StopIsSeen, CameFrom, PricesOf, BeyondStop,
                        StopPrice
<1>5. QED BY <1>2, <1>3, <1>4 DEF Next

THEOREM PathInvariantHolds == Spec => []PathInvariant
<1>1. Init => PathInvariant
  <2> SUFFICES ASSUME Init PROVE PathInvariant
    OBVIOUS
  <2>1. path \in Seq(Int)
    BY DEF Init
  <2>2. QED BY <2>1 DEF Init, PathInvariant, AgreementTyped, PathHasRange, StopIsSeen, CameFrom,
                        Statuses
<1>2. PathInvariant /\ [Next]_vars => PathInvariant'
  BY PathInvariantStep
<1>3. QED BY <1>1, <1>2, PTL DEF Spec

-----------------------------------------------------------------------------
(* The candle of the minute. *)
LEMMA CandleRange ==
  ASSUME PathInvariant, path # <<>>
  PROVE  /\ CandleOf(path).low \in PricesOf(path) /\ CandleOf(path).high \in PricesOf(path)
         /\ \A x \in PricesOf(path) : x \in Int /\ CandleOf(path).low <= x
                                                /\ x <= CandleOf(path).high
         /\ CandleOf(path).open = minute /\ CandleOf(path).close = minute + 1
<1>1. PICK low, high \in PricesOf(path) : \A x \in PricesOf(path) : low <= x /\ x <= high
  BY DEF PathInvariant, PathHasRange
<1>2. PricesOf(path) \subseteq Int
  BY DEF PathInvariant, AgreementTyped, PricesOf
<1>3. /\ Least(PricesOf(path)) \in PricesOf(path)
      /\ \A x \in PricesOf(path) : Least(PricesOf(path)) <= x
  BY <1>1 DEF Least
<1>4. /\ Greatest(PricesOf(path)) \in PricesOf(path)
      /\ \A x \in PricesOf(path) : x <= Greatest(PricesOf(path))
  BY <1>1 DEF Greatest
<1>5. QED BY <1>2, <1>3, <1>4 DEF CandleOf

(* A candle reaches a stop or a target when a price in it does.            *)
LEMMA CandleTouches ==
  ASSUME PathInvariant, path # <<>>
  PROVE  /\ \A stop \in {"initial", "breakeven"} :
              TouchesStop(plan, stop, CandleOf(path)) <=>
                \E x \in PricesOf(path) : BeyondStop(plan, stop, x)
         /\ \A target \in Int :
              TouchesTarget(plan, target, CandleOf(path)) <=>
                \E x \in PricesOf(path) : TargetReached(plan, target, x)
<1>1. TypedPlan(plan)
  BY FollowedPlans DEF PathInvariant, AgreementTyped
<1> DEFINE low == CandleOf(path).low
           high == CandleOf(path).high
<1>2. /\ low \in PricesOf(path) /\ high \in PricesOf(path)
      /\ \A x \in PricesOf(path) : x \in Int /\ low <= x /\ x <= high
  BY CandleRange
<1>3. ASSUME NEW stop \in {"initial", "breakeven"}
      PROVE  TouchesStop(plan, stop, CandleOf(path)) <=>
               \E x \in PricesOf(path) : BeyondStop(plan, stop, x)
  <2>1. StopPrice(plan, stop) \in Int
    BY <1>1 DEF StopPrice, TypedPlan
  <2>2. TouchesStop(plan, stop, CandleOf(path)) <=>
          IF plan.direction = "long" THEN low <= StopPrice(plan, stop)
          ELSE high >= StopPrice(plan, stop)
    BY DEF TouchesStop, BeyondStop
  <2>3. \A x : BeyondStop(plan, stop, x) <=>
          IF plan.direction = "long" THEN x <= StopPrice(plan, stop)
          ELSE x >= StopPrice(plan, stop)
    BY DEF BeyondStop
  <2> HIDE DEF low, high
  <2>4. QED BY <1>2, <2>1, <2>2, <2>3
<1>4. ASSUME NEW target \in Int
      PROVE  TouchesTarget(plan, target, CandleOf(path)) <=>
               \E x \in PricesOf(path) : TargetReached(plan, target, x)
  <2>1. TouchesTarget(plan, target, CandleOf(path)) <=>
          IF plan.direction = "long" THEN high >= target ELSE low <= target
    BY DEF TouchesTarget, TargetReached
  <2>2. \A x : TargetReached(plan, target, x) <=>
          IF plan.direction = "long" THEN x >= target ELSE x <= target
    BY DEF TargetReached
  <2> HIDE DEF low, high
  <2>3. QED BY <1>2, <2>1, <2>2
<1>5. QED BY <1>3, <1>4

LEMMA LastStatus ==
  \A s, a, b : LastOf(<<>>, s) = s /\ LastOf(<<a>>, s) = a /\ LastOf(<<a, b>>, s) = b
BY DEF LastOf

(* A candle leads a signal of status s to t: the rules of                  *)
(* evaluate_closed_candle in terms of what the candle touches.             *)
Leads(s, t) ==
  LET candle == CandleOf(path)
      stop == TouchesStop(plan, StopOf(s), candle)
      tp1 == TouchesTarget(plan, plan.takeProfit1, candle)
      tp2 == TouchesTarget(plan, plan.takeProfit2, candle)
  IN  /\ s = "active" =>
           t = IF minute >= Lifetime THEN "expired"
               ELSE IF TouchesEntry(plan, candle)
                    THEN IF stop THEN "ambiguous" ELSE "entered"
                    ELSE IF stop THEN "invalidated" ELSE "active"
      /\ s = "entered" =>
           t = IF stop /\ (tp1 \/ tp2) THEN "ambiguous"
               ELSE IF stop THEN "stopped"
               ELSE IF tp2 THEN "tp2_completed"
               ELSE IF tp1 THEN "tp1_reached" ELSE "entered"
      /\ s = "tp1_reached" =>
           t = IF stop /\ tp2 THEN "ambiguous"
               ELSE IF stop THEN "stopped_at_breakeven"
               ELSE IF tp2 THEN "tp2_completed" ELSE "tp1_reached"
      /\ s \notin {"active", "entered", "tp1_reached"} => t = s

(* What the candle makes of a signal.                                      *)
LEMMA CandleMoves ==
  ASSUME PathInvariant, path # <<>>
  PROVE  Leads(from, ByCandle)
<1> USE DEF Leads
<1> DEFINE candle == CandleOf(path)
           stop == TouchesStop(plan, StopOf(from), candle)
           tp1 == TouchesTarget(plan, plan.takeProfit1, candle)
           tp2 == TouchesTarget(plan, plan.takeProfit2, candle)
           low == candle.low
           high == candle.high
<1>1. TypedPlan(plan) /\ Lifetime \in Nat /\ minute \in Nat /\ from \in Statuses
  BY FollowedPlans, CandleAssumption DEF PathInvariant, AgreementTyped, CandleAssumption
<1>2. /\ low \in Int /\ high \in Int /\ low <= high
      /\ candle.open = minute /\ candle.close = minute + 1
  BY CandleRange
<1>3. ByCandle = LastOf(EvaluateClosedCandle(plan, Lifetime, from, StopOf(from), candle), from)
  BY DEF ByCandle
<1>4. CASE from = "active"
  <2>1. StopOf(from) = "initial"
    BY <1>4 DEF StopOf
  <2>2. EvaluateClosedCandle(plan, Lifetime, from, StopOf(from), candle) =
          CandleActive(plan, Lifetime, candle)
    BY <1>4 DEF EvaluateClosedCandle
  <2>3. candle.open >= Lifetime \/ candle.close > Lifetime <=> minute >= Lifetime
    BY <1>1, <1>2
  <2>4. ~(minute >= Lifetime) =>
          EvaluateActive(plan, Lifetime, plan.plannedEntry, candle.close - 1) = <<"entered">>
    <3>1. ~BeyondStop(plan, "initial", plan.plannedEntry)
      BY <1>1 DEF BeyondStop, StopPrice, TypedPlan
    <3>2. plan.plannedEntry \in plan.entryLower..plan.entryUpper
      BY <1>1 DEF TypedPlan
    <3>3. candle.close - 1 = minute
      BY <1>1, <1>2
    <3>4. QED BY <3>1, <3>2, <3>3 DEF EvaluateActive
  <2>5. CandleActive(plan, Lifetime, candle) =
          IF minute >= Lifetime THEN <<"expired">>
          ELSE IF TouchesEntry(plan, candle)
               THEN IF stop THEN <<"ambiguous">> ELSE <<"entered">>
               ELSE IF stop THEN <<"invalidated">> ELSE <<>>
    BY <2>1, <2>3, <2>4 DEF CandleActive
  <2> HIDE DEF candle, stop
  <2>6. QED BY <1>3, <1>4, <2>2, <2>5, LastStatus DEF candle, stop
<1>5. CASE from = "entered"
  <2>1. StopOf(from) = "initial"
    BY <1>5 DEF StopOf
  <2>2. EvaluateClosedCandle(plan, Lifetime, from, StopOf(from), candle) =
          CandleEntered(plan, "initial", candle)
    BY <1>5, <2>1 DEF EvaluateClosedCandle
  <2>3. EvaluateEntered(plan, "initial", StopPrice(plan, "initial")) = <<"stopped">>
    BY <1>1 DEF EvaluateEntered, BeyondStop, StopPrice, TypedPlan
  <2>4. EvaluateEntered(plan, "initial", plan.takeProfit2) = <<"tp1_reached", "tp2_completed">>
    BY <1>1 DEF EvaluateEntered, BeyondStop, StopPrice, TargetReached, TypedPlan
  <2>5. ~tp2 /\ tp1 => EvaluateEntered(plan, "initial", plan.takeProfit1) = <<"tp1_reached">>
    <3> SUFFICES ASSUME ~tp2, tp1
                 PROVE  EvaluateEntered(plan, "initial", plan.takeProfit1) = <<"tp1_reached">>
      OBVIOUS
    <3>1. ~TargetReached(plan, plan.takeProfit2, plan.takeProfit1)
      <4>1. /\ tp1 <=> TargetReached(plan, plan.takeProfit1, IF plan.direction = "long" THEN high ELSE low)
            /\ ~TargetReached(plan, plan.takeProfit2, IF plan.direction = "long" THEN high ELSE low)
        BY DEF TouchesTarget
      <4>2. {plan.takeProfit1, plan.takeProfit2} \subseteq Int /\ low \in Int /\ high \in Int
        BY <1>1, <1>2 DEF TypedPlan
      <4> HIDE DEF low, high, tp1
      <4>3. QED BY <4>1, <4>2 DEF TargetReached
    <3>2. TargetReached(plan, plan.takeProfit1, plan.takeProfit1)
      BY <1>1 DEF TargetReached, TypedPlan
    <3>3. ~BeyondStop(plan, "initial", plan.takeProfit1)
      BY <1>1 DEF BeyondStop, StopPrice, TypedPlan
    <3>4. QED BY <3>1, <3>2, <3>3 DEF EvaluateEntered
  <2>6. CandleEntered(plan, "initial", candle) =
          IF stop /\ (tp1 \/ tp2) THEN <<"ambiguous">>
          ELSE IF stop THEN <<"stopped">>
          ELSE IF tp2 THEN <<"tp1_reached", "tp2_completed">>
          ELSE IF tp1 THEN <<"tp1_reached">> ELSE <<>>
    BY <2>1, <2>3, <2>4, <2>5 DEF CandleEntered
  <2> HIDE DEF candle, stop, tp1, tp2
  <2>7. QED BY <1>3, <1>5, <2>1, <2>2, <2>6, LastStatus DEF candle, stop, tp1, tp2
<1>6. CASE from = "tp1_reached"
  <2>1. StopOf(from) = "breakeven"
    BY <1>6 DEF StopOf
  <2>2. EvaluateClosedCandle(plan, Lifetime, from, StopOf(from), candle) =
          CandleAfterTp1(plan, "breakeven", candle)
    BY <1>6, <2>1 DEF EvaluateClosedCandle
  <2>3. EvaluateAfterTp1(plan, "breakeven", StopPrice(plan, "breakeven")) =
          <<"stopped_at_breakeven">>
    BY <1>1 DEF EvaluateAfterTp1, BeyondStop, StopPrice, TypedPlan
  <2>4. EvaluateAfterTp1(plan, "breakeven", plan.takeProfit2) = <<"tp2_completed">>
    BY <1>1 DEF EvaluateAfterTp1, BeyondStop, StopPrice, TargetReached, TypedPlan
  <2>5. CandleAfterTp1(plan, "breakeven", candle) =
          IF stop /\ tp2 THEN <<"ambiguous">>
          ELSE IF stop THEN <<"stopped_at_breakeven">>
          ELSE IF tp2 THEN <<"tp2_completed">> ELSE <<>>
    BY <2>1, <2>3, <2>4 DEF CandleAfterTp1
  <2> HIDE DEF candle, stop, tp2
  <2>6. QED BY <1>3, <1>6, <2>1, <2>2, <2>5, LastStatus DEF candle, stop, tp2
<1>7. CASE from \notin {"active", "entered", "tp1_reached"}
  BY <1>3, <1>7 DEF EvaluateClosedCandle, LastOf
<1>8. QED BY <1>4, <1>5, <1>6, <1>7

(* When the trades stopped a signal out or invalidated it, the candle      *)
(* closes it as well and credits no target, whatever the plan and however  *)
(* many trades there are (the stop-first rules of evaluate_closed_candle). *)
THEOREM CandleMissesNoStop == Spec => []StopIsNeverMissed
<1>1. PathInvariant => StopIsNeverMissed
  <2> SUFFICES ASSUME PathInvariant, path # <<>>, status \in {"stopped", "invalidated"}
               PROVE  ByCandle \in {"stopped", "invalidated", "ambiguous"}
    BY DEF StopIsNeverMissed
  <2> DEFINE candle == CandleOf(path)
  <2>1. CASE status = from
    <3>1. ByCandle = from
      BY <2>1, CandleMoves DEF Leads
    <3>2. QED BY <2>1, <3>1
  <2>2. CASE status # from
    <3>1. TouchesStop(plan, "initial", candle)
      BY <2>2, CandleTouches DEF PathInvariant, StopIsSeen
    <3>2. \/ from = "active" /\ minute < Lifetime
          \/ from = "entered"
      BY <2>2 DEF PathInvariant, CameFrom
    <3>3. StopOf(from) = "initial"
      BY <3>2 DEF StopOf
    <3>4. minute \in Nat /\ Lifetime \in Nat
      BY CandleAssumption DEF PathInvariant, AgreementTyped, CandleAssumption
    <3>5. CASE from = "active" /\ minute < Lifetime
      <4>1. ~(minute >= Lifetime)
        BY <3>4, <3>5
      <4> HIDE DEF candle
      <4>2. QED BY <3>1, <3>3, <3>5, <4>1, CandleMoves DEF candle, Leads
    <3>6. CASE from = "entered"
      <4>1. ByCandle \in {"ambiguous", "stopped"}
        BY <3>1, <3>3, <3>6, CandleMoves DEF Leads
      <4>2. QED BY <4>1
    <3>7. QED BY <3>2, <3>5, <3>6
  <2>3. QED BY <2>1, <2>2
<1>2. QED BY <1>1, PathInvariantHolds, PTL

-----------------------------------------------------------------------------
(* A trade of the minute may have been the first of it.                    *)
LEMMA AnyTradeFirst ==
  ASSUME path \in Seq(Int), NEW x \in PricesOf(path)
  PROVE  \E q \in Orders(path) : Len(q) = Len(path) /\ q[1] = x /\ q \in Seq(Int)
<1> DEFINE n == Len(path)
<1>1. n \in Nat /\ DOMAIN path = 1..n /\ \A k \in 1..n : path[k] \in Int
  OBVIOUS
<1>2. PICK j \in 1..n : x = path[j]
  BY <1>1 DEF PricesOf
<1> DEFINE f == [k \in 1..n |-> IF k = 1 THEN j ELSE IF k = j THEN 1 ELSE k]
           q == [k \in 1..n |-> path[f[k]]]
<1> HIDE DEF n
<1>3. 1 \in 1..n
  BY <1>1, <1>2
<1>4. f \in [1..n -> 1..n] /\ f[1] = j
  BY <1>1, <1>2, <1>3
<1>5. \A i, k \in 1..n : i # k => f[k] # f[i]
  BY <1>1, <1>2
<1>6. f \in {g \in [1..n -> 1..n] : \A i, k \in 1..n : i # k => g[i] # g[k]}
  BY <1>4, <1>5
<1>7. q \in Orders(path)
  <2> HIDE DEF f
  <2>1. QED BY <1>6 DEF Orders, n
<1>8. q[1] = x
  BY <1>2, <1>3, <1>4
<1>9. q \in [1..n -> Int]
  BY <1>1, <1>4
<1>10. q \in Seq(Int) /\ Len(q) = n
  <2> HIDE DEF q
  <2>1. QED BY <1>1, <1>9
<1>11. QED BY <1>7, <1>8, <1>10 DEF n

(* The least of some naturals. *)
LEMMA LeastIsThere ==
  ASSUME NEW T \in SUBSET Nat, T # {}
  PROVE  Least(T) \in T /\ \A x \in T : Least(T) <= x
<1> DEFINE R == OpToRel(<, Nat)
<1>1. \E x \in T : \A y \in T : ~(<<y, x>> \in R)
  BY NatLessThanWellFounded, WFMin
<1>2. \A x, y \in Nat : <<y, x>> \in R <=> y < x
  BY DEF OpToRel
<1> HIDE DEF R
<1>3. PICK x \in T : \A y \in T : ~(<<y, x>> \in R)
  BY <1>1
<1>4. ASSUME NEW y \in T PROVE x <= y
  <2>1. ~(y < x) /\ x \in Nat /\ y \in Nat
    BY <1>2, <1>3
  <2>2. QED BY <2>1
<1>5. QED BY <1>4 DEF Least

(* The status after each trade of a path. *)
LEMMA AfterRounds ==
  ASSUME NEW s, NEW q, Len(q) \in Nat
  PROVE  /\ After(s, q)[0] = s
         /\ \A k \in 1..Len(q) : After(s, q)[k] = Traded(plan, After(s, q)[k - 1], q[k])
<1> DEFINE Rec(g, m) == g = [k \in 0..m |-> IF k = 0 THEN s ELSE Traded(plan, g[k - 1], q[k])]
           Bad == {m \in Nat : ~\E g : Rec(g, m)}
           n == Len(q)
<1>1. Bad = {}
  <2> SUFFICES ASSUME Bad # {} PROVE FALSE
    OBVIOUS
  <2> DEFINE m == Least(Bad)
  <2>1. m \in Bad /\ \A x \in Bad : m <= x
    BY LeastIsThere
  <2>2. CASE m = 0
    <3> DEFINE g == [k \in 0..0 |-> s]
    <3>1. Rec(g, 0)
      OBVIOUS
    <3>2. QED BY <2>1, <2>2, <3>1
  <2>3. CASE m # 0
    <3> DEFINE p == m - 1
    <3>1. m \in Nat
      BY <2>1
    <3> HIDE DEF Bad, m, Rec
    <3>2. p \in Nat /\ m = p + 1
      BY <2>3, <3>1
    <3>3. p \notin Bad
      BY <2>1, <3>2
    <3>4. PICK g : Rec(g, p)
      BY <3>2, <3>3 DEF Bad
    <3> DEFINE h == [k \in 0..(p + 1) |-> IF k = 0 THEN s ELSE Traded(plan, g[k - 1], q[k])]
    <3> HIDE DEF p
    <3>5. \A k \in 0..p : g[k] = IF k = 0 THEN s ELSE Traded(plan, g[k - 1], q[k])
      BY <3>4 DEF Rec
    <3>6. \A k \in 0..p : h[k] = g[k]
      BY <3>2, <3>5
    <3>7. \A k \in 0..(p + 1) : h[k] = IF k = 0 THEN s ELSE Traded(plan, h[k - 1], q[k])
      <4> TAKE k \in 0..(p + 1)
      <4>1. CASE k = 0
        BY <4>1
      <4>2. CASE k # 0
        <5>1. k - 1 \in 0..p
          BY <3>2, <4>2
        <5>2. h[k] = Traded(plan, g[k - 1], q[k])
          BY <4>2
        <5>3. QED BY <3>6, <4>2, <5>1, <5>2
      <4>3. QED BY <4>1, <4>2
    <3>8. h = [k \in 0..(p + 1) |-> h[k]]
      OBVIOUS
    <3> HIDE DEF h
    <3>9. Rec(h, p + 1)
      BY <3>7, <3>8 DEF Rec
    <3>10. QED BY <2>1, <3>2, <3>9 DEF Bad
  <2>4. QED BY <2>2, <2>3
<1>2. \E g : Rec(g, n)
  BY <1>1
<1>3. After(s, q) = CHOOSE g : Rec(g, n)
  BY DEF After
<1>4. Rec(After(s, q), n)
  BY <1>2, <1>3
<1>5. \A k \in 0..n : After(s, q)[k] =
        IF k = 0 THEN s ELSE Traded(plan, After(s, q)[k - 1], q[k])
  BY <1>4
<1>6. 0 \in 0..n /\ \A k \in 1..n : k \in 0..n /\ k # 0
  OBVIOUS
<1>7. QED BY <1>5, <1>6

LEMMA AfterFirst ==
  ASSUME NEW s, NEW q \in Seq(Int), Len(q) >= 1
  PROVE  ByTradesFrom(s, SubSeq(q, 1, 1)) = Traded(plan, s, q[1])
<1> DEFINE one == SubSeq(q, 1, 1)
<1>1. Len(one) = 1 /\ one[1] = q[1]
  OBVIOUS
<1> HIDE DEF one
<1>2. /\ After(s, one)[0] = s
      /\ \A k \in 1..Len(one) : After(s, one)[k] = Traded(plan, After(s, one)[k - 1], one[k])
  <2>1. Len(one) \in Nat
    BY <1>1
  <2>2. QED BY <2>1, AfterRounds
<1>3. 1 \in 1..Len(one) /\ 1 - 1 = 0
  BY <1>1
<1>4. After(s, one)[1] = Traded(plan, s, q[1])
  BY <1>1, <1>2, <1>3
<1>5. QED BY <1>1, <1>4 DEF ByTradesFrom, one

(* The candle credits a target only if the trades of the minute reach it   *)
(* in some order with the position open (evaluate_closed_candle): one that *)
(* reaches it may have come first, and no trade of the minute is beyond    *)
(* the stop.                                                               *)
THEOREM CandleInventsNoProfit == Spec => []ProfitIsPossible
<1>1. PathInvariant => ProfitIsPossible
  <2> SUFFICES ASSUME PathInvariant, path # <<>>,
                      ByCandle \in {"tp1_reached", "tp2_completed"}, ByCandle # from
               PROVE  \E q \in Orders(path) : \E n \in 1..Len(q) :
                        ByTradesFrom(from, SubSeq(q, 1, n)) = ByCandle
    BY DEF ProfitIsPossible
  <2> DEFINE candle == CandleOf(path)
             stop == TouchesStop(plan, StopOf(from), candle)
             tp1 == TouchesTarget(plan, plan.takeProfit1, candle)
             tp2 == TouchesTarget(plan, plan.takeProfit2, candle)
  <2>1. /\ TypedPlan(plan) /\ plan.takeProfit1 \in Int /\ plan.takeProfit2 \in Int
        /\ minute \in Nat /\ path \in Seq(Int) /\ from \in Statuses
        /\ PricesOf(path) \subseteq Int
    BY FollowedPlans DEF PathInvariant, AgreementTyped, TypedPlan, PricesOf
  <2>2. \/ from = "entered" /\ ~stop /\ tp2 /\ ByCandle = "tp2_completed"
        \/ from = "entered" /\ ~stop /\ tp1 /\ ~tp2 /\ ByCandle = "tp1_reached"
        \/ from = "tp1_reached" /\ ~stop /\ tp2 /\ ByCandle = "tp2_completed"
    <3> HIDE DEF candle, stop, tp1, tp2
    <3>1. /\ from = "active" => ByCandle \in {"expired", "ambiguous", "entered", "invalidated",
                                             "active"}
          /\ from = "entered" =>
               ByCandle = IF stop /\ (tp1 \/ tp2) THEN "ambiguous"
                          ELSE IF stop THEN "stopped"
                          ELSE IF tp2 THEN "tp2_completed"
                          ELSE IF tp1 THEN "tp1_reached" ELSE "entered"
          /\ from = "tp1_reached" =>
               ByCandle = IF stop /\ tp2 THEN "ambiguous"
                          ELSE IF stop THEN "stopped_at_breakeven"
                          ELSE IF tp2 THEN "tp2_completed" ELSE "tp1_reached"
          /\ from \notin {"active", "entered", "tp1_reached"} => ByCandle = from
      BY CandleMoves DEF candle, stop, tp1, tp2, Leads
    <3>2. QED BY <3>1
  <2>3. stop <=> \E x \in PricesOf(path) : BeyondStop(plan, StopOf(from), x)
    BY CandleTouches DEF StopOf
  <2>4. /\ tp1 <=> \E x \in PricesOf(path) : TargetReached(plan, plan.takeProfit1, x)
        /\ tp2 <=> \E x \in PricesOf(path) : TargetReached(plan, plan.takeProfit2, x)
    BY <2>1, CandleTouches
  <2> HIDE DEF candle, stop, tp1, tp2
  <2>5. PICK x \in PricesOf(path) : Traded(plan, from, x) = ByCandle
    <3>1. CASE from = "entered" /\ ~stop /\ tp2 /\ ByCandle = "tp2_completed"
      <4>1. PICK x \in PricesOf(path) : TargetReached(plan, plan.takeProfit2, x)
        BY <2>4, <3>1
      <4>2. ~BeyondStop(plan, "initial", x)
        BY <2>3, <3>1 DEF StopOf
      <4>3. Traded(plan, from, x) = "tp2_completed"
        BY <2>1, <3>1, <4>1, <4>2, TradeMoves
      <4>4. QED BY <3>1, <4>3
    <3>2. CASE from = "entered" /\ ~stop /\ tp1 /\ ~tp2 /\ ByCandle = "tp1_reached"
      <4>1. PICK x \in PricesOf(path) : TargetReached(plan, plan.takeProfit1, x)
        BY <2>4, <3>2
      <4>2. ~BeyondStop(plan, "initial", x) /\ ~TargetReached(plan, plan.takeProfit2, x)
        BY <2>3, <2>4, <3>2 DEF StopOf
      <4>3. Traded(plan, from, x) = "tp1_reached"
        BY <2>1, <3>2, <4>1, <4>2, TradeMoves
      <4>4. QED BY <3>2, <4>3
    <3>3. CASE from = "tp1_reached" /\ ~stop /\ tp2 /\ ByCandle = "tp2_completed"
      <4>1. PICK x \in PricesOf(path) : TargetReached(plan, plan.takeProfit2, x)
        BY <2>4, <3>3
      <4>2. ~BeyondStop(plan, "breakeven", x)
        BY <2>3, <3>3 DEF StopOf
      <4>3. Traded(plan, from, x) = "tp2_completed"
        BY <2>1, <3>3, <4>1, <4>2, TradeMoves
      <4>4. QED BY <3>3, <4>3
    <3>4. QED BY <2>2, <3>1, <3>2, <3>3
  <2>6. PICK q \in Orders(path) : Len(q) = Len(path) /\ q[1] = x /\ q \in Seq(Int)
    BY <2>1, AnyTradeFirst
  <2>7. Len(q) \in Nat /\ Len(q) >= 1
    BY <2>1, <2>6
  <2>8. ByTradesFrom(from, SubSeq(q, 1, 1)) = ByCandle
    BY <2>5, <2>6, <2>7, AfterFirst
  <2>9. 1 \in 1..Len(q)
    BY <2>7
  <2>10. QED BY <2>6, <2>8, <2>9
<1>2. QED BY <1>1, PathInvariantHolds, PTL

-----------------------------------------------------------------------------
(* What the trades of a minute can have been, in the order that a candle   *)
(* stands for. A status that every later trade keeps is kept to the end.   *)
LEMMA KeptToTheEnd ==
  ASSUME NEW s, NEW q, Len(q) \in Nat, NEW m \in 0..Len(q), NEW n \in m..Len(q), NEW X,
         After(s, q)[m] \in X,
         \A k \in (m + 1)..n : \A t \in X : Traded(plan, t, q[k]) \in X
  PROVE  After(s, q)[n] \in X
<1> DEFINE Bad == {k \in m..n : After(s, q)[k] \notin X}
<1>7. n \in m..n
  OBVIOUS
<1>8. SUFFICES ASSUME Bad # {} PROVE FALSE
  BY <1>7
<1> DEFINE b == Least(Bad)
<1>1. b \in Bad /\ \A k \in Bad : b <= k
  <2>1. Bad \in SUBSET Nat
    OBVIOUS
  <2> HIDE DEF Bad
  <2>2. QED BY <1>8, <2>1, LeastIsThere
<1> HIDE DEF b
<1>2. b \in m..n /\ After(s, q)[b] \notin X /\ b # m
  BY <1>1
<1>3. b - 1 \in m..n /\ b - 1 \notin Bad /\ b \in (m + 1)..n /\ b \in 1..Len(q)
  BY <1>1, <1>2
<1>4. After(s, q)[b - 1] \in X
  BY <1>3
<1>5. After(s, q)[b] = Traded(plan, After(s, q)[b - 1], q[b])
  BY <1>3, AfterRounds
<1>6. QED BY <1>2, <1>3, <1>4, <1>5

(* The trades of some prices may all have come before the others.          *)
LEMMA SomePricesFirst ==
  ASSUME path \in Seq(Int), NEW P
  PROVE  \E q \in Orders(path), m \in 0..Len(path) :
           /\ Len(q) = Len(path)
           /\ \A k \in 1..Len(path) : q[k] \in PricesOf(path) /\ (q[k] \in P <=> k <= m)
           /\ \A x \in PricesOf(path) : \E k \in 1..Len(path) : q[k] = x
<1> DEFINE n == Len(path)
           Fits(i, f, m) ==
             /\ f \in [1..i -> 1..i]
             /\ \A j, k \in 1..i : j # k => f[j] # f[k]
             /\ \A j \in 1..i : \E k \in 1..i : f[k] = j
             /\ \A k \in 1..i : path[f[k]] \in P <=> k <= m
           Bad == {i \in Nat : ~\E f : \E m \in 0..i : Fits(i, f, m)}
<1> HIDE DEF Fits
<1>1. Bad = {}
  <2> SUFFICES ASSUME Bad # {} PROVE FALSE
    OBVIOUS
  <2> DEFINE b == Least(Bad)
  <2>1. b \in Bad /\ \A i \in Bad : b <= i
    BY LeastIsThere
  <2>2. CASE b = 0
    <3>1. Fits(0, [k \in 1..0 |-> k], 0)
      BY DEF Fits
    <3>2. 0 \in 0..0
      OBVIOUS
    <3>3. 0 \notin Bad
      BY <3>1, <3>2
    <3>4. QED BY <2>1, <2>2, <3>3
  <2>3. CASE b # 0
    <3> DEFINE i == b - 1
    <3>1. b \in Nat
      BY <2>1
    <3> HIDE DEF Bad, b
    <3>2. i \in Nat /\ b = i + 1 /\ i \notin Bad
      BY <2>1, <2>3, <3>1
    <3> HIDE DEF i
    <3>7. PICK f : \E m \in 0..i : Fits(i, f, m)
      BY <3>2 DEF Bad
    <3>3. PICK m \in 0..i : Fits(i, f, m)
      BY <3>7
    <3>4. /\ f \in [1..i -> 1..i]
          /\ \A j, k \in 1..i : j # k => f[j] # f[k]
          /\ \A j \in 1..i : \E k \in 1..i : f[k] = j
          /\ \A k \in 1..i : path[f[k]] \in P <=> k <= m
      BY <3>3 DEF Fits
    <3>9. /\ \A k \in 1..i : f[k] \in 1..i
          /\ \A k \in 1..i : k \in 1..(i + 1) /\ k # i + 1
          /\ i + 1 \in 1..(i + 1)
      <4>1. \A k \in 1..i : f[k] \in 1..i
        BY <3>4
      <4>2. \A k \in 1..i : k \in 1..(i + 1) /\ k # i + 1
        BY <3>2
      <4>3. QED BY <3>2, <4>1, <4>2
    <3>5. CASE path[i + 1] \notin P
      <4> DEFINE g == [k \in 1..(i + 1) |-> IF k = i + 1 THEN i + 1 ELSE f[k]]
      <4>1. g \in [1..(i + 1) -> 1..(i + 1)]
        <5>1. \A k \in 1..(i + 1) : k = i + 1 \/ k \in 1..i
          BY <3>2
        <5>2. QED BY <3>9, <5>1
      <4>2. \A k \in 1..i : g[k] = f[k] /\ k \in 1..(i + 1)
        BY <3>2
      <4>3. g[i + 1] = i + 1 /\ i + 1 \in 1..(i + 1)
        BY <3>2
      <4> HIDE DEF g
      <4>4. \A k \in 1..(i + 1) : k = i + 1 \/ k \in 1..i
        BY <3>2
      <4>5. \A j, k \in 1..(i + 1) : j # k => g[j] # g[k]
        <5>1. \A k \in 1..i : g[k] \in 1..i /\ g[k] # i + 1
          BY <3>9, <4>2
        <5>2. QED BY <3>4, <4>2, <4>3, <4>4, <5>1
      <4>6. \A j \in 1..(i + 1) : \E k \in 1..(i + 1) : g[k] = j
        BY <3>4, <4>2, <4>3, <4>4
      <4>7. \A k \in 1..(i + 1) : path[g[k]] \in P <=> k <= m
        <5>1. ~(i + 1 <= m)
          BY <3>2
        <5>2. QED BY <3>4, <3>5, <4>2, <4>3, <4>4, <5>1
      <4>8. Fits(i + 1, g, m) /\ m \in 0..(i + 1)
        <5>1. Fits(i + 1, g, m)
          BY <4>1, <4>5, <4>6, <4>7, Zenon DEF Fits
        <5>2. m \in 0..(i + 1)
          BY <3>2
        <5>3. QED BY <5>1, <5>2
      <4>9. QED BY <2>1, <3>2, <4>8 DEF Bad
    <3>6. CASE path[i + 1] \in P
      <4> DEFINE g == [k \in 1..(i + 1) |-> IF k = m + 1 THEN i + 1
                                            ELSE IF k = i + 1 THEN f[m + 1] ELSE f[k]]
      <4>1. m + 1 \in 1..(i + 1) /\ g[m + 1] = i + 1
        BY <3>2
      <4>2. \A k \in 1..i : k # m + 1 => g[k] = f[k] /\ k \in 1..(i + 1)
        BY <3>2
      <4>3. m # i => m + 1 \in 1..i /\ i + 1 \in 1..(i + 1) /\ m + 1 # i + 1
                     /\ g[i + 1] = f[m + 1]
        BY <3>2
      <4>4. \A k \in 1..(i + 1) : \/ k = m + 1
                                  \/ k \in 1..i /\ k # m + 1
                                  \/ k = i + 1 /\ m # i
        BY <3>2
      <4>5. g \in [1..(i + 1) -> 1..(i + 1)]
        <5>1. \A k \in 1..(i + 1) : g[k] \in 1..(i + 1)
          <6> HIDE DEF g
          <6>1. \A j \in 1..i : j \in 1..(i + 1)
            BY <3>2
          <6>2. \A k \in 1..i : f[k] \in 1..i
            BY <3>4
          <6>3. i + 1 \in 1..(i + 1)
            BY <3>2
          <6>4. QED BY <4>1, <4>2, <4>3, <4>4, <6>1, <6>2, <6>3
        <5>2. QED BY <5>1
      <4> HIDE DEF g
      <4>6. \A k \in 1..(i + 1) : k # m + 1 => g[k] # i + 1
        <5>1. \A k \in 1..i : f[k] # i + 1
          BY <3>2, <3>4
        <5>2. QED BY <4>2, <4>3, <4>4, <5>1
      <4>7. \A j, k \in 1..(i + 1) : j # k => g[j] # g[k]
        <5> DEFINE a(k) == IF k = i + 1 THEN m + 1 ELSE k
        <5>1. \A k \in 1..(i + 1) : k # m + 1 => a(k) \in 1..i /\ g[k] = f[a(k)]
          BY <3>9, <4>2, <4>3, <4>4
        <5>2. \A j, k \in 1..(i + 1) : j # m + 1 /\ k # m + 1 /\ j # k => a(j) # a(k)
          OBVIOUS
        <5> HIDE DEF a
        <5>3. ASSUME NEW j \in 1..(i + 1), NEW k \in 1..(i + 1), j # k, j # m + 1, k # m + 1
              PROVE  g[j] # g[k]
          BY <3>4, <5>1, <5>2, <5>3
        <5>4. \A k \in 1..(i + 1) : k # m + 1 => g[k] # g[m + 1]
          BY <4>1, <4>6
        <5>5. QED BY <5>3, <5>4
      <4>8. \A j \in 1..(i + 1) : \E k \in 1..(i + 1) : g[k] = j
        <5> TAKE j \in 1..(i + 1)
        <5>1. CASE j = i + 1
          BY <4>1, <5>1
        <5>2. CASE j # i + 1
          <6>1. j \in 1..i
            BY <3>2, <5>2
          <6>2. PICK k \in 1..i : f[k] = j
            BY <3>4, <6>1
          <6>3. k = m + 1 => m # i
            BY <3>2
          <6>4. CASE k = m + 1
            BY <4>3, <6>2, <6>3, <6>4
          <6>5. CASE k # m + 1
            BY <4>2, <6>2, <6>5
          <6>6. QED BY <6>4, <6>5
        <5>3. QED BY <5>1, <5>2
      <4>9. \A k \in 1..(i + 1) : path[g[k]] \in P <=> k <= m + 1
        <5> TAKE k \in 1..(i + 1)
        <5>1. CASE k = m + 1
          BY <3>2, <3>6, <4>1, <5>1
        <5>2. CASE k \in 1..i /\ k # m + 1
          <6>1. k <= m + 1 <=> k <= m
            BY <3>2, <5>2
          <6>2. QED BY <3>4, <4>2, <5>2, <6>1
        <5>3. CASE k = i + 1 /\ m # i
          <6>1. ~(m + 1 <= m) /\ ~(i + 1 <= m + 1)
            BY <3>2, <5>3
          <6>2. QED BY <3>4, <4>3, <5>3, <6>1
        <5>4. QED BY <4>4, <5>1, <5>2, <5>3
      <4>10. Fits(i + 1, g, m + 1) /\ m + 1 \in 0..(i + 1)
        <5>1. Fits(i + 1, g, m + 1)
          BY <4>5, <4>7, <4>8, <4>9, Zenon DEF Fits
        <5>2. m + 1 \in 0..(i + 1)
          BY <3>2
        <5>3. QED BY <5>1, <5>2
      <4>11. QED BY <2>1, <3>2, <4>10 DEF Bad
    <3>8. QED BY <3>5, <3>6
  <2>4. QED BY <2>2, <2>3
<1>2. n \in Nat /\ DOMAIN path = 1..n /\ PricesOf(path) = {path[k] : k \in 1..n}
  BY DEF PricesOf
<1> HIDE DEF n
<1>10. PICK f : \E m \in 0..n : Fits(n, f, m)
  BY <1>1, <1>2
<1>11. PICK m \in 0..n : Fits(n, f, m)
  BY <1>10
<1>3. /\ f \in [1..n -> 1..n]
      /\ \A j, k \in 1..n : j # k => f[j] # f[k]
      /\ \A j \in 1..n : \E k \in 1..n : f[k] = j
      /\ \A k \in 1..n : path[f[k]] \in P <=> k <= m
  BY <1>11 DEF Fits
<1> DEFINE q == [k \in 1..n |-> path[f[k]]]
<1>4. f \in {g \in [1..n -> 1..n] : \A j, k \in 1..n : j # k => g[j] # g[k]}
  BY <1>3
<1>5. q \in Orders(path)
  BY <1>4 DEF Orders, n
<1>6. Len(q) = n
  <2>1. q \in [1..n -> PricesOf(path)]
    BY <1>2, <1>3
  <2> HIDE DEF q
  <2>2. QED BY <1>2, <2>1
<1>7. \A k \in 1..n : q[k] \in PricesOf(path) /\ (q[k] \in P <=> k <= m)
  BY <1>2, <1>3
<1>8. \A x \in PricesOf(path) : \E k \in 1..n : q[k] = x
  <2> TAKE x \in PricesOf(path)
  <2>1. PICK j \in 1..n : x = path[j]
    BY <1>2
  <2>2. PICK k \in 1..n : f[k] = j
    BY <1>3
  <2>3. QED BY <2>1, <2>2
<1> HIDE DEF q
<1>9. QED BY <1>3, <1>5, <1>6, <1>7, <1>8 DEF n

LEMMA DecidedAtOnce ==
  ASSUME PathInvariant, NEW s, NEW x \in PricesOf(path),
         NEW t \in Statuses \ {"active", "entered", "tp1_reached"}, Traded(plan, s, x) = t
  PROVE  \E q \in Orders(path) : ByTradesFrom(s, q) = t
<1> DEFINE n == Len(path)
<1>1. /\ TypedPlan(plan) /\ minute \in Nat /\ path \in Seq(Int) /\ PricesOf(path) \subseteq Int
      /\ n \in Nat
  BY FollowedPlans DEF PathInvariant, AgreementTyped, PricesOf
<1> HIDE DEF n
<1>2. PICK q \in Orders(path), m \in 0..n :
        /\ Len(q) = n
        /\ \A k \in 1..n : q[k] \in PricesOf(path) /\ (q[k] \in {x} <=> k <= m)
        /\ \A y \in PricesOf(path) : \E k \in 1..n : q[k] = y
  BY <1>1, SomePricesFirst DEF n
<1>3. n >= 1 /\ q[1] = x
  <2>1. PICK k \in 1..n : q[k] = x
    BY <1>2
  <2>2. k <= m
    BY <1>2, <2>1
  <2>3. 1 \in 1..n /\ 1 <= m
    BY <1>1, <1>2, <2>1, <2>2
  <2>4. QED BY <1>2, <2>3
<1>4. After(s, q)[1] = t
  <2>1. After(s, q)[0] = s /\ After(s, q)[1] = Traded(plan, After(s, q)[1 - 1], q[1])
    <3>1. Len(q) \in Nat /\ 1 \in 1..Len(q)
      BY <1>1, <1>2, <1>3
    <3>2. QED BY <3>1, AfterRounds
  <2>2. 1 - 1 = 0
    OBVIOUS
  <2>3. QED BY <1>3, <2>1, <2>2
<1>5. \A k \in 1..n : \A u \in {t} : Traded(plan, u, q[k]) \in {t}
  BY <1>1, <1>2, TradeMoves
<1>6. After(s, q)[n] \in {t}
  <2>1. /\ 1 \in 0..Len(q) /\ n \in 1..Len(q) /\ Len(q) \in Nat
        /\ After(s, q)[1] \in {t}
        /\ \A k \in (1 + 1)..n : \A u \in {t} : Traded(plan, u, q[k]) \in {t}
    BY <1>1, <1>2, <1>3, <1>4, <1>5
  <2>2. QED BY <2>1, KeptToTheEnd
<1>7. QED BY <1>2, <1>6 DEF ByTradesFrom

(* The prices of P, which change nothing, came first, and one of the       *)
(* others decided.                                                         *)
LEMMA DecidedLater ==
  ASSUME PathInvariant, NEW s, NEW P, NEW t,
         \A y \in PricesOf(path) \cap P : Traded(plan, s, y) = s,
         \A y \in PricesOf(path) \ P : Traded(plan, s, y) \in {s, t}
                                         /\ Traded(plan, t, y) = t,
         NEW x \in PricesOf(path) \ P, Traded(plan, s, x) = t
  PROVE  \E q \in Orders(path) : ByTradesFrom(s, q) = t
<1> DEFINE n == Len(path)
<1>1. path \in Seq(Int) /\ n \in Nat
  BY DEF PathInvariant, AgreementTyped
<1> HIDE DEF n
<1>2. PICK q \in Orders(path), m \in 0..n :
        /\ Len(q) = n
        /\ \A k \in 1..n : q[k] \in PricesOf(path) /\ (q[k] \in P <=> k <= m)
        /\ \A y \in PricesOf(path) : \E k \in 1..n : q[k] = y
  BY <1>1, SomePricesFirst DEF n
<1>3. PICK j \in 1..n : q[j] = x
  BY <1>2
<1>4. j \in (m + 1)..n /\ j - 1 \in m..n
  <2>1. ~(j <= m)
    BY <1>2, <1>3
  <2>2. QED BY <1>1, <2>1
<1>5. After(s, q)[m] \in {s}
  <2>1. After(s, q)[0] \in {s}
    BY <1>1, <1>2, AfterRounds
  <2>2. \A k \in (0 + 1)..m : \A u \in {s} : Traded(plan, u, q[k]) \in {s}
    <3>1. \A k \in (0 + 1)..m : k \in 1..n /\ k <= m
      BY <1>1
    <3>2. QED BY <1>2, <3>1
  <2>3. 0 \in 0..Len(q) /\ m \in 0..Len(q) /\ Len(q) \in Nat
    BY <1>1, <1>2
  <2>4. QED BY <2>1, <2>2, <2>3, KeptToTheEnd
<1>6. \A k \in (m + 1)..n : k \in 1..n /\ q[k] \in PricesOf(path) \ P
  <2>1. \A k \in (m + 1)..n : k \in 1..n /\ ~(k <= m)
    BY <1>1
  <2>2. QED BY <1>2, <2>1
<1>7. After(s, q)[j - 1] \in {s, t}
  <2>1. \A k \in (m + 1)..(j - 1) : \A u \in {s, t} : Traded(plan, u, q[k]) \in {s, t}
    <3>1. \A k \in (m + 1)..(j - 1) : k \in (m + 1)..n
      BY <1>1, <1>4
    <3>2. QED BY <1>6, <3>1
  <2>2. m \in 0..Len(q) /\ j - 1 \in m..Len(q) /\ Len(q) \in Nat
    BY <1>1, <1>2, <1>4
  <2>3. After(s, q)[m] \in {s, t}
    BY <1>5
  <2>4. QED BY <2>1, <2>2, <2>3, KeptToTheEnd
<1>8. After(s, q)[j] \in {t}
  <2>1. After(s, q)[j] = Traded(plan, After(s, q)[j - 1], q[j])
    <3>1. Len(q) \in Nat /\ j \in 1..Len(q)
      BY <1>1, <1>2
    <3>2. QED BY <3>1, AfterRounds
  <2>2. QED BY <1>3, <1>7, <2>1
<1>9. After(s, q)[n] \in {t}
  <2>1. \A k \in (j + 1)..n : \A u \in {t} : Traded(plan, u, q[k]) \in {t}
    <3>1. \A k \in (j + 1)..n : k \in (m + 1)..n
      BY <1>1, <1>4
    <3>2. QED BY <1>6, <3>1
  <2>2. j \in 0..Len(q) /\ n \in j..Len(q) /\ Len(q) \in Nat
    BY <1>1, <1>2
  <2>3. QED BY <1>8, <2>1, <2>2, KeptToTheEnd
<1>10. QED BY <1>2, <1>9 DEF ByTradesFrom

LEMMA NothingDecides ==
  ASSUME PathInvariant, NEW s, \A y \in PricesOf(path) : Traded(plan, s, y) = s
  PROVE  \E q \in Orders(path) : ByTradesFrom(s, q) = s
<1> DEFINE n == Len(path)
<1>1. path \in Seq(Int) /\ n \in Nat
  BY DEF PathInvariant, AgreementTyped
<1> HIDE DEF n
<1>2. PICK q \in Orders(path), m \in 0..n :
        /\ Len(q) = n
        /\ \A k \in 1..n : q[k] \in PricesOf(path) /\ (q[k] \in {} <=> k <= m)
        /\ \A y \in PricesOf(path) : \E k \in 1..n : q[k] = y
  BY <1>1, SomePricesFirst DEF n
<1>3. After(s, q)[n] \in {s}
  <2>1. After(s, q)[0] \in {s}
    BY <1>1, <1>2, AfterRounds
  <2>2. \A k \in (0 + 1)..n : \A u \in {s} : Traded(plan, u, q[k]) \in {s}
    BY <1>2
  <2>3. 0 \in 0..Len(q) /\ n \in 0..Len(q) /\ Len(q) \in Nat
    BY <1>1, <1>2
  <2>4. QED BY <2>1, <2>2, <2>3, KeptToTheEnd
<1>4. QED BY <1>2, <1>3 DEF ByTradesFrom

(* A plan whose targets lie beyond the zone, and TP1 beyond the price the  *)
(* stop is moved to there.                                                 *)
LevelsApart(p) ==
  /\ p.direction = "long" =>
       /\ p.entryUpper < p.takeProfit1 /\ p.entryUpper < p.takeProfit2
       /\ p.plannedEntry + p.roundTripCost < p.takeProfit1
  /\ p.direction = "short" =>
       /\ p.takeProfit1 < p.entryLower /\ p.takeProfit2 < p.entryLower
       /\ p.takeProfit1 < p.plannedEntry - p.roundTripCost

LEMMA ApartPrices ==
  ASSUME TypedPlan(plan), LevelsApart(plan), NEW x \in Int
  PROVE  /\ TargetReached(plan, plan.takeProfit1, x) \/ TargetReached(plan, plan.takeProfit2, x) =>
              x \notin plan.entryLower..plan.entryUpper
         /\ TargetReached(plan, plan.takeProfit1, x) => ~BeyondStop(plan, "breakeven", x)
<1>1. CASE plan.direction = "long"
  BY <1>1 DEF TypedPlan, LevelsApart, TargetReached, BeyondStop, StopPrice
<1>2. CASE plan.direction = "short"
  BY <1>2 DEF TypedPlan, LevelsApart, TargetReached, BeyondStop, StopPrice
<1>3. QED BY <1>1, <1>2 DEF TypedPlan

(* A candle that does not touch the entry has no trade in the zone.        *)
LEMMA EntryTouched ==
  ASSUME PathInvariant, path # <<>>, NEW x \in PricesOf(path), x \in plan.entryLower..plan.entryUpper
  PROVE  TouchesEntry(plan, CandleOf(path))
<1>1. TypedPlan(plan)
  BY FollowedPlans DEF PathInvariant, AgreementTyped
<1> DEFINE low == CandleOf(path).low
           high == CandleOf(path).high
<1>2. low \in Int /\ high \in Int /\ x \in Int /\ low <= x /\ x <= high
  <2>1. /\ low \in PricesOf(path) /\ high \in PricesOf(path)
        /\ \A y \in PricesOf(path) : y \in Int /\ low <= y /\ y <= high
    BY CandleRange
  <2> HIDE DEF low, high
  <2>2. QED BY <2>1
<1>3. TouchesEntry(plan, CandleOf(path)) <=> low <= plan.entryUpper /\ plan.entryLower <= high
  BY DEF TouchesEntry
<1>4. plan.entryLower \in Int /\ plan.entryUpper \in Int
  BY <1>1 DEF TypedPlan
<1> HIDE DEF low, high
<1>5. QED BY <1>2, <1>3, <1>4

(* Unless the candle declares the minute ambiguous, or counts a zone as    *)
(* touched that the trades jumped over, some order of the trades ends      *)
(* where the candle does, whatever the signal was before.                  *)
LEMMA SomeOrderEnds ==
  ASSUME PathInvariant, path # <<>>, LevelsApart(plan), NEW s \in Statuses, NEW t, Leads(s, t),
         ~(s = "active" /\ GapOverEntry), t # "ambiguous"
  PROVE  \E q \in Orders(path) : ByTradesFrom(s, q) = t
<1> DEFINE candle == CandleOf(path)
           stop == TouchesStop(plan, StopOf(s), candle)
           tp1 == TouchesTarget(plan, plan.takeProfit1, candle)
           tp2 == TouchesTarget(plan, plan.takeProfit2, candle)
           entry == TouchesEntry(plan, candle)
           Prs == PricesOf(path)
           B(x) == BeyondStop(plan, StopOf(s), x)
           T1(x) == TargetReached(plan, plan.takeProfit1, x)
           T2(x) == TargetReached(plan, plan.takeProfit2, x)
           Z(x) == x \in plan.entryLower..plan.entryUpper
<1>1. /\ TypedPlan(plan) /\ plan.takeProfit1 \in Int /\ plan.takeProfit2 \in Int
      /\ minute \in Nat /\ path \in Seq(Int)
      /\ Lifetime \in Nat
      /\ Prs \subseteq Int
  BY FollowedPlans, CandleAssumption
     DEF PathInvariant, AgreementTyped, TypedPlan, PricesOf, CandleAssumption
<1>2. /\ s = "active" =>
           t = IF minute >= Lifetime THEN "expired"
                      ELSE IF entry THEN IF stop THEN "ambiguous" ELSE "entered"
                           ELSE IF stop THEN "invalidated" ELSE "active"
      /\ s = "entered" =>
           t = IF stop /\ (tp1 \/ tp2) THEN "ambiguous"
                      ELSE IF stop THEN "stopped"
                      ELSE IF tp2 THEN "tp2_completed"
                      ELSE IF tp1 THEN "tp1_reached" ELSE "entered"
      /\ s = "tp1_reached" =>
           t = IF stop /\ tp2 THEN "ambiguous"
                      ELSE IF stop THEN "stopped_at_breakeven"
                      ELSE IF tp2 THEN "tp2_completed" ELSE "tp1_reached"
      /\ s \notin {"active", "entered", "tp1_reached"} => t = s
  BY DEF Leads
<1>3. /\ stop <=> \E x \in Prs : B(x)
      /\ tp1 <=> \E x \in Prs : T1(x)
      /\ tp2 <=> \E x \in Prs : T2(x)
  BY <1>1, CandleTouches DEF StopOf
<1>4. Prs # {}
  BY CandleRange
<1>5. /\ ~entry => \A x \in Prs : ~Z(x)
      /\ s = "active" /\ entry => \E x \in Prs : Z(x)
  BY EntryTouched DEF GapOverEntry
<1>6. \A x \in Prs : /\ T1(x) \/ T2(x) => ~Z(x)
                     /\ T1(x) => ~BeyondStop(plan, "breakeven", x)
  BY <1>1, ApartPrices
<1>7. /\ s = "active" => StopOf(s) = "initial"
      /\ s = "entered" => StopOf(s) = "initial"
      /\ s = "tp1_reached" => StopOf(s) = "breakeven"
  BY DEF StopOf
<1>8. \A x \in Prs :
        /\ s = "active" =>
             Traded(plan, s, x) = IF minute >= Lifetime THEN "expired"
                                     ELSE IF B(x) THEN "invalidated"
                                     ELSE IF Z(x) THEN "entered" ELSE "active"
        /\ s = "entered" =>
             Traded(plan, s, x) = IF B(x) THEN "stopped"
                                     ELSE IF T2(x) THEN "tp2_completed"
                                     ELSE IF T1(x) THEN "tp1_reached" ELSE "entered"
        /\ s = "tp1_reached" =>
             Traded(plan, s, x) = IF B(x) THEN "stopped_at_breakeven"
                                     ELSE IF T2(x) THEN "tp2_completed" ELSE "tp1_reached"
        /\ s \notin {"active", "entered", "tp1_reached"} => Traded(plan, s, x) = s
  BY <1>1, <1>7, TradeMoves
<1>9. \A x \in Prs :
        /\ ~BeyondStop(plan, "initial", x) /\ ~T1(x) /\ ~T2(x) =>
             Traded(plan, "entered", x) = "entered"
        /\ ~BeyondStop(plan, "breakeven", x) /\ ~T2(x) =>
             Traded(plan, "tp1_reached", x) = "tp1_reached"
  <2>1. "entered" \in Statuses /\ "tp1_reached" \in Statuses
    BY DEF Statuses
  <2>2. QED BY <1>1, <2>1, TradeMoves
<1> HIDE DEF candle, stop, tp1, tp2, entry, Prs, B, T1, T2, Z
<1>10. ASSUME NEW u \in {"expired", "invalidated", "stopped", "tp2_completed",
                         "stopped_at_breakeven"},
              \E x \in Prs : Traded(plan, s, x) = u, t = u
       PROVE  \E q \in Orders(path) : ByTradesFrom(s, q) = t
  <2>1. u \in Statuses \ {"active", "entered", "tp1_reached"}
    BY DEF Statuses
  <2>2. QED BY <1>10, <2>1, DecidedAtOnce DEF Prs
<1>11. ASSUME \A x \in Prs : Traded(plan, s, x) = s, t = s
       PROVE  \E q \in Orders(path) : ByTradesFrom(s, q) = t
  BY <1>11, NothingDecides DEF Prs
<1>12. CASE s = "active"
  <2>1. CASE minute >= Lifetime \/ (~entry /\ stop)
    <3>1. t \in {"expired", "invalidated"}
      BY <1>2, <1>12, <2>1
    <3>2. \E x \in Prs : Traded(plan, s, x) = t
      BY <1>2, <1>3, <1>4, <1>8, <1>12, <2>1
    <3>3. QED BY <1>10, <3>1, <3>2
  <2>2. CASE ~(minute >= Lifetime) /\ ~entry /\ ~stop
    <3>1. t = s /\ \A x \in Prs : Traded(plan, s, x) = s
      BY <1>2, <1>3, <1>5, <1>8, <1>12, <2>2
    <3>2. QED BY <1>11, <3>1
  <2>3. CASE ~(minute >= Lifetime) /\ entry /\ ~stop
    <3> DEFINE P == {x \in Prs : T1(x) \/ T2(x)}
    <3>1. t = "entered"
      BY <1>2, <1>12, <2>3
    <3>2. \A y \in Prs \cap P : Traded(plan, s, y) = s
      BY <1>3, <1>6, <1>8, <1>12, <2>3
    <3>3. \A y \in Prs \ P : Traded(plan, s, y) \in {s, "entered"}
      BY <1>3, <1>8, <1>12, <2>3
    <3>4. \A y \in Prs \ P : Traded(plan, "entered", y) = "entered"
      BY <1>3, <1>7, <1>9, <1>12, <2>3 DEF B
    <3>5. PICK x \in Prs : Z(x)
      BY <1>5, <1>12, <2>3
    <3>6. x \in Prs \ P /\ Traded(plan, s, x) = "entered"
      BY <1>3, <1>6, <1>8, <1>12, <2>3, <3>5
    <3> HIDE DEF P
    <3>7. QED BY <3>1, <3>2, <3>3, <3>4, <3>6, DecidedLater DEF Prs
  <2>4. QED BY <1>2, <1>12, <2>1, <2>2, <2>3
<1>13. CASE s = "entered"
  <2>1. CASE stop \/ tp2
    <3>1. t \in {"stopped", "tp2_completed"}
      BY <1>2, <1>13, <2>1
    <3>2. \E x \in Prs : Traded(plan, s, x) = t
      BY <1>2, <1>3, <1>8, <1>13, <2>1
    <3>3. QED BY <1>10, <3>1, <3>2
  <2>2. CASE ~stop /\ ~tp2 /\ ~tp1
    <3>1. t = s /\ \A x \in Prs : Traded(plan, s, x) = s
      BY <1>2, <1>3, <1>8, <1>13, <2>2
    <3>2. QED BY <1>11, <3>1
  <2>3. CASE ~stop /\ ~tp2 /\ tp1
    <3> DEFINE P == {x \in Prs : ~T1(x)}
    <3>1. t = "tp1_reached"
      BY <1>2, <1>13, <2>3
    <3>2. \A y \in Prs \cap P : Traded(plan, s, y) = s
      BY <1>3, <1>8, <1>13, <2>3
    <3>3. \A y \in Prs \ P : Traded(plan, s, y) = "tp1_reached"
      BY <1>3, <1>8, <1>13, <2>3
    <3>4. \A y \in Prs \ P : Traded(plan, "tp1_reached", y) = "tp1_reached"
      BY <1>3, <1>6, <1>9, <2>3
    <3>5. PICK x \in Prs : T1(x)
      BY <1>3, <2>3
    <3>6. x \in Prs \ P /\ Traded(plan, s, x) = "tp1_reached"
      BY <3>3, <3>5
    <3> HIDE DEF P
    <3>7. QED BY <3>1, <3>2, <3>3, <3>4, <3>6, DecidedLater DEF Prs
  <2>4. QED BY <2>1, <2>2, <2>3
<1>14. CASE s = "tp1_reached"
  <2>1. CASE stop \/ tp2
    <3>1. t \in {"stopped_at_breakeven", "tp2_completed"}
      BY <1>2, <1>14, <2>1
    <3>2. \E x \in Prs : Traded(plan, s, x) = t
      BY <1>2, <1>3, <1>8, <1>14, <2>1
    <3>3. QED BY <1>10, <3>1, <3>2
  <2>2. CASE ~stop /\ ~tp2
    <3>1. t = s /\ \A x \in Prs : Traded(plan, s, x) = s
      BY <1>2, <1>3, <1>8, <1>14, <2>2
    <3>2. QED BY <1>11, <3>1
  <2>3. QED BY <2>1, <2>2
<1>15. CASE s \notin {"active", "entered", "tp1_reached"}
  BY <1>2, <1>8, <1>11, <1>15
<1>16. QED BY <1>12, <1>13, <1>14, <1>15

(* For a plan whose levels lie apart: where every order of the trades      *)
(* leads to the same status the candle leads there too, or declares the    *)
(* minute ambiguous (evaluate_closed_candle against                        *)
(* evaluate_public_trade), for any number of trades.                       *)
THEOREM CandleAgrees == Spec => [](LevelsApart(plan) => AgreesWhenOrderIsIrrelevant)
<1>1. PathInvariant => (LevelsApart(plan) => AgreesWhenOrderIsIrrelevant)
  <2> SUFFICES ASSUME PathInvariant, LevelsApart(plan), path # <<>>,
                      ~(from = "active" /\ GapOverEntry),
                      \A q \in Orders(path) : ByTradesFrom(from, q) = status,
                      ByCandle # "ambiguous"
               PROVE  ByCandle = status
    BY DEF AgreesWhenOrderIsIrrelevant
  <2>1. from \in Statuses /\ Leads(from, ByCandle)
    BY CandleMoves DEF PathInvariant, AgreementTyped
  <2>2. \E q \in Orders(path) : ByTradesFrom(from, q) = ByCandle
    <3> DEFINE t == ByCandle
    <3>1. Leads(from, t) /\ t # "ambiguous"
      BY <2>1
    <3> HIDE DEF t
    <3>2. \E q \in Orders(path) : ByTradesFrom(from, q) = t
      BY <2>1, <3>1, SomeOrderEnds
    <3>3. QED BY <3>2 DEF t
  <2>3. QED BY <2>2
<1>2. QED BY <1>1, PathInvariantHolds, PTL

-----------------------------------------------------------------------------
(* The replay. A minute that moves an active signal has a trade that the   *)
(* candle shows, so the replay waits only as long as the signal is active; *)
(* and whatever it reports, some order of the trades of the minutes leads  *)
(* to it.                                                                  *)
WhyNotActive ==
  from = "active" /\ status # "active" =>
    \/ minute >= Lifetime
    \/ \E x \in PricesOf(path) :
         BeyondStop(plan, "initial", x) \/ x \in plan.entryLower..plan.entryUpper

WaitsTogether == ~jumped /\ replayed = "waiting" => from = "active"

SomeTradesLeadThere ==
  ~jumped /\ replayed \notin {"ambiguous_loss", "ambiguous_flat"} =>
    \E s \in Statuses : s \in possible /\ OutcomeOf(s) = replayed

ReplayInvariant == WhyNotActive /\ WaitsTogether /\ SomeTradesLeadThere

(* An active signal is active after a minute whose candle shows neither.   *)
LEMMA StillActive ==
  ASSUME PathInvariant, WhyNotActive, path # <<>>, from = "active", ~(minute >= Lifetime),
         ~TouchesEntry(plan, CandleOf(path)), ~TouchesStop(plan, "initial", CandleOf(path))
  PROVE  status = "active"
<1>1. \A x \in PricesOf(path) : ~BeyondStop(plan, "initial", x)
  BY CandleTouches
<1>2. \A x \in PricesOf(path) : x \notin plan.entryLower..plan.entryUpper
  BY EntryTouched
<1>3. QED BY <1>1, <1>2 DEF WhyNotActive

(* One candle of the replay, from a status some trades lead to.            *)
LEMMA ReplayFollows ==
  ASSUME PathInvariant, path # <<>>, LevelsApart(plan), NEW s \in Statuses,
         s = "active" => from = "active" /\ ~GapOverEntry /\ ~StopWithoutEntry,
         NEW r, r = ReplayCandle(plan, Lifetime, OutcomeOf(s), CandleOf(path)),
         r \notin {"ambiguous_loss", "ambiguous_flat"}
  PROVE  \E t \in Statuses : /\ OutcomeOf(t) = r
                             /\ \E q \in Orders(path) : ByTradesFrom(s, q) = t
<1> DEFINE candle == CandleOf(path)
           stop == TouchesStop(plan, StopOf(s), candle)
           tp1 == TouchesTarget(plan, plan.takeProfit1, candle)
           tp2 == TouchesTarget(plan, plan.takeProfit2, candle)
           entry == TouchesEntry(plan, candle)
<1>1. candle.open = minute
  BY CandleRange
<1>2. ASSUME NEW t \in Statuses, Leads(s, t), OutcomeOf(t) = r,
             ~(s = "active" /\ GapOverEntry)
      PROVE  \E u \in Statuses : /\ OutcomeOf(u) = r
                                 /\ \E q \in Orders(path) : ByTradesFrom(s, q) = u
  <2>1. t # "ambiguous"
    BY <1>2 DEF Statuses
  <2>2. QED BY <1>2, <2>1, SomeOrderEnds
<1>3. CASE s = "active"
  <2>1. OutcomeOf(s) = "waiting" /\ StopOf(s) = "initial"
    BY <1>3 DEF OutcomeOf, StopOf
  <2>2. r = ReplayWaiting(plan, Lifetime, candle)
    BY <2>1 DEF ReplayCandle
  <2>3. ~entry => ~stop
    BY <1>3, <2>1 DEF StopWithoutEntry
  <2>4. CASE ~(minute >= Lifetime) /\ GappedBeyondStop(plan, candle)
    <3>1. r = "invalidated_before_entry"
      BY <1>1, <2>2, <2>4 DEF ReplayWaiting
    <3>2. path[1] \in PricesOf(path) /\ path[1] \in Int
      BY DEF PathInvariant, AgreementTyped, PricesOf
    <3>3. TypedPlan(plan) /\ minute \in Nat
      BY FollowedPlans DEF PathInvariant, AgreementTyped
    <3>4. BeyondStop(plan, "initial", path[1])
      <4>1. IF plan.direction = "long" THEN path[1] < plan.stopLoss ELSE path[1] > plan.stopLoss
        BY <2>4 DEF GappedBeyondStop, CandleOf
      <4>2. plan.stopLoss \in Int
        BY <3>3 DEF TypedPlan
      <4>3. QED BY <3>2, <4>1, <4>2 DEF BeyondStop, StopPrice
    <3>5. Traded(plan, s, path[1]) = "invalidated"
      BY <1>3, <2>4, <3>2, <3>3, <3>4, TradeMoves
    <3>6. \E q \in Orders(path) : ByTradesFrom(s, q) = "invalidated"
      <4>1. "invalidated" \in Statuses \ {"active", "entered", "tp1_reached"}
        BY DEF Statuses
      <4>2. QED BY <3>2, <3>5, <4>1, DecidedAtOnce
    <3>7. "invalidated" \in Statuses /\ OutcomeOf("invalidated") = r
      BY <3>1 DEF Statuses, OutcomeOf
    <3>8. QED BY <3>6, <3>7
  <2>5. CASE (minute >= Lifetime) \/ ~GappedBeyondStop(plan, candle)
    <3> DEFINE t == IF minute >= Lifetime THEN "expired" ELSE IF entry THEN "entered" ELSE "active"
    <3>1. r = IF minute >= Lifetime THEN "expired"
              ELSE IF ~entry THEN "waiting"
              ELSE IF stop THEN "ambiguous_loss"
              ELSE IF tp1 THEN "ambiguous_flat" ELSE "entered"
      <4> HIDE DEF candle
      <4>1. QED BY <1>1, <2>1, <2>2, <2>5 DEF ReplayWaiting
    <3>2. t \in Statuses /\ OutcomeOf(t) = r
      <4> HIDE DEF entry, stop, tp1
      <4>1. QED BY <3>1 DEF OutcomeOf, Statuses
    <3>3. Leads(s, t)
      <4>1. minute >= Lifetime \/ ~stop
        <5> HIDE DEF entry, stop, tp1
        <5>1. QED BY <2>3, <3>1
      <4>2. QED BY <1>3, <4>1 DEF Leads
    <3> HIDE DEF t
    <3>4. QED BY <1>2, <1>3, <3>2, <3>3
  <2>6. QED BY <2>4, <2>5
<1>4. CASE s = "entered"
  <2> DEFINE t == IF stop THEN "stopped"
                  ELSE IF tp2 THEN "tp2_completed" ELSE IF tp1 THEN "tp1_reached" ELSE "entered"
  <2>1. OutcomeOf(s) = "entered" /\ StopOf(s) = "initial"
    BY <1>4 DEF OutcomeOf, StopOf
  <2>2. r = ReplayEntered(plan, "entered", candle)
    BY <2>1 DEF ReplayCandle
  <2>3. r = IF stop /\ (tp1 \/ tp2) THEN "ambiguous_loss"
            ELSE IF stop THEN "stopped"
            ELSE IF tp2 THEN "tp2"
            ELSE IF tp1 THEN "after_tp1" ELSE "entered"
    BY <2>1, <2>2 DEF ReplayEntered
  <2>4. ~(stop /\ (tp1 \/ tp2))
    <3> HIDE DEF stop, tp1, tp2
    <3>1. QED BY <2>3
  <2>5. t \in Statuses /\ OutcomeOf(t) = r
    <3> HIDE DEF stop, tp1, tp2
    <3>1. QED BY <2>3, <2>4 DEF OutcomeOf, Statuses
  <2>6. Leads(s, t)
    BY <1>4, <2>4 DEF Leads
  <2> HIDE DEF t
  <2>7. QED BY <1>2, <1>4, <2>5, <2>6
<1>5. CASE s = "tp1_reached"
  <2> DEFINE t == IF stop THEN "stopped_at_breakeven"
                  ELSE IF tp2 THEN "tp2_completed" ELSE "tp1_reached"
  <2>1. OutcomeOf(s) = "after_tp1" /\ StopOf(s) = "breakeven"
    BY <1>5 DEF OutcomeOf, StopOf
  <2>2. r = ReplayEntered(plan, "after_tp1", candle)
    BY <2>1 DEF ReplayCandle
  <2>3. r = IF stop /\ tp2 THEN "ambiguous_loss"
            ELSE IF stop THEN "stopped_after_tp1"
            ELSE IF tp2 THEN "tp2" ELSE "after_tp1"
    BY <2>1, <2>2 DEF ReplayEntered
  <2>4. ~(stop /\ tp2)
    <3> HIDE DEF stop, tp2
    <3>1. QED BY <2>3
  <2>5. t \in Statuses /\ OutcomeOf(t) = r
    <3> HIDE DEF stop, tp2
    <3>1. QED BY <2>3, <2>4 DEF OutcomeOf, Statuses
  <2>6. Leads(s, t)
    BY <1>5, <2>4 DEF Leads
  <2> HIDE DEF t
  <2>7. QED BY <1>2, <1>5, <2>5, <2>6
<1>6. CASE s \notin {"active", "entered", "tp1_reached"}
  <2>1. r = OutcomeOf(s)
    BY <1>6 DEF ReplayCandle, OutcomeOf, Statuses
  <2>2. Leads(s, s)
    BY <1>6 DEF Leads
  <2>3. QED BY <1>2, <1>6, <2>1, <2>2
<1>7. QED BY <1>3, <1>4, <1>5, <1>6

LEMMA ReplayInvariantStep ==
  ASSUME PathInvariant, LevelsApart(plan), ReplayInvariant, [Next]_vars
  PROVE  ReplayInvariant'
<1> USE DEF ReplayInvariant
<1>1. /\ TypedPlan(plan) /\ minute \in Nat /\ Lifetime \in Nat /\ from \in Statuses
      /\ status \in Statuses
  BY FollowedPlans, CandleAssumption DEF PathInvariant, AgreementTyped, CandleAssumption
<1>2. ASSUME NEW price \in Prices, Trade(price) PROVE ReplayInvariant'
  <2>1. /\ path' = Append(path, price) /\ status' = Traded(plan, status, price)
        /\ UNCHANGED <<plan, minute, from, replayed, possible, jumped>> /\ price \in Int
    BY <1>1, <1>2, PriceIsInt DEF Trade
  <2>2. PricesOf(path)' = PricesOf(path) \cup {price}
    BY <2>1, PathAfterTrade DEF PathInvariant, AgreementTyped
  <2>3. status = "active" =>
          status' = IF minute >= Lifetime THEN "expired"
                    ELSE IF BeyondStop(plan, "initial", price) THEN "invalidated"
                    ELSE IF price \in plan.entryLower..plan.entryUpper THEN "entered"
                    ELSE "active"
    BY <1>1, <2>1, TradeMoves
  <2>4. WhyNotActive'
    <3> SUFFICES ASSUME from' = "active", status' # "active", ~(minute' >= Lifetime)
                 PROVE  \E x \in PricesOf(path)' :
                          BeyondStop(plan', "initial", x) \/ x \in plan'.entryLower..plan'.entryUpper
      BY DEF WhyNotActive
    <3>1. \E x \in PricesOf(path) \cup {price} :
            BeyondStop(plan, "initial", x) \/ x \in plan.entryLower..plan.entryUpper
      BY <2>1, <2>3 DEF WhyNotActive
    <3>2. QED BY <2>1, <2>2, <3>1
  <2>5. WaitsTogether' /\ SomeTradesLeadThere'
    BY <2>1 DEF WaitsTogether, SomeTradesLeadThere
  <2>6. QED BY <2>4, <2>5
<1>3. CASE CandleCloses
  <2> DEFINE candle == CandleOf(path)
  <2>1. /\ path # <<>> /\ from' = status /\ UNCHANGED <<plan, status>>
        /\ replayed' = ReplayCandle(plan, Lifetime, replayed, candle)
        /\ possible' = {ByTradesFrom(s, q) : s \in possible, q \in Orders(path)}
        /\ jumped' = (jumped \/ (from = "active" /\ (GapOverEntry \/ StopWithoutEntry)))
    BY <1>3 DEF CandleCloses
  <2>2. WhyNotActive'
    BY <2>1 DEF WhyNotActive
  <2>3. WaitsTogether'
    <3> SUFFICES ASSUME ~jumped', replayed' = "waiting" PROVE status = "active"
      BY <2>1 DEF WaitsTogether
    <3>1. replayed = "waiting"
      BY <2>1 DEF ReplayCandle, ReplayEntered
    <3>2. from = "active" /\ ~StopWithoutEntry
      BY <2>1, <3>1 DEF WaitsTogether
    <3>3. ReplayWaiting(plan, Lifetime, candle) = "waiting"
      BY <2>1, <3>1 DEF ReplayCandle
    <3>4. ~(candle.open >= Lifetime) /\ ~TouchesEntry(plan, candle)
      <4> HIDE DEF candle
      <4>1. QED BY <3>3 DEF ReplayWaiting
    <3>5. ~(minute >= Lifetime)
      BY <2>1, <3>4, CandleRange
    <3>6. ~TouchesStop(plan, "initial", candle)
      BY <3>2, <3>4 DEF StopWithoutEntry
    <3>7. QED BY <2>1, <3>2, <3>4, <3>5, <3>6, StillActive
  <2>4. SomeTradesLeadThere'
    <3> SUFFICES ASSUME ~jumped', replayed' \notin {"ambiguous_loss", "ambiguous_flat"}
                 PROVE  \E t \in Statuses : t \in possible' /\ OutcomeOf(t) = replayed'
      BY DEF SomeTradesLeadThere, OutcomeOf
    <3>1. ~jumped /\ replayed \notin {"ambiguous_loss", "ambiguous_flat"}
      BY <2>1 DEF ReplayCandle
    <3>2. PICK s \in Statuses : s \in possible /\ OutcomeOf(s) = replayed
      BY <3>1 DEF SomeTradesLeadThere
    <3>3. s = "active" => from = "active" /\ ~GapOverEntry /\ ~StopWithoutEntry
      <4>1. s = "active" => replayed = "waiting"
        BY <3>2 DEF OutcomeOf
      <4>2. QED BY <2>1, <3>1, <4>1 DEF WaitsTogether
    <3>4. replayed' = ReplayCandle(plan, Lifetime, OutcomeOf(s), CandleOf(path))
      BY <2>1, <3>2
    <3> HIDE DEF candle
    <3>5. PICK t \in Statuses : /\ OutcomeOf(t) = replayed'
                                /\ \E q \in Orders(path) : ByTradesFrom(s, q) = t
      BY <2>1, <3>3, <3>4, ReplayFollows
    <3>6. t \in possible'
      BY <2>1, <3>2, <3>5
    <3>7. QED BY <3>5, <3>6
  <2>5. QED BY <2>2, <2>3, <2>4
<1>4. CASE UNCHANGED vars
  <2>1. UNCHANGED <<plan, minute, from, path, status, replayed, possible, jumped>>
    BY <1>4 DEF vars
  <2>2. QED BY <2>1 DEF WhyNotActive, WaitsTogether, SomeTradesLeadThere, PricesOf, BeyondStop,
                        StopPrice
<1>5. QED BY <1>2, <1>3, <1>4 DEF Next

(* For a plan whose levels lie apart: what the replay reports could have   *)
(* happened, over any number of minutes and trades, unless the entry was   *)
(* jumped over (resolve_candidate against evaluate_public_trade).          *)
THEOREM ReplayReportsThePossible == Spec => [](LevelsApart(plan) => ReplayIsPossible)
<1> DEFINE Inv == LevelsApart(plan) => ReplayInvariant
<1>1. Init => Inv
  BY DEF Init, ReplayInvariant, WhyNotActive, WaitsTogether, SomeTradesLeadThere, Statuses,
         OutcomeOf
<1>2. PathInvariant /\ Inv /\ [Next]_vars => Inv'
  <2> SUFFICES ASSUME PathInvariant, Inv, [Next]_vars, LevelsApart(plan)'
               PROVE  ReplayInvariant'
    OBVIOUS
  <2>1. plan' = plan
    BY DEF Next, Trade, CandleCloses, vars
  <2>2. LevelsApart(plan)
    BY <2>1
  <2>3. QED BY <2>2, ReplayInvariantStep
<1>3. Inv => (LevelsApart(plan) => ReplayIsPossible)
  BY DEF ReplayInvariant, SomeTradesLeadThere, ReplayIsPossible
<1> HIDE DEF Inv
<1>4. Spec => []Inv
  BY <1>1, <1>2, PathInvariantHolds, PTL DEF Spec
<1>5. QED BY <1>3, <1>4, PTL

HIDE PlanAssumption

-----------------------------------------------------------------------------
(* A zone that is open or partially filled has not come to its end.        *)
IsOpen(z) == z.status \in {"open", "partially_filled"}

LEMMA OpenHasNoEnd ==
  ASSUME NEW e, Positive(e), NEW t, NEW last \in {"filled", "invalidated"},
         NEW direction, NEW source, NEW created, NEW lower, NEW upper,
         IsOpen(Zone(direction, source, created, lower, upper, t, e, last))
  PROVE  e = {}
<1> SUFFICES ASSUME e # {} PROVE FALSE
  OBVIOUS
<1>1. FirstOf(e) \in e
  BY FirstOfFacts
<1>2. FirstOf(e) # 0
  BY <1>1 DEF Positive
<1>3. Zone(direction, source, created, lower, upper, t, e, last).status = last
  BY <1>2 DEF Zone
<1>4. QED BY <1>3 DEF IsOpen

ZoneFields(z, direction, source, created, lower, upper) ==
  /\ z.direction = direction /\ z.source = source /\ z.created = created
  /\ z.lower = lower /\ z.upper = upper

(* No candle after the one that created a zone has closed on its far side. *)
NeverLeft(z, i, cs) ==
  IF z.direction = "bullish" THEN cs[i].close >= z.lower ELSE cs[i].close <= z.upper

LEMMA GapHolds ==
  ASSUME NEW cs \in Seq(Candles), NEW z \in Analyze(cs).gaps, IsOpen(z)
  PROVE  /\ z.direction \in {"bullish", "bearish"} /\ z.lower \in Int /\ z.upper \in Int
         /\ z.created \in 1..Len(cs)
         /\ z = IF z.direction = "bullish" THEN BullishGapAt(cs, z.created)
                                           ELSE BearishGapAt(cs, z.created)
         /\ \A i \in z.created..Len(cs) : NeverLeft(z, i, cs)
<1>1. PICK j \in 3..Len(cs) : \/ BullishGap(cs, j) /\ z = BullishGapAt(cs, j)
                              \/ BearishGap(cs, j) /\ z = BearishGapAt(cs, j)
  BY GapIff, Analysis
<1>2. /\ Len(cs) \in Nat /\ j \in 1..Len(cs) /\ j - 2 \in 1..Len(cs)
      /\ cs[j].low \in Int /\ cs[j].high \in Int /\ cs[j].close \in Int
      /\ cs[j].low <= cs[j].close /\ cs[j].close <= cs[j].high
      /\ cs[j - 2].low \in Int /\ cs[j - 2].high \in Int
  BY CandleAt
<1>3. CASE BullishGap(cs, j) /\ z = BullishGapAt(cs, j)
  <2> DEFINE lower == cs[j - 2].high
             upper == cs[j].low
             t == {k \in Later(cs, j) : cs[k].low < upper}
             e == {k \in Later(cs, j) : cs[k].low <= lower}
  <2>1. z = Zone("bullish", j - 2, j, lower, upper, t, e, "filled")
    BY <1>3 DEF BullishGapAt, ResolveGap
  <2>2. Positive(e)
    BY <1>2 DEF Later, Positive
  <2> HIDE DEF e, t
  <2>3. e = {}
    BY <2>1, <2>2, OpenHasNoEnd
  <2>4. ZoneFields(z, "bullish", j - 2, j, lower, upper)
    BY <2>1 DEF Zone, ZoneFields
  <2>5. lower < upper
    BY <1>2, <1>3 DEF BullishGap
  <2>6. ASSUME NEW i \in (j + 1)..Len(cs) PROVE cs[i].close >= lower
    <3>1. ~(cs[i].low <= lower)
      BY <2>3 DEF e, Later
    <3>2. i \in 1..Len(cs)
      BY <1>2
    <3>3. QED BY <1>2, <3>1, <3>2, CandleAt
  <2>7. \A i \in j..Len(cs) : i = j \/ i \in (j + 1)..Len(cs)
    BY <1>2
  <2>8. cs[j].close >= lower
    BY <1>2, <2>5
  <2>9. \A i \in j..Len(cs) : cs[i].close >= lower
    BY <2>6, <2>7, <2>8
  <2>10. QED BY <1>2, <1>3, <2>4, <2>9 DEF ZoneFields, NeverLeft
<1>4. CASE BearishGap(cs, j) /\ z = BearishGapAt(cs, j)
  <2> DEFINE lower == cs[j].high
             upper == cs[j - 2].low
             t == {k \in Later(cs, j) : cs[k].high > lower}
             e == {k \in Later(cs, j) : cs[k].high >= upper}
  <2>1. z = Zone("bearish", j - 2, j, lower, upper, t, e, "filled")
    BY <1>4 DEF BearishGapAt, ResolveGap
  <2>2. Positive(e)
    BY <1>2 DEF Later, Positive
  <2> HIDE DEF e, t
  <2>3. e = {}
    BY <2>1, <2>2, OpenHasNoEnd
  <2>4. ZoneFields(z, "bearish", j - 2, j, lower, upper)
    BY <2>1 DEF Zone, ZoneFields
  <2>5. lower < upper
    BY <1>2, <1>4 DEF BearishGap
  <2>6. ASSUME NEW i \in (j + 1)..Len(cs) PROVE cs[i].close <= upper
    <3>1. ~(cs[i].high >= upper)
      BY <2>3 DEF e, Later
    <3>2. i \in 1..Len(cs)
      BY <1>2
    <3>3. QED BY <1>2, <3>1, <3>2, CandleAt
  <2>7. \A i \in j..Len(cs) : i = j \/ i \in (j + 1)..Len(cs)
    BY <1>2
  <2>8. cs[j].close <= upper
    BY <1>2, <2>5
  <2>9. \A i \in j..Len(cs) : cs[i].close <= upper
    BY <2>6, <2>7, <2>8
  <2>10. QED BY <1>2, <1>4, <2>4, <2>9 DEF ZoneFields, NeverLeft
<1>5. QED BY <1>1, <1>3, <1>4

(* From the source of a block to its break no candle goes the other way,   *)
(* so the closes only rise (fall) when no candle opens short of the close  *)
(* before.                                                                 *)
LEMMA SourceIsLastOpposite ==
  ASSUME NEW cs \in Seq(Candles), NEW b, b.index \in 1..Len(cs), Sources(cs, b) # {},
         NEW j \in (SourceOf(cs, b) + 1)..(b.index - 1)
  PROVE  Direction(cs[j]) # Opposite(b.direction)
<1>1. /\ SourceOf(cs, b) \in Sources(cs, b)
      /\ \A k \in Sources(cs, b) : k <= SourceOf(cs, b)
      /\ SourceOf(cs, b) \in 1..Len(cs) /\ SourceOf(cs, b) < b.index
  BY SourceFacts
<1> DEFINE a == SourceOf(cs, b)
<1> HIDE DEF a
<1>2. a \in (b.index - SearchLookback)..(b.index - 1) /\ a \in 1..Len(cs)
  BY <1>1 DEF Sources, a
<1>3. j \in Int /\ a + 1 <= j /\ j <= b.index - 1
  BY <1>2 DEF a
<1>4. SearchLookback \in Nat /\ b.index \in 1..Len(cs) /\ DOMAIN cs = 1..Len(cs) /\ Len(cs) \in Nat
  BY Periods
<1>5. j \in (b.index - SearchLookback)..(b.index - 1) /\ j \in DOMAIN cs
  BY <1>2, <1>3, <1>4
<1>6. ~(j <= a)
  BY <1>2, <1>3
<1>7. j \notin Sources(cs, b)
  BY <1>1, <1>6 DEF a
<1>8. QED BY <1>5, <1>7 DEF Sources

LEMMA BlockHolds ==
  ASSUME NEW cs \in Seq(Candles), NEW z \in Analyze(cs).blocks, IsOpen(z)
  PROVE  /\ z.direction \in {"bullish", "bearish"} /\ z.lower \in Int /\ z.upper \in Int
         /\ z.created \in 1..Len(cs)
         /\ \E b : MakesBlock(cs, b) /\ z = BlockOf(cs, b) /\ b.index = z.created
         /\ \A i \in (z.created + 1)..Len(cs) : NeverLeft(z, i, cs)
         /\ OpensOn(IF z.direction = "bullish" THEN "long" ELSE "short", z, cs)
              => NeverLeft(z, z.created, cs)
<1>1. PICK b : MakesBlock(cs, b) /\ z = BlockOf(cs, b)
  BY BlockIff, Analysis
<1>2. b \in DetectStructureBreaks(cs, DetectSwings(cs)) /\ Sources(cs, b) # {}
      /\ [direction |-> b.direction, index |-> b.index] \in DetectDisplacements(cs, AverageTrueRange(cs))
  BY <1>1 DEF MakesBlock, Displacing
<1>3. PICK j \in 1..Len(cs) : /\ Displaces(cs, j)
                              /\ [direction |-> b.direction, index |-> b.index] = DisplacementAt(cs, j)
  BY <1>2, DisplacementIff
<1>4. b.index \in 1..Len(cs) /\ b.direction = Direction(cs[b.index])
      /\ b.direction \in {"bullish", "bearish"}
  <2>1. b.direction = Direction(cs[j]) /\ b.index = j
    BY <1>3 DEF DisplacementAt
  <2>2. Direction(cs[j]) # "none"
    BY <1>3 DEF Displaces
  <2>3. QED BY <2>1, <2>2 DEF Direction
<1> DEFINE a == SourceOf(cs, b)
           m == b.index
           c == cs[a]
           e == {k \in Later(cs, m) : IF b.direction = "bullish" THEN cs[k].close < c.low
                                                                ELSE cs[k].close > c.high}
           t == {k \in Later(cs, m) \ e : IF b.direction = "bullish" THEN cs[k].low <= c.high
                                                                    ELSE cs[k].high >= c.low}
<1>5. a \in 1..Len(cs) /\ a < m /\ m \in 1..Len(cs) /\ Len(cs) \in Nat
  BY <1>2, <1>4, SourceFacts
<1>6. \A i \in (a + 1)..(m - 1) : Direction(cs[i]) # Opposite(b.direction)
  BY <1>2, <1>4, SourceIsLastOpposite
<1>7. z = Zone(b.direction, a, m, c.low, c.high, t, e, "invalidated")
  BY <1>1 DEF BlockOf, ResolveOrderBlock
<1>8. Positive(e)
  BY <1>5 DEF Later, Positive
<1> HIDE DEF e, t, a, m
<1>9. e = {}
  BY <1>7, <1>8, OpenHasNoEnd
<1>10. ZoneFields(z, b.direction, a, m, c.low, c.high)
  BY <1>7 DEF Zone, ZoneFields
<1>11. c.low \in Int /\ c.high \in Int /\ c.close \in Int /\ c.low <= c.close /\ c.close <= c.high
  BY <1>5, CandleAt
<1>12. ASSUME NEW i \in (m + 1)..Len(cs) PROVE NeverLeft(z, i, cs)
  <2>1. i \in Later(cs, m) /\ i \in 1..Len(cs)
    BY <1>5 DEF Later
  <2>2. cs[i].close \in Int
    BY <2>1, CandleAt
  <2>3. IF b.direction = "bullish" THEN ~(cs[i].close < c.low) ELSE ~(cs[i].close > c.high)
    BY <1>9, <2>1 DEF e
  <2>4. QED BY <1>10, <1>11, <2>2, <2>3 DEF ZoneFields, NeverLeft
<1>13. ASSUME OpensOn(IF z.direction = "bullish" THEN "long" ELSE "short", z, cs)
       PROVE  NeverLeft(z, m, cs)
  <2> DEFINE Rising == {i \in 1..Len(cs) : IF b.direction = "bullish" THEN cs[i].close >= c.close
                                                                     ELSE cs[i].close <= c.close}
  <2>1. \A i \in (a + 1)..m : IF b.direction = "bullish" THEN cs[i].open >= cs[i - 1].close
                                                        ELSE cs[i].open <= cs[i - 1].close
    BY <1>4, <1>10, <1>13 DEF OpensOn, ZoneFields
  <2>2. ASSUME NEW i \in a..m, i = a \/ i - 1 \in Rising PROVE i \in Rising
    <3>1. i \in 1..Len(cs)
      BY <1>5
    <3>2. cs[i].open \in Int /\ cs[i].close \in Int
      BY <3>1, CandleAt
    <3>3. CASE i = a
      BY <1>11, <3>1, <3>3
    <3>4. CASE i # a
      <4>1. i \in (a + 1)..m /\ i - 1 \in Rising /\ i - 1 \in 1..Len(cs)
        BY <1>5, <2>2, <3>4
      <4>2. cs[i - 1].close \in Int
        BY <4>1, CandleAt
      <4>3. Direction(cs[i]) # Opposite(b.direction)
        <5>1. CASE i = m
          BY <1>4, <5>1 DEF Opposite, m
        <5>2. CASE i # m
          BY <1>5, <1>6, <4>1, <5>2
        <5>3. QED BY <5>1, <5>2
      <4>4. CASE b.direction = "bullish"
        <5>1. cs[i].close >= cs[i].open
          BY <3>2, <4>3, <4>4 DEF Direction, Opposite
        <5>2. cs[i].open >= cs[i - 1].close /\ cs[i - 1].close >= c.close
          BY <2>1, <4>1, <4>4
        <5>3. cs[i].close >= c.close
          BY <1>11, <3>2, <4>2, <5>1, <5>2
        <5>4. QED BY <3>1, <4>4, <5>3
      <4>5. CASE b.direction = "bearish"
        <5>1. cs[i].close <= cs[i].open
          BY <3>2, <4>3, <4>5 DEF Direction, Opposite
        <5>2. cs[i].open <= cs[i - 1].close /\ cs[i - 1].close <= c.close
          BY <2>1, <4>1, <4>5
        <5>3. cs[i].close <= c.close
          BY <1>11, <3>2, <4>2, <5>1, <5>2
        <5>4. QED BY <3>1, <4>5, <5>3
      <4>6. QED BY <1>4, <4>4, <4>5
    <3>5. QED BY <3>3, <3>4
  <2> HIDE DEF Rising
  <2>3. a \in Nat /\ m \in Nat /\ m \in a..m
    BY <1>5
  <2>4. \A i \in a..m : i \in Rising
    BY <2>2, <2>3, RoundByRound
  <2>5. m \in Rising /\ cs[m].close \in Int
    BY <1>5, <2>3, <2>4, CandleAt
  <2>6. QED BY <1>4, <1>10, <1>11, <2>5 DEF Rising, ZoneFields, NeverLeft
<1>14. z.created = m /\ z.direction = b.direction /\ z.lower = c.low /\ z.upper = c.high
  BY <1>10 DEF ZoneFields
<1>15. \E d : MakesBlock(cs, d) /\ z = BlockOf(cs, d) /\ d.index = z.created
  BY <1>1, <1>14 DEF m
<1>16. QED BY <1>4, <1>5, <1>11, <1>12, <1>13, <1>14, <1>15

-----------------------------------------------------------------------------
(* The entry zone is one zone, and the latest ATR one average.             *)
LEMMA EntryZoneFacts ==
  ASSUME NEW cs \in Seq(Candles), NEW d \in TradeDirections
  PROVE  /\ \A z \in EntryZone(d, Analyze(cs)) :
              /\ z.direction = SmcDirection(d) /\ IsOpen(z)
              /\ z \in Analyze(cs).gaps \/ z \in Analyze(cs).blocks
         /\ \A y, z \in EntryZone(d, Analyze(cs)) : y = z
<1> DEFINE G == Analyze(cs).gaps
           B == Analyze(cs).blocks
           E == EntryZone(d, Analyze(cs))
           Open(zones) == {z \in zones : z.direction = SmcDirection(d) /\ IsOpen(z)}
           NewestOf(zones) == {z \in zones : \A y \in Open(G \cup B) : y.created <= z.created}
<1> HIDE DEF G, B
<1>1. E = NewestOf(Open(G)) \/ E = NewestOf(Open(B))
  BY DEF EntryZone, IsOpen, G, B
<1>2. \A z \in E : z.direction = SmcDirection(d) /\ IsOpen(z) /\ (z \in G \/ z \in B)
  BY <1>1
<1>3. ASSUME NEW y \in E, NEW z \in E
      PROVE  /\ y.created <= z.created /\ z.created <= y.created /\ y.direction = z.direction
             /\ IsOpen(y) /\ IsOpen(z)
             /\ \/ y \in G /\ z \in G
                \/ y \in B /\ z \in B
  BY <1>1
<1>4. ASSUME NEW y \in G, NEW z \in G, IsOpen(y), IsOpen(z), y.direction = z.direction,
             y.created <= z.created, z.created <= y.created
      PROVE  y = z
  <2>1. y.created \in 1..Len(cs) /\ z.created \in 1..Len(cs)
    BY <1>4, GapHolds DEF G
  <2>2. y.created = z.created
    BY <1>4, <2>1
  <2>3. /\ y = IF y.direction = "bullish" THEN BullishGapAt(cs, y.created) ELSE BearishGapAt(cs, y.created)
        /\ z = IF z.direction = "bullish" THEN BullishGapAt(cs, z.created) ELSE BearishGapAt(cs, z.created)
    BY <1>4, GapHolds DEF G
  <2>4. QED BY <1>4, <2>2, <2>3
<1>5. ASSUME NEW y \in B, NEW z \in B, IsOpen(y), IsOpen(z),
             y.created <= z.created, z.created <= y.created
      PROVE  y = z
  <2>1. y.created \in 1..Len(cs) /\ z.created \in 1..Len(cs)
    BY <1>5, BlockHolds DEF B
  <2>2. y.created = z.created
    BY <1>5, <2>1
  <2>3. PICK b : MakesBlock(cs, b) /\ y = BlockOf(cs, b) /\ b.index = y.created
    BY <1>5, BlockHolds DEF B
  <2>4. PICK e : MakesBlock(cs, e) /\ z = BlockOf(cs, e) /\ e.index = z.created
    BY <1>5, BlockHolds DEF B
  <2> DEFINE F == FirstClosings(cs)
  <2>5. b \in {BreakOf(p, F) : p \in F} /\ e \in {BreakOf(p, F) : p \in F}
    BY <2>3, <2>4, BreaksOf DEF MakesBlock, Displacing
  <2>6. PICK p \in F, q \in F : b = BreakOf(p, F) /\ e = BreakOf(q, F)
    BY <2>5
  <2>7. p[1] = q[1]
    BY <2>2, <2>3, <2>4, <2>6 DEF BreakOf, Break
  <2>8. p = q
    BY <2>7, HitFacts DEF ApartHits
  <2>9. QED BY <2>3, <2>4, <2>6, <2>8
<1> HIDE DEF E
<1>6. \A y, z \in E : y = z
  BY <1>3, <1>4, <1>5
<1>7. QED BY <1>2, <1>6 DEF E, G, B

LEMMA LatestAtrFacts ==
  ASSUME NEW cs \in Seq(Candles)
  PROVE  /\ \A atr \in LatestAtr(Analyze(cs)) : atr.num \in Int /\ atr.den \in Nat /\ atr.den > 0
         /\ \A a, b \in LatestAtr(Analyze(cs)) : a = b
<1> DEFINE f == AverageTrueRange(cs)
           K == AtrPeriod..Len(cs)
<1>1. f \in [K -> Averages] /\ Analyze(cs).atr = f
  BY AtrRule, Analysis
<1>2. AtrPeriod \in Nat /\ Len(cs) \in Nat
  BY Periods
<1> HIDE DEF f
<1>3. LatestAtr(Analyze(cs)) = {f[i] : i \in {j \in K : \A k \in K : k <= j}}
  BY <1>1 DEF LatestAtr
<1>4. \A i, j \in K : i <= j /\ j <= i => i = j
  BY <1>2
<1>5. \A atr \in Averages : atr.num \in Int /\ atr.den \in Nat /\ atr.den > 0
  BY DEF Averages
<1>6. QED BY <1>1, <1>3, <1>4, <1>5

(* What an accepted candidate is made of.                                  *)
MadeOf(a, d, z, atr, target) ==
  LET s == SetupOf(d, z, atr, target)
  IN  Refusal(s) = "none" /\ a.direction = d /\ a.plan = Plan(s)

LEMMA CandidateIsMade ==
  ASSUME NEW analysis, NEW x, NEW a \in Candidates(analysis, x)
  PROVE  \E d \in TradeDirections : \E z \in EntryZone(d, analysis) :
           \E atr \in LatestAtr(analysis) : \E target \in LiquidityTarget(d, analysis, x, z) :
             MadeOf(a, d, z, atr, target)
<1>1. PICK d \in TradeDirections :
        a \in {[direction |-> d, score |-> Score(d, analysis, x), plan |-> made] :
                 made \in AcceptedPlans(SetupsOf(d, analysis, x))}
  BY DEF Candidates
<1>2. PICK made \in AcceptedPlans(SetupsOf(d, analysis, x)) :
        a = [direction |-> d, score |-> Score(d, analysis, x), plan |-> made]
  BY <1>1
<1>3. PICK s \in SetupsOf(d, analysis, x) : Refusal(s) = "none" /\ made = Plan(s)
  BY <1>2 DEF AcceptedPlans
<1>4. PICK z \in EntryZone(d, analysis) :
        s \in {SetupOf(d, z, atr, target) :
                 atr \in LatestAtr(analysis), target \in LiquidityTarget(d, analysis, x, z)}
  BY <1>3 DEF SetupsOf
<1>5. PICK atr \in LatestAtr(analysis), target \in LiquidityTarget(d, analysis, x, z) :
        s = SetupOf(d, z, atr, target)
  BY <1>4
<1>6. a.direction = d /\ a.plan = made
  BY <1>2
<1>7. QED BY <1>3, <1>5, <1>6 DEF MadeOf

LEMMA TargetIsPrice ==
  ASSUME NEW cs \in Seq(Candles), NEW x \in Contexts, NEW d, NEW z
  PROVE  LiquidityTarget(d, Analyze(cs), x, z) \subseteq Int
<1>1. x.highs \subseteq Int /\ x.lows \subseteq Int
  BY EvaluationAssumption
<1>2. \A s \in Analyze(cs).swings : s.price \in Int
  BY Analysis, DetectedApart DEF ApartSwings
<1>3. SwingPrices(d, Analyze(cs), x) \subseteq Int
  BY <1>1, <1>2 DEF SwingPrices
<1>4. QED BY <1>3 DEF LiquidityTarget

LEMMA ScaledUp ==
  ASSUME NEW p \in Int, NEW q \in Int, NEW u \in Nat, p >= q
  PROVE  p * u >= q * u
  OBVIOUS

(* The stop lies on the far side of the zone.                              *)
LEMMA StopBeyondZone ==
  ASSUME NEW d \in TradeDirections, NEW z, z.lower \in Int, z.upper \in Int,
         NEW atr, atr.num \in Int, atr.den \in Nat, atr.den > 0,
         NEW target \in Int, NEW a, MadeOf(a, d, z, atr, target)
  PROVE  /\ a.direction = d /\ Unit(atr) \in Nat /\ a.plan.stopLoss \in Int
         /\ d = "long" => a.plan.stopLoss <= z.lower * Unit(atr)
         /\ d = "short" => a.plan.stopLoss >= z.upper * Unit(atr)
<1> DEFINE s == SetupOf(d, z, atr, target)
           u == Unit(atr)
<1>1. u \in Nat
  BY DEF Unit
<1>2. z.lower * u \in Int /\ z.upper * u \in Int /\ target * u \in Int /\ atr.num * 200 \in Int
  BY <1>1
<1>3. s \in TypedSetups
  <2> HIDE DEF u
  <2>1. s = [direction |-> d, entryLower |-> z.lower * u, entryUpper |-> z.upper * u,
             atr |-> atr.num * 200, target |-> target * u, step |-> 1, minimumNotional |-> 0]
    BY DEF SetupOf, u
  <2>2. d \in {"long", "short"} /\ 1 \in Nat \ {0} /\ 0 \in Nat
    BY DEF TradeDirections
  <2>3. QED BY <1>2, <2>1, <2>2 DEF TypedSetups
<1>4. s.direction = d /\ s.entryLower = z.lower * u /\ s.entryUpper = z.upper * u
  BY DEF SetupOf
<1>5. Refusal(s) = "none" /\ a.direction = d /\ a.plan.stopLoss = StopLoss(s)
  BY DEF MadeOf, Plan
<1> HIDE DEF s, u
<1>6. StopLoss(s) \in Int
  BY <1>3, Levels
<1>7. /\ s.direction = "long" => StopLoss(s) <= s.entryLower
      /\ s.direction = "short" => StopLoss(s) >= s.entryUpper
  BY <1>3, <1>5, PlanOrdersLevels
<1>8. QED BY <1>1, <1>4, <1>5, <1>6, <1>7 DEF u

(* The candidates are those of the newest analysis in some context.        *)
EvaluationInvariant ==
  /\ StructureInvariant
  /\ accepted = {} \/ \E x \in Contexts : accepted = Candidates(recent, x)

LEMMA EvaluationInvariantHolds == EvaluationSpec => []EvaluationInvariant
<1>1. EvaluationInit => accepted = {}
  BY DEF EvaluationInit
<1> DEFINE Made == accepted = {} \/ \E x \in Contexts : accepted = Candidates(recent, x)
<1>2. Made /\ [EvaluationNext]_evaluationVars => Made'
  <2> SUFFICES ASSUME Made, [EvaluationNext]_evaluationVars PROVE Made'
    OBVIOUS
  <2>1. CASE \E c \in Shapes : CandleAdded(c) /\ accepted' = {}
    BY <2>1
  <2>2. ASSUME NEW x \in Contexts, AnalyzeOnce(x) PROVE Made'
    <3>1. accepted' = Candidates(recent, x) /\ recent' = recent
      BY <2>2 DEF AnalyzeOnce, structureVars
    <3>2. accepted' = Candidates(recent', x)
      BY <3>1
    <3>3. QED BY <3>2
  <2>3. CASE UNCHANGED evaluationVars
    BY <2>3 DEF evaluationVars, structureVars
  <2>4. QED BY <2>1, <2>2, <2>3 DEF EvaluationNext
<1>3. QED BY <1>1, <1>2, StructureInvariantHolds, PTL DEF EvaluationSpec, EvaluationInvariant

(* A candidate that is accepted has not been invalidated: no candle since  *)
(* the one that created its zone closed beyond the stop of its plan, nor   *)
(* did that one where no opening gap put the zone out of its reach, for    *)
(* every market, every plan parameter and the zones of every analysis      *)
(* (_latest_entry_zone, build_trade_plan).                                 *)
THEOREM AcceptedIsStillValid == EvaluationSpec => []NotYetInvalidated
<1>1. EvaluationInvariant => NotYetInvalidated
  <2> DEFINE w == Loaded(closed)
  <2> SUFFICES ASSUME EvaluationInvariant, NEW a \in accepted,
                      NEW z \in EntryZone(a.direction, recent), NEW atr \in LatestAtr(recent),
                      NEW i \in z.created..Len(w),
                      i > z.created \/ z \in recent.gaps \/ OpensOn(a.direction, z, w)
               PROVE  ~ClosesBeyondStop(a, w[i].close * Unit(atr))
    BY DEF NotYetInvalidated
  <2>1. closed \in Seq(Candles) /\ closed # <<>> /\ recent = Analyze(w)
    BY ShapesAreCandles DEF EvaluationInvariant, StructureInvariant
  <2>2. w \in Seq(Candles)
    BY <2>1, LoadedFacts DEF Window
  <2>3. PICK x \in Contexts : a \in Candidates(recent, x)
    BY DEF EvaluationInvariant
  <2>4. PICK d \in TradeDirections : \E y \in EntryZone(d, recent) : \E r \in LatestAtr(recent) :
          \E target \in LiquidityTarget(d, recent, x, y) : MadeOf(a, d, y, r, target)
    BY <2>3, CandidateIsMade
  <2>5. PICK y \in EntryZone(d, recent) : \E r \in LatestAtr(recent) :
          \E target \in LiquidityTarget(d, recent, x, y) : MadeOf(a, d, y, r, target)
    BY <2>4
  <2>6. PICK r \in LatestAtr(recent), target \in LiquidityTarget(d, recent, x, y) :
          MadeOf(a, d, y, r, target)
    BY <2>5
  <2> HIDE DEF w
  <2>7. a.direction = d
    BY <2>6 DEF MadeOf
  <2>8. y = z /\ r = atr
    BY <2>1, <2>2, <2>7, EntryZoneFacts, LatestAtrFacts
  <2>9. target \in Int
    BY <2>1, <2>2, TargetIsPrice
  <2>10. z.direction = SmcDirection(d) /\ IsOpen(z) /\ (z \in recent.gaps \/ z \in recent.blocks)
    BY <2>1, <2>2, <2>7, EntryZoneFacts
  <2>11. /\ z.direction \in {"bullish", "bearish"} /\ z.lower \in Int /\ z.upper \in Int
         /\ z.created \in 1..Len(w)
    BY <2>1, <2>2, <2>10, GapHolds, BlockHolds
  <2>12. (IF z.direction = "bullish" THEN "long" ELSE "short") = d
    BY <2>10 DEF SmcDirection, TradeDirections
  <2>13. NeverLeft(z, i, w)
    <3>1. CASE z \in recent.gaps
      BY <2>1, <2>2, <2>10, <3>1, GapHolds
    <3>2. CASE z \in recent.blocks /\ i > z.created
      <4>1. i \in (z.created + 1)..Len(w)
        BY <2>11, <3>2
      <4>2. QED BY <2>1, <2>2, <2>10, <3>2, <4>1, BlockHolds
    <3>3. CASE z \in recent.blocks /\ ~(i > z.created) /\ OpensOn(a.direction, z, w)
      <4>1. i = z.created
        BY <2>11, <3>3
      <4>2. QED BY <2>1, <2>2, <2>7, <2>10, <2>12, <3>3, <4>1, BlockHolds
    <3>4. QED BY <2>10, <3>1, <3>2, <3>3
  <2>14. w[i].close \in Int
    <3>1. i \in 1..Len(w)
      BY <2>11
    <3>2. QED BY <2>2, <3>1, CandleAt
  <2>15. atr.num \in Int /\ atr.den \in Nat /\ atr.den > 0
    BY <2>1, <2>2, LatestAtrFacts
  <2>16. /\ Unit(atr) \in Nat /\ a.plan.stopLoss \in Int
         /\ d = "long" => a.plan.stopLoss <= z.lower * Unit(atr)
         /\ d = "short" => a.plan.stopLoss >= z.upper * Unit(atr)
    BY <2>6, <2>8, <2>9, <2>11, <2>15, StopBeyondZone
  <2> DEFINE u == Unit(atr)
             close == w[i].close
  <2>17. CASE d = "long"
    <3>1. close >= z.lower
      BY <2>10, <2>13, <2>17 DEF NeverLeft, SmcDirection
    <3>2. close * u >= z.lower * u
      BY <2>11, <2>14, <2>16, <3>1, ScaledUp
    <3>3. close * u \in Int /\ z.lower * u \in Int
      BY <2>11, <2>14, <2>16
    <3> HIDE DEF u, close
    <3>4. ~(close * u < a.plan.stopLoss)
      BY <2>16, <2>17, <3>2, <3>3 DEF u
    <3>5. QED BY <2>7, <2>17, <3>4 DEF ClosesBeyondStop, u, close
  <2>18. CASE d = "short"
    <3>1. close <= z.upper
      BY <2>10, <2>13, <2>18 DEF NeverLeft, SmcDirection
    <3>2. z.upper * u >= close * u
      BY <2>11, <2>14, <2>16, <3>1, ScaledUp
    <3>3. close * u \in Int /\ z.upper * u \in Int
      BY <2>11, <2>14, <2>16
    <3> HIDE DEF u, close
    <3>4. ~(close * u > a.plan.stopLoss)
      BY <2>16, <2>18, <3>2, <3>3 DEF u
    <3>5. QED BY <2>7, <2>18, <3>4 DEF ClosesBeyondStop, u, close
  <2>19. QED BY <2>17, <2>18 DEF TradeDirections
<1>2. QED BY <1>1, EvaluationInvariantHolds, PTL

-----------------------------------------------------------------------------
(* The market upside down: two series of candles each of which is the      *)
(* other with every price p turned into Top - p.                           *)
UpsideDown(c, m) ==
  /\ m.open = Top - c.open /\ m.close = Top - c.close
  /\ m.high = Top - c.low /\ m.low = Top - c.high

Mirrors(cs, ds) ==
  /\ Top \in Int /\ cs \in Seq(Candles) /\ ds \in Seq(Candles) /\ Len(cs) = Len(ds)
  /\ \A i \in 1..Len(cs) : UpsideDown(cs[i], ds[i])

LEMMA MirrorsBack ==
  ASSUME NEW cs, NEW ds, Mirrors(cs, ds)
  PROVE  Mirrors(ds, cs)
<1>1. ASSUME NEW i \in 1..Len(ds) PROVE UpsideDown(ds[i], cs[i])
  <2>1. i \in 1..Len(cs) /\ UpsideDown(cs[i], ds[i]) /\ cs \in Seq(Candles) /\ Top \in Int
    BY DEF Mirrors
  <2>2. QED BY <2>1, CandleAt DEF UpsideDown
<1>2. QED BY <1>1 DEF Mirrors

LEMMA SeriesMirrors ==
  ASSUME Top \in Int, NEW cs \in Seq(Candles)
  PROVE  Mirrors(cs, MirroredSeries(cs))
<1> DEFINE ds == MirroredSeries(cs)
<1>1. \A i \in 1..Len(cs) : ds[i] = Mirrored(cs[i])
  BY DEF MirroredSeries
<1>2. ASSUME NEW i \in 1..Len(cs) PROVE Mirrored(cs[i]) \in Candles /\ UpsideDown(cs[i], Mirrored(cs[i]))
  <2> DEFINE c == cs[i]
             m == Mirrored(c)
  <2>1. /\ c.open \in Int /\ c.high \in Int /\ c.low \in Int /\ c.close \in Int
        /\ c.low <= c.open /\ c.open <= c.high /\ c.low <= c.close /\ c.close <= c.high
    BY CandleAt
  <2>2. m = [open |-> Top - c.open, high |-> Top - c.low, low |-> Top - c.high,
             close |-> Top - c.close]
    BY DEF Mirrored
  <2> HIDE DEF c, m
  <2>3. Top - c.open \in Int /\ Top - c.high \in Int /\ Top - c.low \in Int /\ Top - c.close \in Int
    BY <2>1
  <2>4. m \in [open : Int, high : Int, low : Int, close : Int]
    BY <2>2, <2>3
  <2>5. /\ m.open = Top - c.open /\ m.high = Top - c.low /\ m.low = Top - c.high
        /\ m.close = Top - c.close
    BY <2>2
  <2>6. m.open \in m.low..m.high /\ m.close \in m.low..m.high
    BY <2>1, <2>5
  <2>7. QED BY <2>4, <2>5, <2>6 DEF Candles, UpsideDown, c, m
<1>3. ds \in [1..Len(cs) -> Candles] /\ Len(cs) \in Nat
  BY <1>2 DEF MirroredSeries
<1>4. ds \in Seq(Candles) /\ Len(ds) = Len(cs)
  BY <1>3
<1>5. QED BY <1>1, <1>2, <1>4 DEF Mirrors

LEMMA CandlesMirror ==
  ASSUME NEW cs, NEW ds, Mirrors(cs, ds), NEW i \in 1..Len(cs)
  PROVE  /\ Top \in Int /\ i \in 1..Len(ds) /\ UpsideDown(cs[i], ds[i])
         /\ cs[i].open \in Int /\ cs[i].high \in Int /\ cs[i].low \in Int /\ cs[i].close \in Int
<1>1. cs \in Seq(Candles) /\ Top \in Int /\ Len(cs) = Len(ds) /\ UpsideDown(cs[i], ds[i])
  BY DEF Mirrors
<1>2. QED BY <1>1, CandleAt

(* Sizes stay as they are, and up is down.                                 *)
LEMMA SizesMirror ==
  ASSUME NEW cs, NEW ds, Mirrors(cs, ds), NEW i \in 1..Len(cs)
  PROVE  /\ RangeSize(ds[i]) = RangeSize(cs[i]) /\ BodySize(ds[i]) = BodySize(cs[i])
         /\ Direction(cs[i]) = "none" => Direction(ds[i]) = "none"
         /\ Direction(cs[i]) # "none" =>
              /\ Direction(ds[i]) = Opposite(Direction(cs[i]))
              /\ ClosesNearExtreme(ds[i]) <=> ClosesNearExtreme(cs[i])
<1> DEFINE c == cs[i]
           m == ds[i]
<1>1. /\ Top \in Int /\ c.open \in Int /\ c.high \in Int /\ c.low \in Int /\ c.close \in Int
      /\ m.open = Top - c.open /\ m.close = Top - c.close
      /\ m.high = Top - c.low /\ m.low = Top - c.high
  BY CandlesMirror DEF UpsideDown
<1> HIDE DEF c, m
<1>2. RangeSize(m) = RangeSize(c)
  BY <1>1 DEF RangeSize
<1>3. BodySize(m) = BodySize(c)
  BY <1>1 DEF BodySize
<1>4. CASE c.close > c.open
  <2>1. Direction(c) = "bullish" /\ Direction(m) = "bearish"
    BY <1>1, <1>4 DEF Direction
  <2>2. c.close - c.low = m.high - m.close
    BY <1>1
  <2>3. QED BY <1>2, <1>3, <2>1, <2>2 DEF Opposite, ClosesNearExtreme, c, m
<1>5. CASE c.close < c.open
  <2>1. Direction(c) = "bearish" /\ Direction(m) = "bullish"
    BY <1>1, <1>5 DEF Direction
  <2>2. c.high - c.close = m.close - m.low
    BY <1>1
  <2>3. QED BY <1>2, <1>3, <2>1, <2>2 DEF Opposite, ClosesNearExtreme, c, m
<1>6. CASE c.close = c.open
  <2>1. Direction(c) = "none" /\ Direction(m) = "none"
    BY <1>1, <1>6 DEF Direction
  <2>2. QED BY <1>2, <1>3, <2>1 DEF c, m
<1>7. QED BY <1>1, <1>4, <1>5, <1>6

(* So do the averages, which are made from the ranges alone.               *)
AverageOf(ranges, n) ==
  LET atr[i \in AtrPeriod..n] ==
        IF i = AtrPeriod THEN [num |-> Sums(ranges, AtrPeriod)[AtrPeriod], den |-> AtrPeriod]
        ELSE LET before == atr[i - 1]
             IN  [num |-> before.num * (AtrPeriod - 1) + ranges[i] * before.den,
                  den |-> before.den * AtrPeriod]
  IN  atr

MeanOf(sizes, n) ==
  LET sums == Sums(sizes, n)
  IN  [i \in RangeAveragePeriod..n |->
         [num |-> sums[i] - sums[i - RangeAveragePeriod], den |-> RangeAveragePeriod]]

LEMMA AveragesMirror ==
  ASSUME NEW cs, NEW ds, Mirrors(cs, ds)
  PROVE  AverageTrueRange(ds) = AverageTrueRange(cs) /\ RollingMean(ds) = RollingMean(cs)
<1>1. Len(ds) = Len(cs) /\ DOMAIN ds = 1..Len(cs) /\ DOMAIN cs = 1..Len(cs)
  BY DEF Mirrors
<1>2. ASSUME NEW i \in 1..Len(cs) PROVE TrueRanges(ds)[i] = TrueRanges(cs)[i]
  <2>1. RangeSize(ds[i]) = RangeSize(cs[i])
    BY SizesMirror
  <2>2. CASE i = 1
    BY <1>1, <2>1, <2>2 DEF TrueRanges
  <2>3. CASE i # 1
    <3>1. i - 1 \in 1..Len(cs)
      BY <1>1, <2>3
    <3>2. UpsideDown(cs[i], ds[i]) /\ Top \in Int /\ cs[i].high \in Int /\ cs[i].low \in Int
      BY CandlesMirror
    <3>3. UpsideDown(cs[i - 1], ds[i - 1]) /\ cs[i - 1].close \in Int
      BY <3>1, CandlesMirror
    <3>4. Distance(ds[i].high, ds[i - 1].close) = Distance(cs[i].low, cs[i - 1].close)
      BY <3>2, <3>3 DEF UpsideDown, Distance
    <3>5. Distance(ds[i].low, ds[i - 1].close) = Distance(cs[i].high, cs[i - 1].close)
      BY <3>2, <3>3 DEF UpsideDown, Distance
    <3>6. {RangeSize(ds[i]), Distance(ds[i].high, ds[i - 1].close), Distance(ds[i].low, ds[i - 1].close)}
           = {RangeSize(cs[i]), Distance(cs[i].high, cs[i - 1].close), Distance(cs[i].low, cs[i - 1].close)}
      BY <2>1, <3>4, <3>5
    <3>7. QED BY <1>1, <2>3, <3>6 DEF TrueRanges
  <2>4. QED BY <2>2, <2>3
<1>3. TrueRanges(ds) = TrueRanges(cs)
  <2>1. /\ TrueRanges(cs) = [i \in 1..Len(cs) |-> TrueRanges(cs)[i]]
        /\ TrueRanges(ds) = [i \in 1..Len(cs) |-> TrueRanges(ds)[i]]
    BY <1>1 DEF TrueRanges
  <2>2. QED BY <1>2, <2>1
<1>4. /\ AverageTrueRange(cs) = AverageOf(TrueRanges(cs), Len(cs))
      /\ AverageTrueRange(ds) = AverageOf(TrueRanges(ds), Len(ds))
  BY DEF AverageTrueRange, AverageOf
<1>5. [i \in DOMAIN ds |-> RangeSize(ds[i])] = [i \in DOMAIN cs |-> RangeSize(cs[i])]
  BY <1>1, SizesMirror
<1>6. /\ RollingMean(cs) = MeanOf([i \in DOMAIN cs |-> RangeSize(cs[i])], Len(cs))
      /\ RollingMean(ds) = MeanOf([i \in DOMAIN ds |-> RangeSize(ds[i])], Len(ds))
  BY DEF RollingMean, MeanOf
<1>7. QED BY <1>1, <1>3, <1>4, <1>5, <1>6

-----------------------------------------------------------------------------
(* A high is a low, and what hits the one hits the other.                  *)
OtherKind(kind) == IF kind = "high" THEN "low" ELSE "high"
SwingMirror(s) == [kind |-> OtherKind(s.kind), index |-> s.index, confirmed |-> s.confirmed,
                   price |-> Top - s.price]

LEMMA SwingsMirror ==
  ASSUME NEW cs, NEW ds, Mirrors(cs, ds), NEW s \in DetectSwings(cs)
  PROVE  SwingMirror(s) \in DetectSwings(ds) /\ SwingMirror(SwingMirror(s)) = s
<1>1. cs \in Seq(Candles) /\ ds \in Seq(Candles) /\ Len(ds) = Len(cs) /\ Top \in Int
  BY DEF Mirrors
<1>2. /\ s.kind \in {"high", "low"} /\ s.index \in Inner(cs)
      /\ s.confirmed = s.index + SwingLookback /\ s.price \in Int
      /\ s = Swing(s.kind, s.index, s.price)
      /\ s.kind = "high" => /\ s.price = cs[s.index].high
                            /\ \A k \in Neighbours(cs, s.index) : s.price > cs[k].high
      /\ s.kind = "low" => /\ s.price = cs[s.index].low
                           /\ \A k \in Neighbours(cs, s.index) : s.price < cs[k].low
  BY <1>1, SwingFacts
<1> DEFINE i == s.index
<1>3. i \in Inner(ds) /\ Neighbours(ds, i) = Neighbours(cs, i) /\ i \in 1..Len(cs)
  BY <1>1, <1>2, InnerIsInside DEF Inner, Neighbours
<1>4. \A k \in Neighbours(cs, i) : k \in 1..Len(cs)
  BY <1>1 DEF Neighbours
<1>5. /\ cs[i].high \in Int /\ cs[i].low \in Int
      /\ ds[i].high = Top - cs[i].low /\ ds[i].low = Top - cs[i].high
  BY <1>3, CandlesMirror DEF UpsideDown
<1>6. \A k \in Neighbours(cs, i) : /\ cs[k].high \in Int /\ cs[k].low \in Int
                                   /\ ds[k].high = Top - cs[k].low /\ ds[k].low = Top - cs[k].high
  BY <1>4, CandlesMirror DEF UpsideDown
<1>7. SwingMirror(s) = Swing(OtherKind(s.kind), i, Top - s.price)
  BY <1>2 DEF SwingMirror, Swing
<1>8. SwingMirror(s) \in DetectSwings(ds)
  <2>1. CASE s.kind = "high"
    <3>1. ASSUME NEW k \in Neighbours(ds, i) PROVE ds[i].low < ds[k].low
      <4>1. k \in Neighbours(cs, i) /\ cs[i].high > cs[k].high
        BY <1>2, <1>3, <2>1
      <4>2. cs[k].high \in Int /\ ds[k].low = Top - cs[k].high
        BY <4>1, <1>6
      <4>3. QED BY <1>1, <1>5, <4>1, <4>2
    <3>2. SwingMirror(s) = Swing("low", i, ds[i].low)
      BY <1>2, <1>5, <1>7, <2>1 DEF OtherKind
    <3>3. QED BY <1>1, <1>3, <3>1, <3>2, SwingIff
  <2>2. CASE s.kind = "low"
    <3>1. ASSUME NEW k \in Neighbours(ds, i) PROVE ds[i].high > ds[k].high
      <4>1. k \in Neighbours(cs, i) /\ cs[i].low < cs[k].low
        BY <1>2, <1>3, <2>2
      <4>2. cs[k].low \in Int /\ ds[k].high = Top - cs[k].low
        BY <4>1, <1>6
      <4>3. QED BY <1>1, <1>5, <4>1, <4>2
    <3>2. SwingMirror(s) = Swing("high", i, ds[i].high)
      BY <1>2, <1>5, <1>7, <2>2 DEF OtherKind
    <3>3. QED BY <1>1, <1>3, <3>1, <3>2, SwingIff
  <2>3. QED BY <1>2, <2>1, <2>2
<1>9. SwingMirror(SwingMirror(s)) = s
  <2>1. OtherKind(OtherKind(s.kind)) = s.kind /\ Top - (Top - s.price) = s.price
    BY <1>1, <1>2 DEF OtherKind
  <2>2. SwingMirror(SwingMirror(s)) = Swing(OtherKind(OtherKind(s.kind)), i, Top - (Top - s.price))
    BY <1>2 DEF SwingMirror, Swing
  <2>3. QED BY <1>2, <2>1, <2>2
<1>10. QED BY <1>8, <1>9

LEMMA LatestMirrors ==
  ASSUME NEW cs, NEW ds, Mirrors(cs, ds), NEW s \in DetectSwings(cs), NEW i,
         LatestAt(i, s, DetectSwings(cs))
  PROVE  LatestAt(i, SwingMirror(s), DetectSwings(ds))
<1> DEFINE m == SwingMirror(s)
<1>1. m.index = s.index /\ m.confirmed = s.confirmed /\ m.kind = OtherKind(s.kind)
  BY DEF SwingMirror
<1>2. s.kind \in {"high", "low"}
  BY SwingFacts DEF Mirrors
<1>3. ASSUME NEW t \in DetectSwings(ds), t.kind = m.kind, s.index < t.index, t.confirmed < i
      PROVE  FALSE
  <2>1. SwingMirror(t) \in DetectSwings(cs)
    BY MirrorsBack, SwingsMirror
  <2>2. SwingMirror(t).kind = s.kind
    BY <1>1, <1>2, <1>3 DEF SwingMirror, OtherKind
  <2>3. SwingMirror(t).index = t.index /\ SwingMirror(t).confirmed = t.confirmed
    BY DEF SwingMirror
  <2>4. QED BY <1>3, <2>1, <2>2, <2>3 DEF LatestAt
<1> HIDE DEF m
<1>4. s.confirmed < i
  BY DEF LatestAt
<1>5. QED BY <1>1, <1>3, <1>4 DEF LatestAt, m

LEMMA HitsMirror ==
  ASSUME NEW cs, NEW ds, Mirrors(cs, ds), NEW s \in DetectSwings(cs), NEW i \in 1..Len(cs)
  PROVE  /\ ClosesBeyond(ds[i], SwingMirror(s)) <=> ClosesBeyond(cs[i], s)
         /\ SweepsOver(ds[i], SwingMirror(s)) <=> SweepsOver(cs[i], s)
<1>1. s.kind \in {"high", "low"} /\ s.price \in Int
  BY SwingFacts DEF Mirrors
<1>2. /\ Top \in Int /\ cs[i].high \in Int /\ cs[i].low \in Int /\ cs[i].close \in Int
      /\ ds[i].close = Top - cs[i].close
      /\ ds[i].high = Top - cs[i].low /\ ds[i].low = Top - cs[i].high
  BY CandlesMirror DEF UpsideDown
<1>3. SwingMirror(s).kind = OtherKind(s.kind) /\ SwingMirror(s).price = Top - s.price
  BY DEF SwingMirror
<1>4. CASE s.kind = "high"
  BY <1>1, <1>2, <1>3, <1>4 DEF ClosesBeyond, SweepsOver, OtherKind
<1>5. CASE s.kind = "low"
  BY <1>1, <1>2, <1>3, <1>5 DEF ClosesBeyond, SweepsOver, OtherKind
<1>6. QED BY <1>1, <1>4, <1>5

LEMMA FirstHitsMirror ==
  ASSUME NEW cs, NEW ds, Mirrors(cs, ds)
  PROVE  /\ \A p \in FirstClosings(cs) : <<p[1], SwingMirror(p[2])>> \in FirstClosings(ds)
         /\ \A p \in FirstSweepings(cs) : <<p[1], SwingMirror(p[2])>> \in FirstSweepings(ds)
<1> DEFINE S == DetectSwings(cs)
           T == DetectSwings(ds)
<1>1. /\ cs \in Seq(Candles) /\ ds \in Seq(Candles) /\ Len(ds) = Len(cs)
      /\ DOMAIN cs = 1..Len(cs) /\ DOMAIN ds = 1..Len(cs)
  BY DEF Mirrors
<1>2. /\ FirstClosings(cs) = FirstTo(ClosesBeyond, cs, S) /\ FirstClosings(ds) = FirstTo(ClosesBeyond, ds, T)
      /\ FirstSweepings(cs) = FirstTo(SweepsOver, cs, S) /\ FirstSweepings(ds) = FirstTo(SweepsOver, ds, T)
  BY <1>1, DetectedApart, FirstBreaks, FirstSweeps DEF FirstClosings, FirstSweepings
<1>3. ASSUME NEW p \in (DOMAIN cs) \X S
      PROVE  /\ <<p[1], SwingMirror(p[2])>> \in (DOMAIN ds) \X T
             /\ LatestAt(p[1], p[2], S) => LatestAt(p[1], SwingMirror(p[2]), T)
             /\ SwingMirror(p[2]).confirmed = p[2].confirmed
             /\ \A j \in (p[2].confirmed + 1)..(p[1] - 1) : j \in 1..Len(cs)
  <2>1. p[1] \in 1..Len(cs) /\ p[2] \in S
    BY <1>1
  <2>2. p[2].confirmed \in Nat
    BY <1>1, <2>1, Lookback, DetectedApart DEF ApartSwings
  <2>3. QED BY <1>1, <2>1, <2>2, SwingsMirror, LatestMirrors DEF SwingMirror
<1>4. ASSUME NEW p \in FirstTo(ClosesBeyond, cs, S)
      PROVE  <<p[1], SwingMirror(p[2])>> \in FirstTo(ClosesBeyond, ds, T)
  <2>1. p \in (DOMAIN cs) \X S /\ p[1] \in 1..Len(cs) /\ p[2] \in S
    BY <1>1 DEF FirstTo
  <2>2. QED BY <1>3, <2>1, HitsMirror DEF FirstTo
<1>5. ASSUME NEW p \in FirstTo(SweepsOver, cs, S)
      PROVE  <<p[1], SwingMirror(p[2])>> \in FirstTo(SweepsOver, ds, T)
  <2>1. p \in (DOMAIN cs) \X S /\ p[1] \in 1..Len(cs) /\ p[2] \in S
    BY <1>1 DEF FirstTo
  <2>2. QED BY <1>3, <2>1, HitsMirror DEF FirstTo
<1>6. QED BY <1>2, <1>4, <1>5

-----------------------------------------------------------------------------
(* Events of one direction are events of the other.                        *)
HasBreak(cs, direction, i) ==
  \E b \in Analyze(cs).breaks : b.direction = direction /\ b.index = i
HasSweep(cs, direction) == \E e \in Analyze(cs).sweeps : e.direction = direction
HasDisplacement(cs, direction, i) ==
  [direction |-> direction, index |-> i] \in Analyze(cs).displacements

LEMMA BreakIff ==
  ASSUME NEW cs \in Seq(Candles), NEW direction, NEW i
  PROVE  HasBreak(cs, direction, i) <=>
           \E p \in FirstClosings(cs) : p[1] = i /\ DirectionOf(p[2]) = direction
<1> DEFINE F == FirstClosings(cs)
<1>1. Analyze(cs).breaks = {BreakOf(p, F) : p \in F}
  BY Analysis, BreaksOf
<1>2. \A p : BreakOf(p, F).direction = DirectionOf(p[2]) /\ BreakOf(p, F).index = p[1]
  BY DEF BreakOf, Break
<1> HIDE DEF F
<1>3. QED BY <1>1, <1>2 DEF HasBreak, F

LEMMA BreaksMirror ==
  ASSUME NEW cs, NEW ds, Mirrors(cs, ds), NEW direction \in {"bullish", "bearish"}, NEW i,
         HasBreak(cs, direction, i)
  PROVE  HasBreak(ds, Opposite(direction), i)
<1>1. cs \in Seq(Candles) /\ ds \in Seq(Candles)
  BY DEF Mirrors
<1>2. PICK p \in FirstClosings(cs) : p[1] = i /\ DirectionOf(p[2]) = direction
  BY <1>1, BreakIff
<1>3. p[2].kind \in {"high", "low"}
  BY <1>1, HitFacts, SwingFacts
<1>4. <<i, SwingMirror(p[2])>> \in FirstClosings(ds)
  BY <1>2, FirstHitsMirror
<1>5. DirectionOf(SwingMirror(p[2])) = Opposite(direction)
  BY <1>2, <1>3 DEF DirectionOf, SwingMirror, OtherKind, Opposite
<1>6. \E q \in FirstClosings(ds) : q[1] = i /\ DirectionOf(q[2]) = Opposite(direction)
  BY <1>4, <1>5
<1>7. QED BY <1>1, <1>6, BreakIff

LEMMA SweepsMirror ==
  ASSUME NEW cs, NEW ds, Mirrors(cs, ds), NEW direction \in {"bullish", "bearish"},
         HasSweep(cs, direction)
  PROVE  HasSweep(ds, Opposite(direction))
<1>1. cs \in Seq(Candles) /\ ds \in Seq(Candles)
  BY DEF Mirrors
<1>2. /\ Analyze(cs).sweeps = {SweepOf(p) : p \in FirstSweepings(cs)}
      /\ Analyze(ds).sweeps = {SweepOf(p) : p \in FirstSweepings(ds)}
  BY <1>1, Analysis, SweepsOf
<1>3. PICK p \in FirstSweepings(cs) : SweepOf(p).direction = direction
  BY <1>2 DEF HasSweep
<1> DEFINE q == <<p[1], SwingMirror(p[2])>>
<1>4. p[2].kind \in {"high", "low"}
  BY <1>1, HitFacts, SwingFacts
<1>5. q \in FirstSweepings(ds) /\ q[2] = SwingMirror(p[2])
  BY FirstHitsMirror
<1>6. /\ SweepOf(p).direction = IF p[2].kind = "high" THEN "bearish" ELSE "bullish"
      /\ SweepOf(q).direction = IF q[2].kind = "high" THEN "bearish" ELSE "bullish"
  BY DEF SweepOf, Sweep
<1> HIDE DEF q
<1>7. SweepOf(q).direction = Opposite(direction)
  BY <1>3, <1>4, <1>5, <1>6 DEF SwingMirror, OtherKind, Opposite
<1>8. QED BY <1>2, <1>5, <1>7 DEF HasSweep

LEMMA DisplacementsMirror ==
  ASSUME NEW cs, NEW ds, Mirrors(cs, ds), NEW direction \in {"bullish", "bearish"}, NEW i,
         HasDisplacement(cs, direction, i)
  PROVE  HasDisplacement(ds, Opposite(direction), i)
<1>1. cs \in Seq(Candles) /\ ds \in Seq(Candles) /\ Len(ds) = Len(cs)
  BY DEF Mirrors
<1>2. PICK j \in 1..Len(cs) : /\ Displaces(cs, j)
                              /\ [direction |-> direction, index |-> i] = DisplacementAt(cs, j)
  BY <1>1, Analysis, DisplacementIff DEF HasDisplacement
<1>3. direction = Direction(cs[j]) /\ i = j
  BY <1>2 DEF DisplacementAt
<1>4. /\ Direction(ds[j]) = Opposite(direction)
      /\ RangeSize(ds[j]) = RangeSize(cs[j]) /\ BodySize(ds[j]) = BodySize(cs[j])
      /\ ClosesNearExtreme(ds[j]) <=> ClosesNearExtreme(cs[j])
  <2>1. j \in 1..Len(cs) /\ Direction(cs[j]) # "none"
    BY <1>3
  <2>2. RangeSize(ds[j]) = RangeSize(cs[j]) /\ BodySize(ds[j]) = BodySize(cs[j])
    BY <2>1, SizesMirror
  <2>3. Direction(ds[j]) = Opposite(Direction(cs[j]))
    BY <2>1, SizesMirror
  <2>4. ClosesNearExtreme(ds[j]) <=> ClosesNearExtreme(cs[j])
    BY <2>1, SizesMirror
  <2>5. QED BY <1>3, <2>2, <2>3, <2>4
<1>5. Displaces(ds, j)
  <2>1. Direction(ds[j]) # "none"
    BY <1>4 DEF Opposite
  <2>2. QED BY <1>2, <1>4, <2>1, AveragesMirror DEF Displaces
<1>6. [direction |-> Opposite(direction), index |-> i] = DisplacementAt(ds, j)
  BY <1>3, <1>4 DEF DisplacementAt
<1>7. QED BY <1>1, <1>2, <1>5, <1>6, Analysis, DisplacementIff DEF HasDisplacement

LEMMA EventsMirror ==
  ASSUME NEW cs, NEW ds, Mirrors(cs, ds), NEW direction \in {"bullish", "bearish"}, NEW i
  PROVE  /\ HasBreak(ds, Opposite(direction), i) <=> HasBreak(cs, direction, i)
         /\ HasSweep(ds, Opposite(direction)) <=> HasSweep(cs, direction)
         /\ HasDisplacement(ds, Opposite(direction), i) <=> HasDisplacement(cs, direction, i)
<1>1. Opposite(direction) \in {"bullish", "bearish"} /\ Opposite(Opposite(direction)) = direction
  BY DEF Opposite
<1>2. Mirrors(ds, cs)
  BY MirrorsBack
<1>3. QED BY <1>1, <1>2, BreaksMirror, SweepsMirror, DisplacementsMirror

-----------------------------------------------------------------------------
(* Zones, touched and ended by the same candles.                           *)
ZoneMirror(z) ==
  [direction |-> Opposite(z.direction), source |-> z.source, created |-> z.created,
   lower |-> Top - z.upper, upper |-> Top - z.lower,
   status |-> z.status, touched |-> z.touched, ended |-> z.ended]

LEMMA OrderMirrors ==
  ASSUME NEW p \in Int, NEW q \in Int, Top \in Int
  PROVE  /\ Top - p > Top - q <=> p < q
         /\ Top - p < Top - q <=> p > q
         /\ Top - p >= Top - q <=> p <= q
         /\ Top - p <= Top - q <=> p >= q
  OBVIOUS

LEMMA ZoneMirrored ==
  ASSUME NEW direction, NEW source, NEW created, NEW lower, NEW upper, NEW t, NEW e, NEW last
  PROVE  ZoneMirror(Zone(direction, source, created, lower, upper, t, e, last)) =
           Zone(Opposite(direction), source, created, Top - upper, Top - lower, t, e, last)
  BY DEF Zone, ZoneMirror

LEMMA GapsMirror ==
  ASSUME NEW cs, NEW ds, Mirrors(cs, ds), NEW z \in Analyze(cs).gaps
  PROVE  ZoneMirror(z) \in Analyze(ds).gaps
<1>1. cs \in Seq(Candles) /\ ds \in Seq(Candles) /\ Len(ds) = Len(cs) /\ Top \in Int
  BY DEF Mirrors
<1>2. PICK j \in 3..Len(cs) : \/ BullishGap(cs, j) /\ z = BullishGapAt(cs, j)
                              \/ BearishGap(cs, j) /\ z = BearishGapAt(cs, j)
  BY <1>1, GapIff, Analysis
<1>3. j \in 1..Len(cs) /\ j - 2 \in 1..Len(cs)
  BY <1>1
<1>4. \A k \in 1..Len(cs) : /\ cs[k].high \in Int /\ cs[k].low \in Int
                            /\ ds[k].high = Top - cs[k].low /\ ds[k].low = Top - cs[k].high
  BY CandlesMirror DEF UpsideDown
<1>5. Later(ds, j) = Later(cs, j) /\ \A k \in Later(cs, j) : k \in 1..Len(cs)
  BY <1>1, <1>3 DEF Later
<1>6. AverageTrueRange(ds) = AverageTrueRange(cs)
  BY AveragesMirror
<1>7. CASE BullishGap(cs, j) /\ z = BullishGapAt(cs, j)
  <2> DEFINE lower == cs[j - 2].high
             upper == cs[j].low
             t == {k \in Later(cs, j) : cs[k].low < upper}
             e == {k \in Later(cs, j) : cs[k].low <= lower}
  <2>1. z = Zone("bullish", j - 2, j, lower, upper, t, e, "filled")
    BY <1>7 DEF BullishGapAt, ResolveGap
  <2>2. lower \in Int /\ upper \in Int /\ ds[j].high = Top - upper /\ ds[j - 2].low = Top - lower
    BY <1>3, <1>4
  <2>3. /\ t = {k \in Later(ds, j) : ds[k].high > Top - upper}
        /\ e = {k \in Later(ds, j) : ds[k].high >= Top - lower}
    <3>1. \A k \in Later(cs, j) : cs[k].low \in Int /\ ds[k].high = Top - cs[k].low
      BY <1>4, <1>5
    <3>2. \A k \in Later(cs, j) : /\ cs[k].low < upper <=> ds[k].high > Top - upper
                                  /\ cs[k].low <= lower <=> ds[k].high >= Top - lower
      <4> HIDE DEF lower, upper
      <4> QED BY <1>1, <2>2, <3>1
    <3> HIDE DEF lower, upper
    <3>3. QED BY <1>5, <3>2
  <2>4. BearishGap(ds, j)
    <3>1. ds[j - 2].low - ds[j].high = upper - lower /\ ds[j].high < ds[j - 2].low
      BY <1>1, <1>7, <2>2 DEF BullishGap
    <3>2. QED BY <1>6, <1>7, <3>1 DEF BullishGap, BearishGap
  <2>5. BearishGapAt(ds, j) = Zone("bearish", j - 2, j, Top - upper, Top - lower, t, e, "filled")
    BY <2>2, <2>3 DEF BearishGapAt, ResolveGap
  <2> HIDE DEF t, e, lower, upper
  <2>6. ZoneMirror(z) = BearishGapAt(ds, j)
    BY <2>1, <2>5, ZoneMirrored DEF Opposite
  <2>7. QED BY <1>1, <2>4, <2>6, GapIff, Analysis
<1>8. CASE BearishGap(cs, j) /\ z = BearishGapAt(cs, j)
  <2> DEFINE lower == cs[j].high
             upper == cs[j - 2].low
             t == {k \in Later(cs, j) : cs[k].high > lower}
             e == {k \in Later(cs, j) : cs[k].high >= upper}
  <2>1. z = Zone("bearish", j - 2, j, lower, upper, t, e, "filled")
    BY <1>8 DEF BearishGapAt, ResolveGap
  <2>2. lower \in Int /\ upper \in Int /\ ds[j].low = Top - lower /\ ds[j - 2].high = Top - upper
    BY <1>3, <1>4
  <2>3. /\ t = {k \in Later(ds, j) : ds[k].low < Top - lower}
        /\ e = {k \in Later(ds, j) : ds[k].low <= Top - upper}
    <3>1. \A k \in Later(cs, j) : cs[k].high \in Int /\ ds[k].low = Top - cs[k].high
      BY <1>4, <1>5
    <3>2. \A k \in Later(cs, j) : /\ cs[k].high > lower <=> ds[k].low < Top - lower
                                  /\ cs[k].high >= upper <=> ds[k].low <= Top - upper
      <4> HIDE DEF lower, upper
      <4> QED BY <1>1, <2>2, <3>1
    <3> HIDE DEF lower, upper
    <3>3. QED BY <1>5, <3>2
  <2>4. BullishGap(ds, j)
    <3>1. ds[j].low - ds[j - 2].high = upper - lower /\ ds[j].low > ds[j - 2].high
      BY <1>1, <1>8, <2>2 DEF BearishGap
    <3>2. QED BY <1>6, <1>8, <3>1 DEF BullishGap, BearishGap
  <2>5. BullishGapAt(ds, j) = Zone("bullish", j - 2, j, Top - upper, Top - lower, t, e, "filled")
    BY <2>2, <2>3 DEF BullishGapAt, ResolveGap
  <2> HIDE DEF t, e, lower, upper
  <2>6. ZoneMirror(z) = BullishGapAt(ds, j)
    BY <2>1, <2>5, ZoneMirrored DEF Opposite
  <2>7. QED BY <1>1, <2>4, <2>6, GapIff, Analysis
<1>9. QED BY <1>2, <1>7, <1>8

(* The source of a block depends on the direction and the candle of its    *)
(* break alone.                                                            *)
LEMMA SourcesMirror ==
  ASSUME NEW cs, NEW ds, Mirrors(cs, ds), NEW b, NEW e, b.direction \in {"bullish", "bearish"},
         e.direction = Opposite(b.direction), e.index = b.index
  PROVE  Sources(ds, e) = Sources(cs, b) /\ SourceOf(ds, e) = SourceOf(cs, b)
<1>1. DOMAIN ds = 1..Len(cs) /\ DOMAIN cs = 1..Len(cs)
  BY DEF Mirrors
<1>2. ASSUME NEW j \in 1..Len(cs)
      PROVE  Direction(ds[j]) = Opposite(e.direction) <=> Direction(cs[j]) = Opposite(b.direction)
  <2>1. Direction(cs[j]) \in {"none", "bullish", "bearish"}
    BY DEF Direction
  <2>2. CASE Direction(cs[j]) = "none"
    <3>1. Direction(ds[j]) = "none"
      BY <2>2, SizesMirror
    <3>2. QED BY <2>2, <3>1 DEF Opposite
  <2>3. CASE Direction(cs[j]) # "none"
    <3>1. Direction(ds[j]) = Opposite(Direction(cs[j]))
      BY <2>3, SizesMirror
    <3>2. QED BY <2>1, <2>3, <3>1 DEF Opposite
  <2>4. QED BY <2>2, <2>3
<1>3. Sources(ds, e) = Sources(cs, b)
  BY <1>1, <1>2 DEF Sources
<1>4. QED BY <1>3 DEF SourceOf

LEMMA DisplacingMirrors ==
  ASSUME NEW cs, NEW ds, Mirrors(cs, ds), NEW b, Displacing(cs, b)
  PROVE  /\ b.direction \in {"bullish", "bearish"} /\ b.index \in 1..Len(cs)
         /\ \E e : /\ Displacing(ds, e) /\ e.direction = Opposite(b.direction) /\ e.index = b.index
                   /\ SourceOf(ds, e) = SourceOf(cs, b)
<1>1. cs \in Seq(Candles) /\ ds \in Seq(Candles)
  BY DEF Mirrors
<1>2. /\ b \in Analyze(cs).breaks /\ HasDisplacement(cs, b.direction, b.index)
      /\ Sources(cs, b) # {}
  BY Analysis DEF Displacing, HasDisplacement
<1>3. b.direction \in {"bullish", "bearish"} /\ b.index \in 1..Len(cs)
  <2> DEFINE F == FirstClosings(cs)
  <2>1. PICK p \in F : b = BreakOf(p, F)
    BY <1>1, <1>2, Analysis, BreaksOf
  <2>2. p[1] \in 1..Len(cs)
    BY <1>1, HitFacts
  <2> HIDE DEF F
  <2>3. QED BY <2>1, <2>2 DEF BreakOf, Break, DirectionOf
<1>4. HasBreak(ds, Opposite(b.direction), b.index) /\ HasDisplacement(ds, Opposite(b.direction), b.index)
  <2>1. HasBreak(cs, b.direction, b.index)
    BY <1>2 DEF HasBreak
  <2>2. QED BY <1>2, <1>3, <2>1, BreaksMirror, DisplacementsMirror
<1>5. PICK e \in Analyze(ds).breaks : e.direction = Opposite(b.direction) /\ e.index = b.index
  BY <1>4 DEF HasBreak
<1>6. Sources(ds, e) = Sources(cs, b) /\ SourceOf(ds, e) = SourceOf(cs, b)
  BY <1>3, <1>5, SourcesMirror
<1>7. Displacing(ds, e)
  <2>1. [direction |-> e.direction, index |-> e.index] \in Analyze(ds).displacements
    BY <1>4, <1>5 DEF HasDisplacement
  <2>2. QED BY <1>2, <1>5, <1>6, <2>1, Analysis DEF Displacing
<1>8. QED BY <1>3, <1>5, <1>6, <1>7

LEMMA MakersMirror ==
  ASSUME NEW cs, NEW ds, Mirrors(cs, ds), NEW b, MakesBlock(cs, b)
  PROVE  \E e : /\ MakesBlock(ds, e) /\ e.direction = Opposite(b.direction) /\ e.index = b.index
                /\ SourceOf(ds, e) = SourceOf(cs, b)
<1>1. Displacing(cs, b)
  BY DEF MakesBlock
<1>2. b.direction \in {"bullish", "bearish"}
  BY <1>1, DisplacingMirrors
<1>3. PICK e : /\ Displacing(ds, e) /\ e.direction = Opposite(b.direction) /\ e.index = b.index
               /\ SourceOf(ds, e) = SourceOf(cs, b)
  BY <1>1, DisplacingMirrors
<1>4. ASSUME NEW f, Displacing(ds, f), f.direction = e.direction, SourceOf(ds, f) = SourceOf(ds, e)
      PROVE  e.index <= f.index
  <2>1. PICK g : /\ Displacing(cs, g) /\ g.direction = Opposite(f.direction) /\ g.index = f.index
                 /\ SourceOf(cs, g) = SourceOf(ds, f)
    BY <1>4, MirrorsBack, DisplacingMirrors
  <2>2. g.direction = b.direction
    BY <1>2, <1>3, <1>4, <2>1 DEF Opposite
  <2>3. QED BY <1>3, <1>4, <2>1, <2>2 DEF MakesBlock
<1>5. QED BY <1>3, <1>4 DEF MakesBlock

LEMMA BlocksMirror ==
  ASSUME NEW cs, NEW ds, Mirrors(cs, ds), NEW z \in Analyze(cs).blocks
  PROVE  ZoneMirror(z) \in Analyze(ds).blocks
<1>1. cs \in Seq(Candles) /\ ds \in Seq(Candles) /\ Len(ds) = Len(cs) /\ Top \in Int
  BY DEF Mirrors
<1>2. PICK b : MakesBlock(cs, b) /\ z = BlockOf(cs, b)
  BY <1>1, BlockIff, Analysis
<1>3. PICK g : /\ MakesBlock(ds, g) /\ g.direction = Opposite(b.direction) /\ g.index = b.index
               /\ SourceOf(ds, g) = SourceOf(cs, b)
  BY <1>2, MakersMirror
<1>4. /\ b.direction \in {"bullish", "bearish"} /\ b.index \in 1..Len(cs) /\ Sources(cs, b) # {}
  BY <1>2, DisplacingMirrors DEF MakesBlock, Displacing
<1> DEFINE a == SourceOf(cs, b)
           m == b.index
           c == cs[a]
           d == ds[a]
           bullish == b.direction = "bullish"
           e == {j \in Later(cs, m) : IF bullish THEN cs[j].close < c.low ELSE cs[j].close > c.high}
           t == {j \in Later(cs, m) \ e : IF bullish THEN cs[j].low <= c.high ELSE cs[j].high >= c.low}
           u == {j \in Later(ds, m) : IF bullish THEN ds[j].close > d.high ELSE ds[j].close < d.low}
           v == {j \in Later(ds, m) \ u : IF bullish THEN ds[j].high >= d.low ELSE ds[j].low <= d.high}
<1>5. a \in 1..Len(cs)
  BY <1>1, <1>4, SourceFacts
<1>6. \A k \in 1..Len(cs) : /\ cs[k].high \in Int /\ cs[k].low \in Int /\ cs[k].close \in Int
                            /\ ds[k].close = Top - cs[k].close
                            /\ ds[k].high = Top - cs[k].low /\ ds[k].low = Top - cs[k].high
  BY CandlesMirror DEF UpsideDown
<1>7. Later(ds, m) = Later(cs, m) /\ \A k \in Later(cs, m) : k \in 1..Len(cs)
  BY <1>1, <1>4 DEF Later
<1>8. ASSUME NEW k \in Later(cs, m)
      PROVE  /\ ds[k].close > d.high <=> cs[k].close < c.low
             /\ ds[k].close < d.low <=> cs[k].close > c.high
             /\ ds[k].high >= d.low <=> cs[k].low <= c.high
             /\ ds[k].low <= d.high <=> cs[k].high >= c.low
  <2>1. k \in 1..Len(cs)
    BY <1>7
  <2>2. /\ cs[k].high \in Int /\ cs[k].low \in Int /\ cs[k].close \in Int
        /\ ds[k].close = Top - cs[k].close
        /\ ds[k].high = Top - cs[k].low /\ ds[k].low = Top - cs[k].high
    BY <1>6, <2>1
  <2>3. c.high \in Int /\ c.low \in Int /\ d.high = Top - c.low /\ d.low = Top - c.high
    BY <1>5, <1>6
  <2> HIDE DEF c, d
  <2>4. ds[k].close > d.high <=> cs[k].close < c.low
    BY <1>1, <2>2, <2>3, OrderMirrors
  <2>5. ds[k].close < d.low <=> cs[k].close > c.high
    BY <1>1, <2>2, <2>3, OrderMirrors
  <2>6. ds[k].high >= d.low <=> cs[k].low <= c.high
    BY <1>1, <2>2, <2>3, OrderMirrors
  <2>7. ds[k].low <= d.high <=> cs[k].high >= c.low
    BY <1>1, <2>2, <2>3, OrderMirrors
  <2>8. QED BY <2>4, <2>5, <2>6, <2>7
<1>9. u = e /\ v = t
  <2> HIDE DEF c, d, bullish, a, m
  <2>1. u = e
    BY <1>7, <1>8
  <2> HIDE DEF u, e
  <2>2. QED BY <1>7, <1>8, <2>1
<1>10. z = Zone(b.direction, a, m, c.low, c.high, t, e, "invalidated")
  BY <1>2 DEF BlockOf, ResolveOrderBlock
<1>11. BlockOf(ds, g) = Zone(Opposite(b.direction), a, m, d.low, d.high, v, u, "invalidated")
  <2>1. BlockOf(ds, g) = ResolveOrderBlock(ds, Opposite(b.direction), m, a)
    BY <1>3 DEF BlockOf
  <2>2. CASE bullish
    <3>1. Opposite(b.direction) = "bearish" /\ "bearish" # "bullish"
      BY <2>2 DEF Opposite
    <3>2. QED BY <2>1, <2>2, <3>1 DEF ResolveOrderBlock
  <2>3. CASE ~bullish
    <3>1. Opposite(b.direction) = "bullish"
      BY <2>3 DEF Opposite
    <3>2. QED BY <2>1, <2>3, <3>1 DEF ResolveOrderBlock
  <2>4. QED BY <2>2, <2>3
<1>12. d.low = Top - c.high /\ d.high = Top - c.low
  BY <1>5, <1>6
<1> HIDE DEF a, m, c, d, e, t, u, v
<1>13. ZoneMirror(z) = BlockOf(ds, g)
  BY <1>9, <1>10, <1>11, <1>12, ZoneMirrored
<1>14. QED BY <1>1, <1>3, <1>13, BlockIff, Analysis

-----------------------------------------------------------------------------
(* What is open for a long is open for a short.                            *)
OpenFor(d, z) == z.direction = SmcDirection(d) /\ z.status \in {"open", "partially_filled"}

IsLast(d, z, analysis) ==
  /\ OpenFor(d, z)
  /\ \A y \in analysis.gaps \cup analysis.blocks : OpenFor(d, y) => y.created <= z.created

LEMMA EntryZoneIs ==
  ASSUME NEW d, NEW analysis
  PROVE  EntryZone(d, analysis) =
           IF \E z \in analysis.gaps : IsLast(d, z, analysis)
           THEN {z \in analysis.gaps : IsLast(d, z, analysis)}
           ELSE {z \in analysis.blocks : IsLast(d, z, analysis)}
<1> DEFINE open(zones) == {z \in zones : /\ z.direction = SmcDirection(d)
                                         /\ z.status \in {"open", "partially_filled"}}
           newest(zones) == {z \in zones : \A y \in open(analysis.gaps \cup analysis.blocks) :
                                             y.created <= z.created}
<1>1. EntryZone(d, analysis) = IF newest(open(analysis.gaps)) # {} THEN newest(open(analysis.gaps))
                               ELSE newest(open(analysis.blocks))
  BY DEF EntryZone
<1>2. /\ newest(open(analysis.gaps)) = {z \in analysis.gaps : IsLast(d, z, analysis)}
      /\ newest(open(analysis.blocks)) = {z \in analysis.blocks : IsLast(d, z, analysis)}
  BY DEF IsLast, OpenFor
<1> HIDE DEF newest, open
<1>3. QED BY <1>1, <1>2

LEMMA LastMirrors ==
  ASSUME NEW cs, NEW ds, Mirrors(cs, ds), NEW d \in TradeDirections, NEW z,
         IsLast(d, z, Analyze(cs))
  PROVE  IsLast(Turned(d), ZoneMirror(z), Analyze(ds))
<1> DEFINE m == ZoneMirror(z)
<1>1. m.direction = Opposite(z.direction) /\ m.status = z.status /\ m.created = z.created
  BY DEF ZoneMirror
<1>2. OpenFor(Turned(d), m)
  BY <1>1 DEF OpenFor, IsLast, SmcDirection, Opposite, Turned, TradeDirections
<1>3. ASSUME NEW y \in Analyze(ds).gaps \cup Analyze(ds).blocks, OpenFor(Turned(d), y)
      PROVE  y.created <= m.created
  <2> DEFINE n == ZoneMirror(y)
  <2>1. n \in Analyze(cs).gaps \cup Analyze(cs).blocks
    BY MirrorsBack, GapsMirror, BlocksMirror
  <2>2. n.direction = Opposite(y.direction) /\ n.status = y.status /\ n.created = y.created
    BY DEF ZoneMirror
  <2> HIDE DEF n
  <2>3. OpenFor(d, n)
    BY <1>3, <2>2 DEF OpenFor, SmcDirection, Opposite, Turned, TradeDirections
  <2>4. QED BY <1>1, <2>1, <2>2, <2>3 DEF IsLast
<1> HIDE DEF m
<1>4. QED BY <1>2, <1>3 DEF IsLast, m

LEMMA EntryZoneMirrors ==
  ASSUME NEW cs, NEW ds, Mirrors(cs, ds), NEW d \in TradeDirections,
         NEW z \in EntryZone(d, Analyze(cs))
  PROVE  ZoneMirror(z) \in EntryZone(Turned(d), Analyze(ds))
<1> DEFINE A == Analyze(cs)
           M == Analyze(ds)
           e == Turned(d)
<1>1. e \in TradeDirections /\ Turned(e) = d /\ Mirrors(ds, cs)
  BY MirrorsBack DEF Turned, TradeDirections
<1>2. CASE \E y \in A.gaps : IsLast(d, y, A)
  <2>1. z \in A.gaps /\ IsLast(d, z, A)
    BY <1>2, EntryZoneIs
  <2>2. ZoneMirror(z) \in M.gaps /\ IsLast(e, ZoneMirror(z), M)
    BY <2>1, GapsMirror, LastMirrors
  <2> HIDE DEF A, M, e
  <2>3. QED BY <2>2, EntryZoneIs DEF M, e
<1>3. CASE ~\E y \in A.gaps : IsLast(d, y, A)
  <2>1. z \in A.blocks /\ IsLast(d, z, A)
    BY <1>3, EntryZoneIs
  <2>2. ZoneMirror(z) \in M.blocks /\ IsLast(e, ZoneMirror(z), M)
    BY <2>1, BlocksMirror, LastMirrors
  <2>3. ~\E y \in M.gaps : IsLast(e, y, M)
    <3> SUFFICES ASSUME NEW y \in M.gaps, IsLast(e, y, M) PROVE FALSE
      OBVIOUS
    <3>1. ZoneMirror(y) \in A.gaps /\ IsLast(Turned(e), ZoneMirror(y), A)
      BY <1>1, GapsMirror, LastMirrors
    <3>2. QED BY <1>1, <1>3, <3>1
  <2> HIDE DEF A, M, e
  <2>4. QED BY <2>2, <2>3, EntryZoneIs DEF M, e
<1>4. QED BY <1>2, <1>3

LEMMA EntryPrices ==
  ASSUME NEW cs \in Seq(Candles), NEW d \in TradeDirections, NEW z \in EntryZone(d, Analyze(cs))
  PROVE  z.lower \in Int /\ z.upper \in Int
<1>1. /\ z.direction = SmcDirection(d) /\ IsOpen(z)
      /\ z \in Analyze(cs).gaps \/ z \in Analyze(cs).blocks
  BY EntryZoneFacts
<1>2. QED BY <1>1, GapHolds, BlockHolds

-----------------------------------------------------------------------------
(* Contexts that are each other upside down.                               *)
Flipped(x, y) ==
  /\ Top \in Int /\ x \in TypedContexts /\ y \in TypedContexts
  /\ \A direction \in {"bullish", "bearish"} :
       /\ y.h4 = Opposite(direction) <=> x.h4 = direction
       /\ y.h1 = Opposite(direction) <=> x.h1 = direction
       /\ Opposite(direction) \in y.confirmed <=> direction \in x.confirmed
  /\ "premium" \in y.locations <=> "discount" \in x.locations
  /\ "discount" \in y.locations <=> "premium" \in x.locations
  /\ \A p \in Int : /\ Top - p \in y.highs <=> p \in x.lows
                    /\ Top - p \in y.lows <=> p \in x.highs
  /\ y.price = Top - x.price
  /\ \A d \in TradeDirections : Turned(d) \in y.crowded <=> d \in x.crowded
  /\ y.filtered = x.filtered /\ y.volume = x.volume /\ y.interest = x.interest
  /\ y.abnormal = x.abnormal

LEMMA FlippedBack ==
  ASSUME NEW x, NEW y, Flipped(x, y)
  PROVE  Flipped(y, x)
<1>1. /\ Top \in Int /\ x \in TypedContexts /\ y \in TypedContexts
      /\ x.price \in Int /\ y.price = Top - x.price
  BY DEF Flipped, TypedContexts
<1>2. ASSUME NEW direction \in {"bullish", "bearish"}
      PROVE  /\ x.h4 = Opposite(direction) <=> y.h4 = direction
             /\ x.h1 = Opposite(direction) <=> y.h1 = direction
             /\ Opposite(direction) \in x.confirmed <=> direction \in y.confirmed
  <2>1. Opposite(direction) \in {"bullish", "bearish"} /\ Opposite(Opposite(direction)) = direction
    BY DEF Opposite
  <2>2. QED BY <2>1 DEF Flipped
<1>3. ASSUME NEW p \in Int
      PROVE  /\ Top - p \in x.highs <=> p \in y.lows
             /\ Top - p \in x.lows <=> p \in y.highs
  <2>1. Top - p \in Int /\ Top - (Top - p) = p
    BY <1>1
  <2>2. QED BY <2>1 DEF Flipped
<1>4. ASSUME NEW d \in TradeDirections PROVE Turned(d) \in x.crowded <=> d \in y.crowded
  <2>1. Turned(d) \in TradeDirections /\ Turned(Turned(d)) = d
    BY DEF Turned, TradeDirections
  <2>2. QED BY <2>1 DEF Flipped
<1>5. x.price = Top - y.price
  BY <1>1
<1>6. QED BY <1>1, <1>2, <1>3, <1>4, <1>5 DEF Flipped

LEMMA ContextFlips ==
  ASSUME Top \in Int, NEW x \in TypedContexts
  PROVE  Flipped(x, MirroredContext(x))
<1> DEFINE y == MirroredContext(x)
           Locations == {"premium", "discount", "equilibrium"}
           Swap(l) == IF l = "premium" THEN "discount" ELSE IF l = "discount" THEN "premium" ELSE l
           Flip(trend) == IF trend = "none" THEN "none" ELSE Opposite(trend)
<1>1. /\ x.h4 \in Trends /\ x.h1 \in Trends /\ x.locations \subseteq Locations
      /\ x.highs \subseteq Int /\ x.lows \subseteq Int /\ x.price \in Int
      /\ x.confirmed \subseteq {"bullish", "bearish"} /\ x.crowded \subseteq {"long", "short"}
      /\ x.filtered \in BOOLEAN /\ x.volume \in BOOLEAN /\ x.interest \in BOOLEAN
      /\ x.abnormal \in BOOLEAN
  BY DEF TypedContexts
<1>2. y = [h4 |-> Flip(x.h4), h1 |-> Flip(x.h1), locations |-> {Swap(l) : l \in x.locations},
           highs |-> {Top - p : p \in x.lows}, lows |-> {Top - p : p \in x.highs},
           price |-> Top - x.price, confirmed |-> {Opposite(e) : e \in x.confirmed},
           crowded |-> {Turned(d) : d \in x.crowded}, filtered |-> x.filtered,
           volume |-> x.volume, interest |-> x.interest, abnormal |-> x.abnormal]
  BY DEF MirroredContext
<1>3. Flip(x.h4) \in Trends /\ Flip(x.h1) \in Trends
  BY <1>1 DEF Trends, Opposite
<1>4. {Swap(l) : l \in x.locations} \subseteq Locations
  BY <1>1
<1>5. {Top - p : p \in x.lows} \subseteq Int /\ {Top - p : p \in x.highs} \subseteq Int /\ Top - x.price \in Int
  BY <1>1
<1>6. {Opposite(e) : e \in x.confirmed} \subseteq {"bullish", "bearish"}
  BY DEF Opposite
<1>7. {Turned(d) : d \in x.crowded} \subseteq {"long", "short"}
  BY DEF Turned
<1> HIDE DEF y
<1>8. y \in TypedContexts
  <2> HIDE DEF Flip, Swap
  <2>1. QED BY <1>1, <1>2, <1>3, <1>4, <1>5, <1>6, <1>7 DEF TypedContexts
<1>9. /\ y.h4 = Flip(x.h4) /\ y.h1 = Flip(x.h1) /\ y.locations = {Swap(l) : l \in x.locations}
      /\ y.highs = {Top - p : p \in x.lows} /\ y.lows = {Top - p : p \in x.highs}
      /\ y.price = Top - x.price /\ y.confirmed = {Opposite(e) : e \in x.confirmed}
      /\ y.crowded = {Turned(d) : d \in x.crowded} /\ y.filtered = x.filtered
      /\ y.volume = x.volume /\ y.interest = x.interest /\ y.abnormal = x.abnormal
  BY <1>2
<1>10. ASSUME NEW direction \in {"bullish", "bearish"}
       PROVE  /\ y.h4 = Opposite(direction) <=> x.h4 = direction
              /\ y.h1 = Opposite(direction) <=> x.h1 = direction
              /\ Opposite(direction) \in y.confirmed <=> direction \in x.confirmed
  <2>1. y.h4 = Opposite(direction) <=> x.h4 = direction
    BY <1>1, <1>9 DEF Opposite, Trends
  <2>2. y.h1 = Opposite(direction) <=> x.h1 = direction
    BY <1>1, <1>9 DEF Opposite, Trends
  <2>3. \A e \in x.confirmed : Opposite(e) = Opposite(direction) => e = direction
    BY <1>1 DEF Opposite
  <2>4. QED BY <1>9, <2>1, <2>2, <2>3
<1>11. /\ "premium" \in y.locations <=> "discount" \in x.locations
       /\ "discount" \in y.locations <=> "premium" \in x.locations
  <2>1. \A l \in x.locations : (Swap(l) = "premium" <=> l = "discount") /\ (Swap(l) = "discount" <=> l = "premium")
    BY <1>1
  <2> HIDE DEF Swap
  <2>2. Swap("discount") = "premium" /\ Swap("premium") = "discount"
    BY DEF Swap
  <2>3. QED BY <1>9, <2>1, <2>2
<1>12. ASSUME NEW p \in Int
       PROVE  /\ Top - p \in y.highs <=> p \in x.lows
              /\ Top - p \in y.lows <=> p \in x.highs
  <2>1. \A q \in Int : Top - q = Top - p => q = p
    OBVIOUS
  <2>2. QED BY <1>1, <1>9, <2>1
<1>13. ASSUME NEW d \in TradeDirections PROVE Turned(d) \in y.crowded <=> d \in x.crowded
  <2>1. \A e \in x.crowded : Turned(e) = Turned(d) => e = d
    BY <1>1 DEF Turned, TradeDirections
  <2>2. QED BY <1>9, <2>1
<1>14. QED BY <1>8, <1>9, <1>10, <1>11, <1>12, <1>13 DEF Flipped, y

-----------------------------------------------------------------------------
LEMMA SwingPricesMirror ==
  ASSUME NEW cs, NEW ds, Mirrors(cs, ds), NEW x, NEW y, Flipped(x, y), NEW d \in TradeDirections,
         NEW p \in SwingPrices(d, Analyze(cs), x)
  PROVE  p \in Int /\ Top - p \in SwingPrices(Turned(d), Analyze(ds), y)
<1> DEFINE kind == IF d = "long" THEN "high" ELSE "low"
           given == IF d = "long" THEN x.highs ELSE x.lows
           turned == IF d = "long" THEN y.lows ELSE y.highs
<1>1. cs \in Seq(Candles) /\ ds \in Seq(Candles)
  BY DEF Mirrors
<1>2. p \in given \/ \E s \in DetectSwings(cs) : s.kind = kind /\ p = s.price
  BY Analysis DEF SwingPrices
<1>3. /\ turned \subseteq SwingPrices(Turned(d), Analyze(ds), y)
      /\ \A s \in DetectSwings(ds) : s.kind = OtherKind(kind) =>
           s.price \in SwingPrices(Turned(d), Analyze(ds), y)
  BY Analysis DEF SwingPrices, Turned, TradeDirections, OtherKind
<1>4. CASE p \in given
  <2>1. p \in Int
    BY <1>4 DEF Flipped, TypedContexts
  <2>2. Top - p \in turned
    BY <1>4, <2>1 DEF Flipped
  <2>3. QED BY <1>3, <2>1, <2>2
<1>5. CASE \E s \in DetectSwings(cs) : s.kind = kind /\ p = s.price
  <2>1. PICK s \in DetectSwings(cs) : s.kind = kind /\ p = s.price
    BY <1>5
  <2>2. p \in Int
    BY <1>1, <2>1, SwingFacts
  <2>3. SwingMirror(s) \in DetectSwings(ds)
    BY SwingsMirror
  <2>4. SwingMirror(s).kind = OtherKind(kind) /\ SwingMirror(s).price = Top - p
    BY <2>1 DEF SwingMirror
  <2> HIDE DEF kind
  <2>5. QED BY <1>3, <2>2, <2>3, <2>4
<1>6. QED BY <1>2, <1>4, <1>5

LEMMA TargetsMirror ==
  ASSUME NEW cs, NEW ds, Mirrors(cs, ds), NEW x, NEW y, Flipped(x, y), NEW d \in TradeDirections,
         NEW z, NEW m, z.lower \in Int, z.upper \in Int, m.lower = Top - z.upper,
         m.upper = Top - z.lower, NEW p \in LiquidityTarget(d, Analyze(cs), x, z)
  PROVE  p \in Int /\ Top - p \in LiquidityTarget(Turned(d), Analyze(ds), y, m)
<1> DEFINE e == Turned(d)
           A == Analyze(cs)
           M == Analyze(ds)
<1>1. /\ Top \in Int /\ Mirrors(ds, cs) /\ Flipped(y, x) /\ e \in TradeDirections /\ Turned(e) = d
      /\ e = "long" <=> d # "long"
  BY MirrorsBack, FlippedBack DEF Mirrors, Turned, TradeDirections
<1>2. /\ p \in SwingPrices(d, A, x) /\ BeyondEntry(d, z, p)
      /\ \A q \in SwingPrices(d, A, x) :
           BeyondEntry(d, z, q) => IF d = "long" THEN p <= q ELSE p >= q
  BY DEF LiquidityTarget
<1>3. ASSUME NEW q \in Int PROVE BeyondEntry(e, m, Top - q) <=> BeyondEntry(d, z, q)
  BY <1>1, <1>3 DEF BeyondEntry
<1>4. p \in Int /\ Top - p \in SwingPrices(e, M, y)
  BY <1>2, SwingPricesMirror
<1>5. ASSUME NEW q \in SwingPrices(e, M, y), BeyondEntry(e, m, q)
      PROVE  IF e = "long" THEN Top - p <= q ELSE Top - p >= q
  <2>1. q \in Int /\ Top - q \in SwingPrices(d, A, x)
    BY <1>1, SwingPricesMirror
  <2>2. Top - (Top - q) = q /\ Top - q \in Int
    BY <1>1, <2>1
  <2>3. BeyondEntry(d, z, Top - q)
    BY <1>3, <1>5, <2>2
  <2>4. IF d = "long" THEN p <= Top - q ELSE p >= Top - q
    BY <1>2, <2>1, <2>3
  <2> HIDE DEF e
  <2>5. QED BY <1>1, <1>4, <2>1, <2>4
<1> HIDE DEF e
<1>6. Top - p \in LiquidityTarget(e, M, y, m)
  BY <1>2, <1>3, <1>4, <1>5 DEF LiquidityTarget
<1>7. QED BY <1>4, <1>6 DEF e

-----------------------------------------------------------------------------
(* What is awarded and what suppresses.                                    *)
NewestBreak(cs, direction, i) ==
  HasBreak(cs, direction, i) /\ \A j : HasBreak(cs, direction, j) => j <= i

LEMMA SetupBreakIs ==
  ASSUME NEW cs, NEW d
  PROVE  /\ SetupBreak(d, Analyze(cs)) # {} <=> \E i : NewestBreak(cs, SmcDirection(d), i)
         /\ Displaced(d, Analyze(cs)) <=> \E i : /\ NewestBreak(cs, SmcDirection(d), i)
                                                 /\ HasDisplacement(cs, SmcDirection(d), i)
         /\ Swept(d, Analyze(cs)) <=> HasSweep(cs, SmcDirection(d))
<1> DEFINE A == Analyze(cs)
           direction == SmcDirection(d)
<1>1. \A b : b \in SetupBreak(d, A) <=> /\ b \in A.breaks /\ b.direction = direction
                                        /\ \A e \in A.breaks : e.direction = direction => e.index <= b.index
  BY DEF SetupBreak
<1>2. ASSUME NEW b \in SetupBreak(d, A) PROVE NewestBreak(cs, direction, b.index)
  BY <1>1 DEF NewestBreak, HasBreak
<1>3. ASSUME NEW i, NewestBreak(cs, direction, i)
      PROVE  \E b \in SetupBreak(d, A) : b.index = i
  <2>1. PICK b \in A.breaks : b.direction = direction /\ b.index = i
    BY <1>3 DEF NewestBreak, HasBreak
  <2>2. \A e \in A.breaks : e.direction = direction => e.index <= b.index
    BY <1>3, <2>1 DEF NewestBreak, HasBreak
  <2>3. QED BY <1>1, <2>1, <2>2
<1>4. SetupBreak(d, A) # {} <=> \E i : NewestBreak(cs, direction, i)
  BY <1>2, <1>3
<1>5. Displaced(d, A) <=> \E b \in SetupBreak(d, A) : HasDisplacement(cs, direction, b.index)
  BY DEF Displaced, HasDisplacement
<1>6. Displaced(d, A) <=> \E i : NewestBreak(cs, direction, i) /\ HasDisplacement(cs, direction, i)
  BY <1>2, <1>3, <1>5
<1>7. Swept(d, A) <=> HasSweep(cs, direction)
  BY DEF Swept, HasSweep
<1>8. QED BY <1>4, <1>6, <1>7

LEMMA DirectionsTurn ==
  ASSUME NEW d \in TradeDirections
  PROVE  /\ Turned(d) \in TradeDirections /\ Turned(Turned(d)) = d
         /\ SmcDirection(d) \in {"bullish", "bearish"} /\ SmcDirection(Turned(d)) = Opposite(SmcDirection(d))
         /\ Opposite(SmcDirection(d)) \in {"bullish", "bearish"}
  BY DEF Turned, TradeDirections, SmcDirection, Opposite

LEMMA SetupsMirror ==
  ASSUME NEW cs, NEW ds, Mirrors(cs, ds), NEW d \in TradeDirections
  PROVE  /\ SetupBreak(Turned(d), Analyze(ds)) # {} <=> SetupBreak(d, Analyze(cs)) # {}
         /\ Displaced(Turned(d), Analyze(ds)) <=> Displaced(d, Analyze(cs))
         /\ Swept(Turned(d), Analyze(ds)) <=> Swept(d, Analyze(cs))
         /\ EntryZone(Turned(d), Analyze(ds)) # {} <=> EntryZone(d, Analyze(cs)) # {}
<1> DEFINE direction == SmcDirection(d)
<1>1. direction \in {"bullish", "bearish"} /\ SmcDirection(Turned(d)) = Opposite(direction)
  BY DirectionsTurn
<1> HIDE DEF direction
<1>2. \A i : NewestBreak(ds, Opposite(direction), i) <=> NewestBreak(cs, direction, i)
  BY <1>1, EventsMirror DEF NewestBreak
<1>3. /\ SetupBreak(Turned(d), Analyze(ds)) # {} <=> SetupBreak(d, Analyze(cs)) # {}
      /\ Displaced(Turned(d), Analyze(ds)) <=> Displaced(d, Analyze(cs))
      /\ Swept(Turned(d), Analyze(ds)) <=> Swept(d, Analyze(cs))
  BY <1>1, <1>2, EventsMirror, SetupBreakIs DEF direction
<1>4. ASSUME NEW z \in EntryZone(d, Analyze(cs)) PROVE EntryZone(Turned(d), Analyze(ds)) # {}
  BY EntryZoneMirrors
<1>5. ASSUME NEW z \in EntryZone(Turned(d), Analyze(ds)) PROVE EntryZone(d, Analyze(cs)) # {}
  <2>1. Mirrors(ds, cs) /\ Turned(d) \in TradeDirections /\ Turned(Turned(d)) = d
    BY MirrorsBack, DirectionsTurn
  <2>2. ZoneMirror(z) \in EntryZone(Turned(Turned(d)), Analyze(cs))
    BY <2>1, EntryZoneMirrors
  <2>3. QED BY <2>1, <2>2
<1>6. QED BY <1>3, <1>4, <1>5

LEMMA AlignmentFlips ==
  ASSUME NEW x, NEW y, Flipped(x, y), NEW d \in TradeDirections
  PROVE  /\ Aligned(Turned(d), y) = Aligned(d, x) /\ Opposing(Turned(d), y) = Opposing(d, x)
         /\ {k \in {"volume", "interest"} : y[k]} = {k \in {"volume", "interest"} : x[k]}
         /\ DesiredLocation(Turned(d)) \in y.locations <=> DesiredLocation(d) \in x.locations
         /\ Turned(d) \notin y.crowded /\ ~y.abnormal <=> d \notin x.crowded /\ ~x.abnormal
         /\ SmcDirection(Turned(d)) \notin y.confirmed <=> SmcDirection(d) \notin x.confirmed
<1> DEFINE direction == SmcDirection(d)
           other == Opposite(direction)
<1>1. /\ direction \in {"bullish", "bearish"} /\ other \in {"bullish", "bearish"}
      /\ SmcDirection(Turned(d)) = other /\ Opposite(other) = direction
  BY DEF Turned, TradeDirections, SmcDirection, Opposite
<1> HIDE DEF direction, other
<1>2. /\ y.h4 = other <=> x.h4 = direction
      /\ y.h1 = other <=> x.h1 = direction
      /\ y.h4 = direction <=> x.h4 = other
      /\ y.h1 = direction <=> x.h1 = other
      /\ other \in y.confirmed <=> direction \in x.confirmed
  BY <1>1 DEF Flipped, other
<1>3. \A t \in {"h4", "h1"} : (y[t] = other <=> x[t] = direction) /\ (y[t] = direction <=> x[t] = other)
  BY <1>2
<1>4. Aligned(Turned(d), y) = Aligned(d, x)
  BY <1>1, <1>3 DEF Aligned, direction
<1>5. Opposing(Turned(d), y) = Opposing(d, x)
  BY <1>1, <1>3 DEF Opposing, direction, other
<1>6. {k \in {"volume", "interest"} : y[k]} = {k \in {"volume", "interest"} : x[k]}
  BY DEF Flipped
<1>7. DesiredLocation(Turned(d)) \in y.locations <=> DesiredLocation(d) \in x.locations
  BY DEF Flipped, DesiredLocation, Turned, TradeDirections
<1>8. Turned(d) \notin y.crowded /\ ~y.abnormal <=> d \notin x.crowded /\ ~x.abnormal
  BY DEF Flipped
<1>9. SmcDirection(Turned(d)) \notin y.confirmed <=> SmcDirection(d) \notin x.confirmed
  BY <1>1, <1>2 DEF direction
<1>10. QED BY <1>4, <1>5, <1>6, <1>7, <1>8, <1>9

LEMMA ScoresMirror ==
  ASSUME NEW cs, NEW ds, Mirrors(cs, ds), NEW x, NEW y, Flipped(x, y), NEW d \in TradeDirections
  PROVE  Score(Turned(d), Analyze(ds), y) = Score(d, Analyze(cs), x)
<1> DEFINE e == Turned(d)
           A == Analyze(cs)
           M == Analyze(ds)
<1>1. /\ Aligned(e, y) = Aligned(d, x) /\ Opposing(e, y) = Opposing(d, x)
      /\ {k \in {"volume", "interest"} : y[k]} = {k \in {"volume", "interest"} : x[k]}
      /\ DesiredLocation(e) \in y.locations <=> DesiredLocation(d) \in x.locations
      /\ e \notin y.crowded /\ ~y.abnormal <=> d \notin x.crowded /\ ~x.abnormal
  BY AlignmentFlips
<1>2. /\ SetupBreak(e, M) # {} <=> SetupBreak(d, A) # {}
      /\ Displaced(e, M) <=> Displaced(d, A)
      /\ Swept(e, M) <=> Swept(d, A)
      /\ EntryZone(e, M) # {} <=> EntryZone(d, A) # {}
  BY SetupsMirror
<1> HIDE DEF e, A, M
<1>3. QED BY <1>1, <1>2 DEF Score, e, A, M

LEMMA SuppressionsMirror ==
  ASSUME NEW cs, NEW ds, Mirrors(cs, ds), NEW x, NEW y, Flipped(x, y), NEW d \in TradeDirections
  PROVE  Suppressed(d, Analyze(cs), x) => Suppressed(Turned(d), Analyze(ds), y)
<1> DEFINE e == Turned(d)
           A == Analyze(cs)
           M == Analyze(ds)
<1>1. /\ Opposing(e, y) = Opposing(d, x)
      /\ SmcDirection(e) \notin y.confirmed <=> SmcDirection(d) \notin x.confirmed
  BY AlignmentFlips
<1>2. Displaced(e, M) <=> Displaced(d, A)
  BY SetupsMirror
<1>3. Score(e, M, y) = Score(d, A, x) /\ y.filtered = x.filtered
  BY ScoresMirror DEF Flipped
<1>4. ASSUME NEW z \in EntryZone(e, M), Retested(z, y)
      PROVE  \E m \in EntryZone(d, A) : Retested(m, x)
  <2>1. Mirrors(ds, cs) /\ e \in TradeDirections /\ Turned(e) = d /\ ds \in Seq(Candles)
    BY MirrorsBack, DirectionsTurn DEF Mirrors
  <2> DEFINE m == ZoneMirror(z)
  <2>2. m \in EntryZone(d, A)
    BY <2>1, EntryZoneMirrors
  <2>3. /\ z.lower \in Int /\ z.upper \in Int /\ Top \in Int /\ x.price \in Int
        /\ y.price = Top - x.price
    BY <2>1, EntryPrices DEF Flipped, TypedContexts
  <2>4. m.lower = Top - z.upper /\ m.upper = Top - z.lower /\ m.status = z.status
    BY DEF ZoneMirror
  <2> HIDE DEF m
  <2>5. Retested(m, x)
    BY <1>4, <2>3, <2>4 DEF Retested
  <2>6. QED BY <2>2, <2>5
<1> HIDE DEF e, A, M
<1>5. QED BY <1>1, <1>2, <1>3, <1>4 DEF Suppressed, e, A, M

LEMMA JudgementMirrors ==
  ASSUME NEW cs, NEW ds, Mirrors(cs, ds), NEW x, NEW y, Flipped(x, y), NEW d \in TradeDirections
  PROVE  Judgement(Turned(d), Analyze(ds), y) = MirroredJudgement(Judgement(d, Analyze(cs), x))
<1> DEFINE e == Turned(d)
           A == Analyze(cs)
           M == Analyze(ds)
           E == EntryZone(d, A)
           F == EntryZone(e, M)
           zones == {{z.lower, z.upper} : z \in E}
           targets == UNION {LiquidityTarget(d, A, x, z) : z \in E}
<1>1. /\ Mirrors(ds, cs) /\ Flipped(y, x) /\ e \in TradeDirections /\ Turned(e) = d
      /\ cs \in Seq(Candles) /\ ds \in Seq(Candles) /\ Top \in Int
  BY MirrorsBack, FlippedBack, DirectionsTurn DEF Mirrors
<1>2. \A z \in E : ZoneMirror(z) \in F /\ z.lower \in Int /\ z.upper \in Int
  BY <1>1, EntryZoneMirrors, EntryPrices
<1>3. \A z \in F : ZoneMirror(z) \in E /\ z.lower \in Int /\ z.upper \in Int
  BY <1>1, EntryZoneMirrors, EntryPrices
<1>4. \A z : ZoneMirror(z).lower = Top - z.upper /\ ZoneMirror(z).upper = Top - z.lower
  BY DEF ZoneMirror
<1>5. Score(e, M, y) = Score(d, A, x)
  BY ScoresMirror
<1>6. Suppressed(e, M, y) = Suppressed(d, A, x)
  <2>1. Suppressed(d, A, x) => Suppressed(e, M, y)
    BY SuppressionsMirror
  <2>2. Suppressed(e, M, y) => Suppressed(d, A, x)
    BY <1>1, SuppressionsMirror
  <2>3. QED BY <2>1, <2>2 DEF Suppressed
<1>7. ASSUME NEW z \in E, NEW p \in LiquidityTarget(d, A, x, z)
      PROVE  p \in Int /\ Top - p \in LiquidityTarget(e, M, y, ZoneMirror(z))
  BY <1>2, <1>4, TargetsMirror
<1>8. ASSUME NEW z \in F, NEW p \in LiquidityTarget(e, M, y, z)
      PROVE  p \in Int /\ Top - p \in LiquidityTarget(d, A, x, ZoneMirror(z))
  BY <1>1, <1>3, <1>4, TargetsMirror
<1> HIDE DEF A, M, E, F, e
<1>9. {{z.lower, z.upper} : z \in F} = {{Top - p : p \in pair} : pair \in zones}
  <2>1. ASSUME NEW z \in F PROVE {z.lower, z.upper} \in {{Top - p : p \in pair} : pair \in zones}
    <3> DEFINE m == ZoneMirror(z)
    <3>1. m \in E /\ Top - m.lower = z.upper /\ Top - m.upper = z.lower
      BY <1>1, <1>3, <1>4
    <3> HIDE DEF m
    <3>2. {m.lower, m.upper} \in zones
      BY <3>1
    <3>3. {Top - p : p \in {m.lower, m.upper}} = {z.lower, z.upper}
      BY <3>1
    <3> HIDE DEF zones
    <3>4. QED BY <3>2, <3>3
  <2>2. ASSUME NEW pair \in zones PROVE {Top - p : p \in pair} \in {{z.lower, z.upper} : z \in F}
    <3>1. PICK z \in E : pair = {z.lower, z.upper}
      OBVIOUS
    <3>2. ZoneMirror(z) \in F /\ ZoneMirror(z).lower = Top - z.upper /\ ZoneMirror(z).upper = Top - z.lower
      BY <1>2, <1>4
    <3>3. {Top - p : p \in pair} = {ZoneMirror(z).lower, ZoneMirror(z).upper}
      BY <3>1, <3>2
    <3>4. QED BY <3>2, <3>3
  <2> HIDE DEF zones
  <2>3. QED BY <2>1, <2>2
<1>10. UNION {LiquidityTarget(e, M, y, z) : z \in F} = {Top - p : p \in targets}
  <2>1. ASSUME NEW z \in F, NEW q \in LiquidityTarget(e, M, y, z) PROVE q \in {Top - p : p \in targets}
    <3>1. q \in Int /\ Top - q \in targets
      BY <1>3, <1>8
    <3>2. Top - (Top - q) = q
      BY <1>1, <3>1
    <3> HIDE DEF targets
    <3>3. QED BY <3>1, <3>2
  <2>2. ASSUME NEW p \in targets PROVE Top - p \in UNION {LiquidityTarget(e, M, y, z) : z \in F}
    <3>1. PICK z \in E : p \in LiquidityTarget(d, A, x, z)
      OBVIOUS
    <3>2. Top - p \in LiquidityTarget(e, M, y, ZoneMirror(z)) /\ ZoneMirror(z) \in F
      BY <1>2, <1>7, <3>1
    <3>3. QED BY <3>2
  <2> HIDE DEF targets
  <2>3. QED BY <2>1, <2>2
<1>11. Judgement(d, A, x) = [suppressed |-> Suppressed(d, A, x), score |-> Score(d, A, x),
                             zones |-> zones, targets |-> targets]
  BY DEF Judgement, E
<1>12. Judgement(e, M, y) = [suppressed |-> Suppressed(e, M, y), score |-> Score(e, M, y),
                             zones |-> {{z.lower, z.upper} : z \in F},
                             targets |-> UNION {LiquidityTarget(e, M, y, z) : z \in F}]
  BY DEF Judgement, F
<1> HIDE DEF zones, targets
<1> DEFINE J == Judgement(d, A, x)
<1>13. J.suppressed = Suppressed(d, A, x) /\ J.score = Score(d, A, x) /\ J.zones = zones /\ J.targets = targets
  BY <1>11
<1> HIDE DEF J
<1>14. MirroredJudgement(J) =
         [suppressed |-> Suppressed(d, A, x), score |-> Score(d, A, x),
          zones |-> {{Top - p : p \in pair} : pair \in zones}, targets |-> {Top - p : p \in targets}]
  BY <1>13 DEF MirroredJudgement
<1>15. QED BY <1>5, <1>6, <1>9, <1>10, <1>12, <1>14 DEF J, e, A, M

(* Prices that have a bound have a highest one. *)
BoundedShapes == \E bound \in Nat : \A c \in Shapes : c.high <= bound

LEMMA TopIsPrice ==
  ASSUME BoundedShapes, Shapes # {}
  PROVE  Top \in Int
<1> DEFINE H == {c.high : c \in Shapes}
           R == OpToRel(<, Nat)
<1>1. PICK bound \in Nat : \A c \in Shapes : c.high <= bound
  BY DEF BoundedShapes
<1> DEFINE T == {bound - h : h \in H}
<1>2. H \subseteq Nat /\ H # {} /\ \A h \in H : h <= bound
  BY <1>1, StructureAssumption
<1> HIDE DEF H
<1>3. T \subseteq Nat /\ T # {}
  <2>1. \A h \in H : bound - h \in Nat
    BY <1>2
  <2>2. QED BY <1>2, <2>1
<1> HIDE DEF T
<1>4. PICK t \in T : \A u \in T : ~(<<u, t>> \in R)
  BY <1>3, NatLessThanWellFounded, WFMin
<1>5. \A u, v \in Nat : <<u, v>> \in R <=> u < v
  BY DEF OpToRel
<1> HIDE DEF R
<1>6. PICK h \in H : t = bound - h
  BY DEF T
<1>7. ASSUME NEW g \in H PROVE h >= g
  <2>1. bound - g \in T /\ bound - g \in Nat /\ t \in Nat /\ h \in Nat /\ g \in Nat
    BY <1>2, <1>3 DEF T
  <2>2. ~(bound - g < t)
    BY <1>4, <1>5, <2>1
  <2>3. QED BY <1>6, <2>1, <2>2
<1>8. Top = Max(H)
  BY DEF Top, H
<1>9. Top \in H
  BY <1>7, <1>8 DEF Max
<1>10. QED BY <1>2, <1>9

(* In the market turned upside down a long is a short of the same score,   *)
(* suppressed alike, with the mirrored zone and target: through every      *)
(* detector and the evaluation (docs/strategy.md: mirrored rules).         *)
THEOREM RulesAreMirrored ==
  ASSUME BoundedShapes
  PROVE  EvaluationSpec => []MirroredRules
<1>1. StructureInvariant => MirroredRules
  <2> SUFFICES ASSUME StructureInvariant, NEW x \in Contexts, NEW d \in TradeDirections
               PROVE  Judgement(Turned(d), Analyze(MirroredSeries(Loaded(closed))), MirroredContext(x))
                        = MirroredJudgement(Judgement(d, recent, x))
    BY DEF MirroredRules
  <2>1. closed \in Seq(Candles) /\ closed # <<>> /\ recent = Analyze(Loaded(closed)) /\ Shapes # {}
    BY ShapesAreCandles DEF StructureInvariant
  <2>2. Loaded(closed) \in Seq(Candles)
    BY <2>1, LoadedFacts DEF Window
  <2>3. Top \in Int
    BY <2>1, TopIsPrice
  <2>4. Mirrors(Loaded(closed), MirroredSeries(Loaded(closed)))
    BY <2>2, <2>3, SeriesMirrors
  <2>5. x \in TypedContexts
    BY EvaluationAssumption
  <2>6. Flipped(x, MirroredContext(x))
    BY <2>3, <2>5, ContextFlips
  <2>7. Judgement(Turned(d), Analyze(MirroredSeries(Loaded(closed))), MirroredContext(x))
          = MirroredJudgement(Judgement(d, Analyze(Loaded(closed)), x))
    BY <2>4, <2>6, JudgementMirrors
  <2>8. QED BY <2>1, <2>7
<1>2. QED BY <1>1, StructureInvariantHolds, PTL
=============================================================================
