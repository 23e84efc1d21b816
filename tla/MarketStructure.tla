--------------------------- MODULE MarketStructure ---------------------------
(***************************************************************************)
(* The detectors of smc_core and analyze, which runs them all over a       *)
(* series of closed candles, as the worker calls it: again after every     *)
(* candle, over the last HistoryCandles of them (load_candles).            *)
(*                                                                         *)
(* Candles are counted from 1. Prices are integers; an average is a        *)
(* fraction, and a ratio of the configuration is given in tenths, so that  *)
(* every comparison is exact.                                              *)
(***************************************************************************)
EXTENDS Integers, Sequences, FiniteSets, FiniteSetsExt

CONSTANTS
  Shapes,              \* candles that may close: [open, high, low, close]
  MaxCandles,          \* bound of the model: candles that close
  HistoryCandles,      \* most candles the worker loads
  SwingLookback, AtrPeriod, RangeAveragePeriod,
  EqualLevelTenths, EqualLevelSeparation, FvgTenths,
  BodyTenths, RangeTenths, CloseTenths, SearchLookback

ASSUME StructureAssumption ==
  /\ Shapes \subseteq [open : Nat, high : Nat, low : Nat, close : Nat]
  /\ \A c \in Shapes : {c.open, c.close} \subseteq c.low..c.high
  /\ {MaxCandles, HistoryCandles, SwingLookback, AtrPeriod, RangeAveragePeriod,
      EqualLevelSeparation, SearchLookback} \subseteq Nat \ {0}
  /\ {EqualLevelTenths, FvgTenths, BodyTenths, RangeTenths, CloseTenths} \subseteq Nat

VARIABLES
  closed,   \* every candle of the symbol and timeframe so far
  whole,    \* analyze of all of them
  recent    \* analyze of the ones the worker loads

structureVars == <<closed, whole, recent>>

RangeSize(c) == c.high - c.low
BodySize(c) == IF c.close > c.open THEN c.close - c.open ELSE c.open - c.close
Direction(c) ==
  IF c.close > c.open THEN "bullish" ELSE IF c.close < c.open THEN "bearish" ELSE "none"

Distance(a, b) == IF a < b THEN b - a ELSE a - b
Sums(f, n) == LET sum[k \in 0..n] == IF k = 0 THEN 0 ELSE sum[k - 1] + f[k] IN sum

-----------------------------------------------------------------------------
(* statistics.py: averages by candle, defined from the first full period.  *)
TrueRanges(cs) ==
  [i \in DOMAIN cs |->
     IF i = 1 THEN RangeSize(cs[1])
     ELSE Max({RangeSize(cs[i]), Distance(cs[i].high, cs[i - 1].close),
                    Distance(cs[i].low, cs[i - 1].close)})]

AverageTrueRange(cs) ==
  LET ranges == TrueRanges(cs)
      atr[i \in AtrPeriod..Len(cs)] ==
        IF i = AtrPeriod THEN [num |-> Sums(ranges, AtrPeriod)[AtrPeriod], den |-> AtrPeriod]
        ELSE LET before == atr[i - 1]
             IN  [num |-> before.num * (AtrPeriod - 1) + ranges[i] * before.den,
                  den |-> before.den * AtrPeriod]
  IN  atr

RollingMean(cs) ==
  LET sums == Sums([i \in DOMAIN cs |-> RangeSize(cs[i])], Len(cs))
  IN  [i \in RangeAveragePeriod..Len(cs) |->
         [num |-> sums[i] - sums[i - RangeAveragePeriod], den |-> RangeAveragePeriod]]

(* size >= average * tenths / 10                                           *)
AtLeast(size, average, tenths) == 10 * size * average.den >= tenths * average.num
AtMost(size, average, tenths) == 10 * size * average.den <= tenths * average.num

-----------------------------------------------------------------------------
(* detect_swings: strict extrema, known once their right window is closed. *)
Swing(kind, i, price) == [kind |-> kind, index |-> i, confirmed |-> i + SwingLookback,
                          price |-> price]

(* Faulty variant: the right window may still be open. *)
InnerNotYetClosed(cs) == (SwingLookback + 1)..Len(cs)
(* Faulty variant: a left window that starts before the series will do. *)
InnerFromFirst(cs) == 1..(Len(cs) - SwingLookback)
Inner(cs) == (SwingLookback + 1)..(Len(cs) - SwingLookback)

Neighbours(cs, i) == ((i - SwingLookback)..(i + SwingLookback) \ {i}) \cap DOMAIN cs

DetectSwings(cs) ==
  {Swing("high", i, cs[i].high) : i \in {j \in Inner(cs) :
      \A k \in Neighbours(cs, j) : cs[j].high > cs[k].high}}
  \cup
  {Swing("low", i, cs[i].low) : i \in {j \in Inner(cs) :
      \A k \in Neighbours(cs, j) : cs[j].low < cs[k].low}}

(* The swing of a kind that candle i may break or sweep: the set of the    *)
(* one made available by the candle before, or of the one at hand.         *)
Latest(kind, i, swings, before) ==
  LET new == {s \in swings : s.kind = kind /\ s.confirmed + 1 = i}
  IN  IF new # {} THEN new ELSE before

-----------------------------------------------------------------------------
(* detect_structure_breaks                                                 *)
Break(trend, direction, i, swing) ==
  [kind |-> IF trend \notin {"none", direction} THEN "choch" ELSE "bos",
   direction |-> direction, index |-> i, swing |-> swing]

(* Faulty variant: the low that is broken stays. *)
LowKept(low) == low
LowBroken(low) == {}

Scan(before, i, c, swings) ==
  LET high == Latest("high", i, swings, before.high)
      low  == Latest("low", i, swings, before.low)
  IN  CASE \E s \in high : c.close > s.price ->
             [high |-> {}, low |-> low, trend |-> "bullish",
              breaks |-> before.breaks \cup
                         {Break(before.trend, "bullish", i, s) : s \in high}]
        [] ~(\E s \in high : c.close > s.price) /\ (\E s \in low : c.close < s.price) ->
             [high |-> high, low |-> LowBroken(low), trend |-> "bearish",
              breaks |-> before.breaks \cup
                         {Break(before.trend, "bearish", i, s) : s \in low}]
        [] OTHER -> [high |-> high, low |-> low, trend |-> before.trend,
                     breaks |-> before.breaks]

BreakScan(cs, swings) ==
  LET scan[i \in 0..Len(cs)] ==
        IF i = 0 THEN [high |-> {}, low |-> {}, trend |-> "none", breaks |-> {}]
        ELSE Scan(scan[i - 1], i, cs[i], swings)
  IN  scan

DetectStructureBreaks(cs, swings) == BreakScan(cs, swings)[Len(cs)].breaks

-----------------------------------------------------------------------------
(* detect_liquidity_sweeps: a wick beyond a swing, a close back inside.    *)
Sweep(direction, i, swing) == [direction |-> direction, index |-> i, swing |-> swing]

SweepScan(before, i, c, swings) ==
  LET high  == Latest("high", i, swings, before.high)
      low   == Latest("low", i, swings, before.low)
      above == {s \in high : c.high > s.price /\ s.price > c.close}
      below == {s \in low : c.low < s.price /\ s.price < c.close}
  IN  [high |-> high \ above, low |-> low \ below,
       sweeps |-> before.sweeps \cup {Sweep("bearish", i, s) : s \in above}
                                \cup {Sweep("bullish", i, s) : s \in below}]

SweepScans(cs, swings) ==
  LET scan[i \in 0..Len(cs)] ==
        IF i = 0 THEN [high |-> {}, low |-> {}, sweeps |-> {}]
        ELSE SweepScan(scan[i - 1], i, cs[i], swings)
  IN  scan

DetectLiquiditySweeps(cs, swings) == SweepScans(cs, swings)[Len(cs)].sweeps

(* detect_equal_levels: consecutive swings of a kind at about one price.   *)
Consecutive(swings, a, b) ==
  /\ a.kind = b.kind /\ a.index < b.index
  /\ ~\E s \in swings : s.kind = a.kind /\ a.index < s.index /\ s.index < b.index

DetectEqualLevels(swings, atr) ==
  {p \in swings \X swings :
     /\ Consecutive(swings, p[1], p[2])
     /\ p[2].index - p[1].index <= EqualLevelSeparation
     /\ p[2].confirmed \in DOMAIN atr
     /\ AtMost(Distance(p[1].price, p[2].price), atr[p[2].confirmed], EqualLevelTenths)}

-----------------------------------------------------------------------------
(* detect_displacements                                                    *)
ClosesNearExtreme(c) ==
  LET reached == IF Direction(c) = "bullish" THEN c.close - c.low ELSE c.high - c.close
  IN  10 * reached >= CloseTenths * RangeSize(c)

DetectDisplacements(cs, atr) ==
  LET mean == RollingMean(cs)
  IN  {[direction |-> Direction(cs[i]), index |-> i] :
         i \in {j \in DOMAIN atr \cap DOMAIN mean :
                  /\ Direction(cs[j]) # "none" /\ RangeSize(cs[j]) # 0
                  /\ AtLeast(BodySize(cs[j]), atr[j], BodyTenths)
                  /\ AtLeast(RangeSize(cs[j]), mean[j], RangeTenths)
                  /\ ClosesNearExtreme(cs[j])}}

-----------------------------------------------------------------------------
(* Zones. A zone is traded back into (touched) and comes to an end; 0 is   *)
(* the index of what has not happened yet.                                 *)
FirstOf(S) == IF S = {} THEN 0 ELSE CHOOSE x \in S : \A y \in S : x <= y

Zone(direction, source, created, lower, upper, touches, ends, last) ==
  LET ended == FirstOf(ends)
      before == IF ended = 0 THEN touches ELSE {i \in touches : i <= ended}
  IN  [direction |-> direction, source |-> source, created |-> created,
       lower |-> lower, upper |-> upper,
       status |-> IF ended # 0 THEN last
                  ELSE IF before # {} THEN "partially_filled" ELSE "open",
       touched |-> FirstOf(before), ended |-> ended]

Later(cs, created) == (created + 1)..Len(cs)

(* _resolve_gap: wicks count.                                              *)
ResolveGap(cs, direction, i, lower, upper) ==
  LET bullish == direction = "bullish"
  IN  Zone(direction, i - 2, i, lower, upper,
           {j \in Later(cs, i) : IF bullish THEN cs[j].low < upper ELSE cs[j].high > lower},
           {j \in Later(cs, i) : IF bullish THEN cs[j].low <= lower ELSE cs[j].high >= upper},
           "filled")

DetectFairValueGaps(cs, atr) ==
  LET wide(i, size) == AtLeast(size, atr[i], FvgTenths)
      later == {i \in DOMAIN atr : i >= 3}
  IN  {ResolveGap(cs, "bullish", i, cs[i - 2].high, cs[i].low) :
         i \in {j \in later : /\ cs[j].low > cs[j - 2].high
                              /\ wide(j, cs[j].low - cs[j - 2].high)}}
      \cup
      {ResolveGap(cs, "bearish", i, cs[i].high, cs[i - 2].low) :
         i \in {j \in later : /\ cs[j].high < cs[j - 2].low
                              /\ wide(j, cs[j - 2].low - cs[j].high)}}

(* _resolve_order_block: only a close ends it, and the candle that ends    *)
(* it does not touch it.                                                   *)
(* Faulty variant: the newest candle alone decides. *)
ResolveOrderBlockByLastCandle(cs, direction, i, source) ==
  LET c == cs[source]
      bullish == direction = "bullish"
      newest == {Len(cs)} \cap Later(cs, i)
      ends == {j \in newest : IF bullish THEN cs[j].close < c.low ELSE cs[j].close > c.high}
  IN  Zone(direction, source, i, c.low, c.high,
           {j \in newest \ ends : IF bullish THEN cs[j].low <= c.high ELSE cs[j].high >= c.low},
           ends, "invalidated")

ResolveOrderBlock(cs, direction, i, source) ==
  LET c == cs[source]
      bullish == direction = "bullish"
      ends == {j \in Later(cs, i) :
                 IF bullish THEN cs[j].close < c.low ELSE cs[j].close > c.high}
  IN  Zone(direction, source, i, c.low, c.high,
           {j \in Later(cs, i) \ ends :
              IF bullish THEN cs[j].low <= c.high ELSE cs[j].high >= c.low},
           ends, "invalidated")

(* detect_order_blocks: the last opposite candle before a break that       *)
(* displaces; the first break to need a candle has it.                     *)
Opposite(direction) == IF direction = "bullish" THEN "bearish" ELSE "bullish"

Sources(cs, b) ==
  {j \in (b.index - SearchLookback)..(b.index - 1) \cap DOMAIN cs :
     Direction(cs[j]) = Opposite(b.direction)}

DetectOrderBlocks(cs, breaks, displacements) ==
  LET displacing == {b \in breaks :
                       /\ [direction |-> b.direction, index |-> b.index] \in displacements
                       /\ Sources(cs, b) # {}}
      source(b) == Max(Sources(cs, b))
      first(b) == \A e \in displacing :
                    e.direction = b.direction /\ source(e) = source(b) => b.index <= e.index
  IN  {ResolveOrderBlock(cs, b.direction, b.index, source(b)) : b \in {e \in displacing : first(e)}}

-----------------------------------------------------------------------------
(* ranges.py: the latest high and the latest low, unless they cross.       *)
Newest(kind, swings) ==
  {s \in swings : s.kind = kind /\ \A t \in swings : t.kind = kind => t.index <= s.index}

ActiveDealingRange(swings) ==
  {r \in Newest("low", swings) \X Newest("high", swings) : r[1].price < r[2].price}

ClassifyPrice(price, ranges) ==
  {LET middle == r[1].price + r[2].price
   IN  IF 2 * price < middle THEN "discount"
       ELSE IF 2 * price > middle THEN "premium" ELSE "equilibrium" : r \in ranges}

Analyze(cs) ==
  LET atr == AverageTrueRange(cs)
      swings == DetectSwings(cs)
      breaks == DetectStructureBreaks(cs, swings)
      displacements == DetectDisplacements(cs, atr)
      ranges == ActiveDealingRange(swings)
  IN  [atr |-> atr,
       swings |-> swings,
       breaks |-> breaks,
       sweeps |-> DetectLiquiditySweeps(cs, swings),
       levels |-> DetectEqualLevels(swings, atr),
       displacements |-> displacements,
       gaps |-> DetectFairValueGaps(cs, atr),
       blocks |-> DetectOrderBlocks(cs, breaks, displacements),
       location |-> ClassifyPrice(cs[Len(cs)].close, ranges)]

(* load_candles: the newest ones.                                          *)
Loaded(cs) == SubSeq(cs, Max({1, Len(cs) - HistoryCandles + 1}), Len(cs))

-----------------------------------------------------------------------------
StructureInit ==
  \E c \in Shapes :
    /\ closed = <<c>>
    /\ whole = Analyze(<<c>>) /\ recent = Analyze(<<c>>)

CandleAdded(c) ==
  /\ Len(closed) < MaxCandles
  /\ closed' = Append(closed, c)
  /\ whole' = Analyze(closed')
  /\ recent' = Analyze(Loaded(closed'))

StructureNext == \E c \in Shapes : CandleAdded(c)

StructureSpec == StructureInit /\ [][StructureNext]_structureVars

-----------------------------------------------------------------------------
(* docs/smc-core.md says what a break and a sweep are without a scan.      *)
LatestAt(i, s, swings) ==
  /\ s.confirmed < i
  /\ ~\E t \in swings : t.kind = s.kind /\ s.index < t.index /\ t.confirmed < i

ClosesBeyond(c, s) == IF s.kind = "high" THEN c.close > s.price ELSE c.close < s.price

SweepsOver(c, s) ==
  IF s.kind = "high" THEN c.high > s.price /\ s.price > c.close
  ELSE c.low < s.price /\ s.price < c.close

(* The candles that do P to s first, while it is the latest of its kind.   *)
FirstTo(P(_, _), cs, swings) ==
  {p \in (DOMAIN cs) \X swings :
     /\ LatestAt(p[1], p[2], swings) /\ P(cs[p[1]], p[2])
     /\ ~\E j \in (p[2].confirmed + 1)..(p[1] - 1) : P(cs[j], p[2])}

(* Every close beyond the latest unbroken swing is a break, and nothing    *)
(* else is: that detect_structure_breaks looks at the low only when the    *)
(* high was not broken hides none. A break against the last one is CHOCH.  *)
BreaksAsDocumented ==
  /\ {<<b.index, b.swing>> : b \in whole.breaks} = FirstTo(ClosesBeyond, closed, whole.swings)
  /\ \A b, e \in whole.breaks : b.index = e.index => b = e
  /\ \A b \in whole.breaks :
       LET before == {e \in whole.breaks : e.index < b.index}
       IN  (b.kind = "choch") <=>
             \E e \in before : /\ \A f \in before : f.index <= e.index
                               /\ e.direction # b.direction

(* A swing is swept by the first wick beyond it that closes inside, if no  *)
(* newer swing replaced it, and never twice (detect_liquidity_sweeps).     *)
SweepsAsDocumented ==
  {<<e.index, e.swing>> : e \in whole.sweeps} = FirstTo(SweepsOver, closed, whole.swings)

(* The two scans find what docs/smc-core.md describes, and nothing else.   *)
DetectorsAsDocumented == BreaksAsDocumented /\ SweepsAsDocumented

(* docs/requirements.md: structural decisions are based on closed candles. *)
(* A further candle revises nothing that was reported: every event of the  *)
(* next analysis is an old one or one of the new candle.                   *)
Origins(zones) == {[direction |-> z.direction, source |-> z.source, created |-> z.created,
                    lower |-> z.lower, upper |-> z.upper] : z \in zones}

NothingIsRevised ==
  [][LET n == Len(closed)
     IN  /\ whole.swings = {s \in whole'.swings : s.confirmed <= n}
         /\ whole.breaks = {b \in whole'.breaks : b.index <= n}
         /\ whole.sweeps = {e \in whole'.sweeps : e.index <= n}
         /\ whole.levels = {p \in whole'.levels : p[2].confirmed <= n}
         /\ whole.displacements = {d \in whole'.displacements : d.index <= n}
         /\ Origins(whole.gaps) = {o \in Origins(whole'.gaps) : o.created <= n}
         /\ Origins(whole.blocks) = {o \in Origins(whole'.blocks) : o.created <= n}]_structureVars

(* A zone only ages: what has touched or ended it stays, and a zone that   *)
(* is filled or invalidated is not traded again (_resolve_gap,             *)
(* _resolve_order_block, computed anew for every analysis).                *)
Ages(z, later) ==
  /\ Origins({z}) = Origins({later})
  /\ \/ later = z
     \/ /\ z.ended = 0
        /\ z.touched \in {0, later.touched}
        /\ later.ended # 0 \/ later.status = "partially_filled"

ZonesOnlyAge ==
  [][/\ \A z \in whole.gaps : \E later \in whole'.gaps : Ages(z, later)
     /\ \A z \in whole.blocks : \E later \in whole'.blocks : Ages(z, later)]_structureVars

(* The worker forgets the oldest candles. What it then still reports are   *)
(* the breaks and sweeps the whole history has, of every swing whose       *)
(* window it still sees (load_candles, strategy_history_candles). Only the *)
(* trend before the first of them is forgotten, so BOS and CHOCH may       *)
(* differ.                                                                 *)
Hit(events, offset, oldest) ==
  {[direction |-> e.direction, index |-> e.index + offset,
    swing |-> e.swing.index + offset] :
     e \in {x \in events : x.swing.index + offset > oldest}}

WindowSeesTheSame ==
  LET offset == Len(closed) - Len(Loaded(closed))
      oldest == offset + SwingLookback
  IN  /\ Hit(recent.breaks, offset, 0) = Hit(whole.breaks, 0, oldest)
      /\ Hit(recent.sweeps, offset, 0) = Hit(whole.sweeps, 0, oldest)
=============================================================================
