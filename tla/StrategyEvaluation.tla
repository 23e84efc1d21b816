-------------------------- MODULE StrategyEvaluation --------------------------
(***************************************************************************)
(* evaluate_candidates (strategy/evaluator.py) over what MarketStructure   *)
(* finds in the 15m candles: both directions are scored, checked against   *)
(* the conditions that suppress them and given a trade plan.               *)
(*                                                                         *)
(* A context is what the evaluator takes from elsewhere: the newest break  *)
(* direction of 4h and 1h, the locations of the price there, the 1h swing  *)
(* prices, the directions 5m has a break in, the price, and the outcome of *)
(* the market filters (turnover, spread, volatility), of the volume and    *)
(* open interest ratios, of the crowded funding and of the BTC condition.  *)
(***************************************************************************)
EXTENDS MarketStructure, TradePlan

CONSTANTS
  Contexts, MinimumScore

Trends == {"none", "bullish", "bearish"}

(* Contexts, with prices of either sign. *)
TypedContexts ==
  [h4 : Trends, h1 : Trends, locations : SUBSET {"premium", "discount", "equilibrium"},
   highs : SUBSET Int, lows : SUBSET Int, price : Int,
   confirmed : SUBSET {"bullish", "bearish"}, crowded : SUBSET {"long", "short"},
   filtered : BOOLEAN, volume : BOOLEAN, interest : BOOLEAN, abnormal : BOOLEAN]

ASSUME EvaluationAssumption ==
  /\ MinimumScore \in 0..100
  /\ Contexts \subseteq TypedContexts
  /\ \A x \in Contexts : x.highs \cup x.lows \cup {x.price} \subseteq Nat

VARIABLE accepted    \* candidates the newest analysis accepted

evaluationVars == <<structureVars, accepted>>

TradeDirections == {"long", "short"}
SmcDirection(d) == IF d = "long" THEN "bullish" ELSE "bearish"
DesiredLocation(d) == IF d = "long" THEN "discount" ELSE "premium"

Weights == [alignment |-> 20, sweep |-> 20, structure |-> 20, zone |-> 15,
            location |-> 10, market |-> 10, condition |-> 5]

-----------------------------------------------------------------------------
Aligned(d, x) == {t \in {"h4", "h1"} : x[t] = SmcDirection(d)}
Opposing(d, x) == {t \in {"h4", "h1"} : x[t] = Opposite(SmcDirection(d))}

Swept(d, analysis) == \E e \in analysis.sweeps : e.direction = SmcDirection(d)

(* The newest 15m break in the direction, whatever came after it.          *)
SetupBreak(d, analysis) ==
  LET same == {b \in analysis.breaks : b.direction = SmcDirection(d)}
  IN  {b \in same : \A e \in same : e.index <= b.index}

Displaced(d, analysis) ==
  \E b \in SetupBreak(d, analysis) :
    [direction |-> SmcDirection(d), index |-> b.index] \in analysis.displacements

(* Faulty variant: a block that was invalidated is still a zone. *)
EntryZoneInvalidated(d, analysis) ==
  LET same == {z \in analysis.blocks : z.direction = SmcDirection(d)}
  IN  {z \in same : \A y \in same : y.created <= z.created}

(* _latest_entry_zone: the newest open zone, a gap before a block.         *)
EntryZone(d, analysis) ==
  LET open(zones) == {z \in zones : /\ z.direction = SmcDirection(d)
                                    /\ z.status \in {"open", "partially_filled"}}
      newest(zones) == {z \in zones : \A y \in open(analysis.gaps \cup analysis.blocks) :
                                        y.created <= z.created}
      gaps == newest(open(analysis.gaps))
  IN  IF gaps # {} THEN gaps ELSE newest(open(analysis.blocks))

Retested(z, x) == z.status = "partially_filled" \/ x.price \in z.lower..z.upper

(* _liquidity_target: the nearest swing beyond the middle of the zone.     *)
BeyondEntry(d, z, price) ==
  IF d = "long" THEN 2 * price > z.lower + z.upper ELSE 2 * price < z.lower + z.upper

SwingPrices(d, analysis, x) ==
  LET kind == IF d = "long" THEN "high" ELSE "low"
  IN  {s.price : s \in {t \in analysis.swings : t.kind = kind}}
      \cup IF d = "long" THEN x.highs ELSE x.lows

(* Faulty variant: the lowest price for both directions. *)
LiquidityTargetLowest(d, analysis, x, z) ==
  LET prices == {p \in SwingPrices(d, analysis, x) : BeyondEntry(d, z, p)}
  IN  {p \in prices : \A q \in prices : p <= q}

LiquidityTarget(d, analysis, x, z) ==
  LET prices == {p \in SwingPrices(d, analysis, x) : BeyondEntry(d, z, p)}
  IN  {p \in prices : \A q \in prices : IF d = "long" THEN p <= q ELSE p >= q}

-----------------------------------------------------------------------------
Score(d, analysis, x) ==
  LET award(component, given) == IF given THEN Weights[component] ELSE 0
      met == Cardinality({k \in {"volume", "interest"} : x[k]})
      aligned == Cardinality(Aligned(d, x))
  IN  (CASE aligned = 2 -> Weights.alignment
         [] aligned = 1 /\ Opposing(d, x) = {} -> Weights.alignment \div 2
         [] OTHER -> 0)
      + award("sweep", Swept(d, analysis))
      + (CASE Displaced(d, analysis) -> Weights.structure
           [] ~Displaced(d, analysis) /\ SetupBreak(d, analysis) # {} -> Weights.structure \div 2
           [] OTHER -> 0)
      + award("zone", EntryZone(d, analysis) # {})
      + award("location", DesiredLocation(d) \in x.locations)
      + (Weights.market * met) \div 2
      + award("condition", d \notin x.crowded /\ ~x.abnormal)

(* The setup a zone gives build_trade_plan, in units so small that the     *)
(* ATR, the middle of the zone and the stop are whole.                     *)
LatestAtr(analysis) ==
  LET known == DOMAIN analysis.atr
  IN  {analysis.atr[i] : i \in {j \in known : \A k \in known : k <= j}}

Unit(atr) == 200 * atr.den

SetupOf(d, z, atr, target) ==
  [direction |-> d, entryLower |-> z.lower * Unit(atr), entryUpper |-> z.upper * Unit(atr),
   atr |-> atr.num * 200, target |-> target * Unit(atr), step |-> 1, minimumNotional |-> 0]

SetupsOf(d, analysis, x) ==
  UNION {{SetupOf(d, z, atr, target) :
            atr \in LatestAtr(analysis), target \in LiquidityTarget(d, analysis, x, z)} :
         z \in EntryZone(d, analysis)}

(* What suppresses a candidate before its plan ...                         *)
Suppressed(d, analysis, x) ==
  \/ Cardinality(Opposing(d, x)) = 2
  \/ ~Displaced(d, analysis)
  \/ ~\E z \in EntryZone(d, analysis) : Retested(z, x)
  \/ x.filtered
  \/ SmcDirection(d) \notin x.confirmed
  \/ Score(d, analysis, x) < MinimumScore

(* ... and the candidate that remains.                                     *)
Candidates(analysis, x) ==
  UNION {{[direction |-> d, score |-> Score(d, analysis, x), plan |-> made] :
            made \in AcceptedPlans(SetupsOf(d, analysis, x))} :
         d \in {e \in TradeDirections : ~Suppressed(e, analysis, x)}}

-----------------------------------------------------------------------------
EvaluationInit == StructureInit /\ accepted = {}

AnalyzeOnce(x) ==
  /\ accepted' = Candidates(recent, x)
  /\ UNCHANGED structureVars

EvaluationNext ==
  \/ \E c \in Shapes : CandleAdded(c) /\ accepted' = {}
  \/ \E x \in Contexts : AnalyzeOnce(x)

EvaluationSpec == EvaluationInit /\ [][EvaluationNext]_evaluationVars

-----------------------------------------------------------------------------
(* docs/strategy.md: LONG and SHORT evaluation use mirrored rules. In the  *)
(* mirrored market, where every price p is Top - p, what is a long is a    *)
(* short of the same score, with the mirrored zone and target: through     *)
(* every detector and the whole evaluation.                                *)
Top == Max({c.high : c \in Shapes})

Mirrored(c) == [open |-> Top - c.open, high |-> Top - c.low,
                low |-> Top - c.high, close |-> Top - c.close]

Turned(d) == IF d = "long" THEN "short" ELSE "long"

MirroredContext(x) ==
  LET flipped(trend) == IF trend = "none" THEN "none" ELSE Opposite(trend)
  IN  [h4 |-> flipped(x.h4), h1 |-> flipped(x.h1),
       locations |-> {IF l = "premium" THEN "discount"
                      ELSE IF l = "discount" THEN "premium" ELSE l : l \in x.locations},
       highs |-> {Top - p : p \in x.lows}, lows |-> {Top - p : p \in x.highs},
       price |-> Top - x.price,
       confirmed |-> {Opposite(e) : e \in x.confirmed},
       crowded |-> {Turned(d) : d \in x.crowded},
       filtered |-> x.filtered, volume |-> x.volume, interest |-> x.interest,
       abnormal |-> x.abnormal]

Judgement(d, analysis, x) ==
  [suppressed |-> Suppressed(d, analysis, x),
   score |-> Score(d, analysis, x),
   zones |-> {{z.lower, z.upper} : z \in EntryZone(d, analysis)},
   targets |-> UNION {LiquidityTarget(d, analysis, x, z) : z \in EntryZone(d, analysis)}]

MirroredSeries(cs) == [i \in DOMAIN cs |-> Mirrored(cs[i])]

MirroredJudgement(j) ==
  [suppressed |-> j.suppressed, score |-> j.score,
   zones |-> {{Top - p : p \in z} : z \in j.zones}, targets |-> {Top - p : p \in j.targets}]

MirroredRules ==
  LET reflected == Analyze(MirroredSeries(Loaded(closed)))
  IN  \A x \in Contexts, d \in TradeDirections :
        Judgement(Turned(d), reflected, MirroredContext(x)) = MirroredJudgement(Judgement(d, recent, x))

(* docs/strategy.md: 15m requires a liquidity sweep in the direction.      *)
SweepIsRequired == \A a \in accepted : Swept(a.direction, recent)

(* The invalidation of a plan is a close beyond its stop (build_trade_plan *)
(* words it so). A candidate that is accepted has not been invalidated by  *)
(* any candle after the one that created its zone, although zones, ATR and *)
(* stop are made anew by every analysis and the zone may be older than the *)
(* break. Nor by that candle itself, when the zone is a gap or no candle   *)
(* from the source of a block to its break opened short of the close       *)
(* before: else a block may lie beyond the break that made it.             *)
ClosesBeyondStop(a, close) ==
  IF a.direction = "long" THEN close < a.plan.stopLoss ELSE close > a.plan.stopLoss

OpensOn(d, z, window) ==
  \A j \in (z.source + 1)..z.created :
    IF d = "long" THEN window[j].open >= window[j - 1].close
    ELSE window[j].open <= window[j - 1].close

NotYetInvalidated ==
  LET window == Loaded(closed)
  IN  \A a \in accepted : \A z \in EntryZone(a.direction, recent), atr \in LatestAtr(recent) :
        \A i \in z.created..Len(window) :
          i > z.created \/ z \in recent.gaps \/ OpensOn(a.direction, z, window)
            => ~ClosesBeyondStop(a, window[i].close * Unit(atr))
=============================================================================
