--------------------------- MODULE MarketStructure ---------------------------
(***************************************************************************)
(* The market context of a candle (research/market_structure.py): trend,   *)
(* swings, support and resistance, breakout and gap, read from a series    *)
(* that may hold later candles.  A pivot may only be used once the candles *)
(* that confirm it have closed.                                            *)
(***************************************************************************)
EXTENDS Indicators

LOCAL INSTANCE FiniteSetsExt

SidewaysPct == Unit \div 2
StrongPct == 2 * Unit
GapMinPct == Unit \div 2

\* swing_points: strict pivots of the whole series.
SwingPoints(candles) ==
  LET neighbours(i) == (i - Windows.left)..(i + Windows.right) \ {i}
      inside == (Windows.left + 1)..(Len(candles) - Windows.right)
      swing(kind, i, price) ==
        [kind |-> kind, index |-> i, price |-> price, confirmed |-> i + Windows.right]
  IN  {swing("HIGH", i, candles[i].high) :
         i \in {k \in inside : \A n \in neighbours(k) : candles[k].high > candles[n].high}}
      \cup
      {swing("LOW", i, candles[i].low) :
         i \in {k \in inside : \A n \in neighbours(k) : candles[k].low < candles[n].low}}

\* Mutant: a pivot is usable as soon as it is drawn.
DrawnSwings(swings, index) == swings

ConfirmedSwings(swings, index) == {s \in swings : s.confirmed <= index}

\* _trend_from_move
TrendFromMove(change) ==
  PriorTrend(IF Abs(change) < SidewaysPct THEN "SIDEWAYS" ELSE IF change > 0 THEN "UP" ELSE "DOWN",
             Score(Abs(change), StrongPct), TRUE)

\* The move over the lookback candles that end before the pattern's first one.
TrendBefore(candles, first) ==
  IF first <= Windows.prior THEN UnknownPrior
  ELSE TrendFromMove(DistancePct(candles[first - 1].close, candles[first - Windows.prior].close))

\* _ema_trend
EmaTrend(series, index, periods) ==
  LET fast == ValueAt(series.ema[periods[1]], index)
      slow == ValueAt(series.ema[periods[2]], index)
  IN  IF fast = None \/ slow = None THEN "UNKNOWN"
      ELSE IF fast > slow THEN "UP" ELSE IF fast < slow THEN "DOWN" ELSE "SIDEWAYS"

\* _gap
Gap(candles, index) ==
  IF index = 1 THEN [state |-> "UNKNOWN", pct |-> None]
  ELSE LET change == DistancePct(candles[index].open, candles[index - 1].close) IN
       [pct |-> change,
        state |-> IF change >= GapMinPct THEN "UP" ELSE IF change <= -GapMinPct THEN "DOWN" ELSE "NONE"]

\* The price of the last swing, None without one.
LastPrice(swings) ==
  IF swings = {} THEN None
  ELSE (CHOOSE s \in swings : \A t \in swings : t.index <= s.index).price

Breakout(close, highs, lows) ==
  IF highs = {} \/ lows = {} THEN "UNKNOWN"
  ELSE IF close > LastPrice(highs) THEN "ABOVE_RESISTANCE"
  ELSE IF close < LastPrice(lows) THEN "BELOW_SUPPORT"
  ELSE "INSIDE"

NearestAbove(prices, close) ==
  IF {p \in prices : p > close} = {} THEN None ELSE Min({p \in prices : p > close})
NearestBelow(prices, close) ==
  IF {p \in prices : p < close} = {} THEN None ELSE Max({p \in prices : p < close})

\* structure_at, over the indicators and the swings of the whole series.
StructureAt(candles, index, series, swings) ==
  LET usable == {s \in ConfirmedSwings(swings, index) : s.index < index}
      highs == {s \in usable : s.kind = "HIGH"}
      lows == {s \in usable : s.kind = "LOW"}
      close == candles[index].close
      support == NearestBelow({s.price : s \in lows}, close)
      resistance == NearestAbove({s.price : s \in highs}, close)
      atr == ValueAt(series.atr, index)
      gap == Gap(candles, index)
  IN  [short_term_trend |-> EmaTrend(series, index, Windows.short),
       medium_term_trend |-> EmaTrend(series, index, Windows.medium),
       slope |-> SlopeAt(series.ema[Windows.short[2]], index, Windows.slope),
       support |-> support, resistance |-> resistance,
       support_distance |-> DistancePct(close, support),
       resistance_distance |-> DistancePct(close, resistance),
       breakout |-> Breakout(close, highs, lows),
       relative_atr |-> IF atr = None THEN None ELSE Quantized(atr * 100 * Unit, close * Steps),
       gap |-> gap.state, gap_pct |-> gap.pct,
       swings_confirmed |-> Cardinality(usable)]

=============================================================================
