---------------------------- MODULE Candlesticks ----------------------------
(***************************************************************************)
(* The pattern engine of research/candlesticks.py: the geometry of a       *)
(* candle, and the patterns that end at it given the trend before their    *)
(* own first candle.  A detection is [pattern, direction, candles,         *)
(* geometry, context, overall]; its evidence is the candles themselves.    *)
(***************************************************************************)
EXTENDS ResearchModels

LOCAL INSTANCE SequencesExt

\* PatternThresholds, in units of 1/Unit.
DojiBody == 500
DojiWickMax == 1000
DojiWickMin == 6000
HammerWickMin == 5000
HammerOppositeMax == 1500
HammerBodyMax == 3500
HammerWickToBody == 2
EngulfMin == Unit
PiercingMin == 5000
StarBodyMax == 3500
LongBodyMin == 5000
MarchingOppositeMax == 2500

\* measure: ratios are None for a candle without a range.
Geometry(c) ==
  LET span == c.high - c.low
      top == Most(c.open, c.close)
      bottom == Least(c.open, c.close)
  IN  [body |-> top - bottom, upper |-> c.high - top, lower |-> bottom - c.low,
       body_ratio |-> Ratio(top - bottom, span), upper_ratio |-> Ratio(c.high - top, span),
       lower_ratio |-> Ratio(bottom - c.low, span),
       direction |-> CandleDirection(c), zero |-> span = 0]

\* _fraction_below and _fraction_above: how comfortably a rule was met.
Below(value, threshold) == Score(threshold - value, threshold)
Above(value, threshold, ceiling) == Score(value - threshold, ceiling - threshold)
MeanScore(scores) == Quantized(FoldLeft(LAMBDA sum, s : sum + s, 0, scores), Len(scores))

Continuation == {"THREE_WHITE_SOLDIERS", "THREE_BLACK_CROWS"}

\* A reversal wants a prior trend against it, a continuation one that agrees.
ContextScore(pattern, direction, prior) ==
  LET agrees == (prior.state = "UP") = (direction = "BULLISH") IN
  IF ~prior.available THEN 0
  ELSE IF prior.state = "SIDEWAYS" THEN 4000
  ELSE IF agrees = (pattern \in Continuation) THEN Quantized(Unit + prior.strength, 2)
  ELSE Quantized(Unit - prior.strength, 2)

Detection(pattern, direction, candles, score, prior) ==
  LET context == ContextScore(pattern, direction, prior) IN
  [pattern |-> pattern, direction |-> direction, candles |-> candles,
   geometry |-> score, context |-> context, overall |-> Quantized(6 * score + 4 * context, 10)]

\* The detection of a rule that holds, nothing otherwise.
When(rule, detection) == IF rule THEN {detection} ELSE {}

DojiFamily(c, prior) ==
  LET shape == Geometry(c)
      tight == Below(shape.body_ratio, DojiBody)
      oneSided(pattern, direction, long, short) ==
        When(short <= DojiWickMax /\ long >= DojiWickMin,
             Detection(pattern, direction, 1,
                       MeanScore(<<tight, Above(long, DojiWickMin, Unit)>>), prior))
  IN  IF shape.zero \/ shape.body_ratio > DojiBody THEN {}
      ELSE {Detection("DOJI", "NEUTRAL", 1, tight, prior)}
           \cup oneSided("DRAGONFLY_DOJI", "BULLISH", shape.lower_ratio, shape.upper_ratio)
           \cup oneSided("GRAVESTONE_DOJI", "BEARISH", shape.upper_ratio, shape.lower_ratio)

\* One geometry each, named by the prior trend; without one it has no name.
LongWickFamily(c, prior) ==
  LET shape == Geometry(c)
      declined == prior.state = "DOWN"
      named(bullish, bearish, long, short, wick) ==
        When(/\ long >= HammerWickMin /\ short <= HammerOppositeMax
             /\ wick >= HammerWickToBody * shape.body,
             Detection(IF declined THEN bullish ELSE bearish,
                       IF declined THEN "BULLISH" ELSE "BEARISH", 1,
                       MeanScore(<<Above(long, HammerWickMin, Unit),
                                   Below(shape.body_ratio, HammerBodyMax),
                                   Below(short, HammerOppositeMax)>>), prior))
  IN  IF \/ shape.zero \/ shape.body_ratio > HammerBodyMax
         \/ ~prior.available \/ prior.state \notin {"UP", "DOWN"}
      THEN {}
      ELSE named("HAMMER", "HANGING_MAN", shape.lower_ratio, shape.upper_ratio, shape.lower)
           \cup named("INVERTED_HAMMER", "SHOOTING_STAR", shape.upper_ratio, shape.lower_ratio,
                      shape.upper)

\* before is bearish and now bullish, or the other way round.
Turns(before, now, direction) ==
  /\ now.direction = direction
  /\ before.direction = IF direction = "BULLISH" THEN "BEARISH" ELSE "BULLISH"

Engulfing(previous, current, prior) ==
  LET before == Geometry(previous)
      now == Geometry(current)
      ratio == Ratio(now.body, before.body)
      score == Above(Least(ratio, 2 * Unit), EngulfMin, 2 * Unit)
  IN  IF before.body = 0 \/ ratio <= EngulfMin THEN {}
      ELSE When(/\ Turns(before, now, "BULLISH")
                /\ current.open < previous.close /\ current.close > previous.open,
                Detection("BULLISH_ENGULFING", "BULLISH", 2, score, prior))
           \cup
           When(/\ Turns(before, now, "BEARISH")
                /\ current.open > previous.close /\ current.close < previous.open,
                Detection("BEARISH_ENGULFING", "BEARISH", 2, score, prior))

Piercing(previous, current, prior) ==
  LET before == Geometry(previous)
      now == Geometry(current)
      pierced(pattern, direction, penetration) ==
        When(penetration >= PiercingMin,
             Detection(pattern, direction, 2, Above(penetration, PiercingMin, Unit), prior))
  IN  IF before.body = 0 THEN {}
      ELSE IF /\ Turns(before, now, "BULLISH")
              /\ current.open < previous.close /\ current.close < previous.open
      THEN pierced("PIERCING_LINE", "BULLISH", Ratio(current.close - previous.close, before.body))
      ELSE IF /\ Turns(before, now, "BEARISH")
              /\ current.open > previous.close /\ current.close > previous.open
      THEN pierced("DARK_CLOUD_COVER", "BEARISH", Ratio(previous.close - current.close, before.body))
      ELSE {}

Star(first, star, last, prior) ==
  LET one == Geometry(first)
      middle == Geometry(star)
      three == Geometry(last)
      twiceMidpoint == first.open + first.close
      score == MeanScore(<<Below(middle.body_ratio, StarBodyMax),
                           Above(one.body_ratio, LongBodyMin, Unit),
                           Above(three.body_ratio, LongBodyMin, Unit)>>)
  IN  IF \/ one.zero \/ middle.zero \/ three.zero
         \/ one.body_ratio < LongBodyMin \/ middle.body_ratio > StarBodyMax
      THEN {}
      ELSE When(/\ one.direction = "BEARISH" /\ three.direction = "BULLISH"
                /\ Most(star.open, star.close) < first.close
                /\ 2 * last.close > twiceMidpoint,
                Detection("MORNING_STAR", "BULLISH", 3, score, prior))
           \cup
           When(/\ one.direction = "BULLISH" /\ three.direction = "BEARISH"
                /\ Least(star.open, star.close) > first.close
                /\ 2 * last.close < twiceMidpoint,
                Detection("EVENING_STAR", "BEARISH", 3, score, prior))

\* Three real bodies, each opening inside the last one and closing beyond it.
Marching(window, prior) ==
  LET shapes == [i \in 1..3 |-> Geometry(window[i])]
      inside(i) ==
        /\ Least(window[i].open, window[i].close) <= window[i + 1].open
        /\ window[i + 1].open <= Most(window[i].open, window[i].close)
      march(pattern, direction, opposite(_), beyond(_, _)) ==
        When(/\ \A i \in 1..3 : /\ shapes[i].direction = direction
                                /\ opposite(shapes[i]) <= MarchingOppositeMax
             /\ \A i \in 1..2 : inside(i) /\ beyond(window[i + 1].close, window[i].close),
             Detection(pattern, direction, 3,
                       MeanScore([i \in 1..3 |-> Above(shapes[i].body_ratio, LongBodyMin, Unit)]),
                       prior))
  IN  IF \E i \in 1..3 : shapes[i].zero \/ shapes[i].body_ratio < LongBodyMin THEN {}
      ELSE march("THREE_WHITE_SOLDIERS", "BULLISH", LAMBDA s : s.upper_ratio, LAMBDA a, b : a > b)
           \cup march("THREE_BLACK_CROWS", "BEARISH", LAMBDA s : s.lower_ratio, LAMBDA a, b : a < b)

\* detect_at: every pattern whose last candle is the index; prior[n] is the
\* trend before the first candle of a pattern of n candles.
DetectAt(candles, index, prior) ==
  LET current == candles[index] IN
  DojiFamily(current, prior[1]) \cup LongWickFamily(current, prior[1])
  \cup (IF index < 2 THEN {}
        ELSE Engulfing(candles[index - 1], current, prior[2])
             \cup Piercing(candles[index - 1], current, prior[2]))
  \cup (IF index < 3 THEN {}
        ELSE Star(candles[index - 2], candles[index - 1], current, prior[3])
             \cup Marching(SubSeq(candles, index - 2, index), prior[3]))

=============================================================================
