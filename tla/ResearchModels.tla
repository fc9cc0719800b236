--------------------------- MODULE ResearchModels ---------------------------
(***************************************************************************)
(* What the research engines share (research/models.py): candles, decimal  *)
(* quantization and the prior trend of a pattern.                          *)
(*                                                                         *)
(* A decimal is an integer number of its quanta.  A price counts ticks     *)
(* (PRICE_TICK), an indicator counts Steps per tick (the code has 10^4),   *)
(* a ratio, a score and a percentage count 1/Unit (RATIO_QUANTUM,          *)
(* SCORE_QUANTUM, PCT_QUANTUM).                                            *)
(***************************************************************************)
EXTENDS Optional, Integers, Sequences, FiniteSets

LOCAL INSTANCE FiniteSetsExt

CONSTANTS
  Steps   \* indicator quanta per tick

Unit == 10000

Least(a, b) == IF a < b THEN a ELSE b
Most(a, b) == IF a > b THEN a ELSE b
Abs(n) == IF n < 0 THEN -n ELSE n

\* quantized: n / d half-even, for d > 0.
Quantized(n, d) ==
  LET q == n \div d
      rest == 2 * (n - q * d)
  IN  IF rest < d \/ (rest = d /\ q % 2 = 0) THEN q ELSE q + 1

\* quantize_ratio of n / d; None is the division by zero the callers exclude.
Ratio(n, d) == IF d = 0 THEN None ELSE Quantized(n * Unit, d)

\* quantize_score of n / d: clamped to [0, 1] before it is rounded.
Score(n, d) == Quantized(Most(0, Least(n, d)) * Unit, d)

\* Candle.__post_init__
IsCandle(c) ==
  /\ c.low <= Least(c.open, c.close) /\ Most(c.open, c.close) <= c.high
  /\ c.ts <= c.end_ts
  /\ 1 <= c.present /\ c.present <= c.expected

\* Candle.direction
CandleDirection(c) ==
  IF c.close > c.open THEN "BULLISH" ELSE IF c.close < c.open THEN "BEARISH" ELSE "FLAT"

\* PriorTrend
PriorTrend(state, strength, available) ==
  [state |-> state, strength |-> strength, available |-> available]
UnknownPrior == PriorTrend("UNKNOWN", 0, FALSE)

\* Candles whose prices count the quanta of an indicator.
InSteps(candles) ==
  [i \in DOMAIN candles |->
     [candles[i] EXCEPT !.open = @ * Steps, !.high = @ * Steps, !.low = @ * Steps,
                        !.close = @ * Steps]]

Highest(candles) == Max({candles[i].high : i \in DOMAIN candles})
Lowest(candles) == Min({candles[i].low : i \in DOMAIN candles})

=============================================================================
