------------------------------ MODULE Pressure ------------------------------
(***************************************************************************)
(* The buy and sell pressure estimated from bars (analytics/pressure.py)   *)
(* and the score of a setup (research/scoring.py).                         *)
(***************************************************************************)
EXTENDS ResearchModels

LOCAL INSTANCE SequencesExt

StrongCmf == 1500
NeutralComponent == Unit \div 2

Sum(values) == FoldLeft(LAMBDA sum, v : sum + v, 0, values)

\* close_location_value, 0 for a bar without a range.
CloseLocation(bar) ==
  IF bar.high = bar.low THEN 0
  ELSE Quantized(((bar.close - bar.low) - (bar.high - bar.close)) * Unit, bar.high - bar.low)

\* On-balance volume: the sum of the volumes, signed by the move of the close.
Signed(bars) ==
  [i \in 1..(Len(bars) - 1) |->
     IF bars[i + 1].close > bars[i].close THEN bars[i + 1].volume
     ELSE IF bars[i + 1].close < bars[i].close THEN -bars[i + 1].volume ELSE 0]

\* estimate_pressure, None for fewer than two bars.
EstimatePressure(bars) ==
  LET n == Len(bars)
      volume == Sum([i \in DOMAIN bars |-> bars[i].volume])
      flow == Sum([i \in DOMAIN bars |-> CloseLocation(bars[i]) * bars[i].volume])
      typical == Sum([i \in DOMAIN bars |->
                        (bars[i].high + bars[i].low + bars[i].close) * bars[i].volume])
  IN  IF n < 2 THEN None
      ELSE IF volume = 0 THEN [cmf |-> 0, obv_slope |-> 0, vwap_distance |-> 0]
      ELSE [cmf |-> Quantized(flow, volume),
            obv_slope |-> Quantized(Sum(Signed(bars)) * n * Unit, (n - 1) * volume),
            vwap_distance |-> Quantized((3 * volume * bars[n].close - typical) * 100 * Unit, typical)]

\* strong_pressure
StrongPressure(estimate, threshold) ==
  IF /\ estimate.cmf >= threshold
     /\ estimate.obv_slope > 0 /\ estimate.vwap_distance >= 0 THEN "BUY"
  ELSE IF /\ estimate.cmf <= -threshold
          /\ estimate.obv_slope < 0 /\ estimate.vwap_distance <= 0 THEN "SELL"
  ELSE None

-----------------------------------------------------------------------------

\* _scaled
Scaled(value, low, high) == Score(value - low, high - low)

TrendComponent(states, direction) ==
  LET known == SelectSeq(states, LAMBDA s : s # "UNKNOWN")
      wanted == IF direction = "LONG" THEN "UP" ELSE "DOWN"
      points(s) == IF s = wanted THEN Unit ELSE IF s = "SIDEWAYS" THEN NeutralComponent ELSE 0
  IN  IF known = <<>> THEN NeutralComponent
      ELSE Quantized(Sum([i \in DOMAIN known |-> points(known[i])]), Len(known))

VolumeComponent(relative) ==
  IF relative = None THEN NeutralComponent ELSE Scaled(relative, Unit \div 2, 2 * Unit)

PressureComponent(cmf, direction) ==
  IF cmf = None THEN NeutralComponent
  ELSE Scaled(IF direction = "LONG" THEN cmf ELSE -cmf, -StrongCmf, StrongCmf)

\* The room towards the objective, its distance capped at 5%.
StructureComponent(structure, direction) ==
  LET long == direction = "LONG"
      towards == IF long THEN structure.resistance_distance ELSE structure.support_distance
      wanted == IF long THEN "ABOVE_RESISTANCE" ELSE "BELOW_SUPPORT"
      room == IF towards = None THEN <<>>
              ELSE <<Scaled(Least(Abs(towards), 5 * Unit), 0, 5 * Unit)>>
      broken == IF structure.breakout = "UNKNOWN" THEN <<>>
                ELSE <<IF structure.breakout = wanted THEN Unit
                       ELSE IF structure.breakout = "INSIDE" THEN NeutralComponent ELSE 0>>
  IN  IF room \o broken = <<>> THEN NeutralComponent
      ELSE Quantized(Sum(room \o broken), Len(room \o broken))

\* score_setup, with the default weights.
ScoreSetup(overall, structure, relative, cmf, direction) ==
  Quantized(40 * overall
            + 20 * TrendComponent(<<structure.short_term_trend, structure.medium_term_trend>>, direction)
            + 15 * VolumeComponent(relative) + 15 * PressureComponent(cmf, direction)
            + 10 * StructureComponent(structure, direction), 100)

=============================================================================
