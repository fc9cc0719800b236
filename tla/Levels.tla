------------------------------- MODULE Levels -------------------------------
(***************************************************************************)
(* research/levels.py: the entry zone, stop and targets proposed for a     *)
(* detected pattern from its own extremes, the ATR and the confirmed       *)
(* support and resistance.  The policy's multiples are quarters of an ATR, *)
(* so a level before it is rounded to a tick counts 1 / (4 * Steps).       *)
(***************************************************************************)
EXTENDS ResearchModels

\* LevelPolicy, in quarters of an ATR; the reward-to-risk floor in 1/Unit.
EntryZone == 1
StopBuffer == 1
Target1 == 8
Target2 == 12
MinTarget == 4
MinRiskReward == 15000

Fine(price) == 4 * Steps * price
ToTick(level) == Quantized(level, 4 * Steps)

Proposal(entryLow, entryHigh, stop, target1, target2, blocked) ==
  [low |-> ToTick(entryLow), high |-> ToTick(entryHigh), stop |-> ToTick(stop),
   target1 |-> ToTick(target1), target2 |-> ToTick(target2), blocked |-> blocked]

LongLevels(candles, atr, support, resistance) ==
  LET high == Fine(Highest(candles))
      low == Fine(Lowest(candles))
      close == Fine(candles[Len(candles)].close)
      stop == low - atr * StopBuffer
      target == high + atr * Target1
      widens == support # None /\ Fine(support) < low
      caps == resistance # None /\ high < Fine(resistance) /\ Fine(resistance) < target
  IN  Proposal(Least(close, high - atr * EntryZone), high,
               IF widens THEN Least(stop, Fine(support) - atr * StopBuffer) ELSE stop,
               IF caps THEN Fine(resistance) ELSE target,
               high + atr * Target2,
               caps /\ Fine(resistance) - high < atr * MinTarget)

\* Mutant: the room to the level that caps the target is not measured.
ShortLevelsUnblocked(candles, atr, support, resistance) ==
  LET high == Fine(Highest(candles))
      low == Fine(Lowest(candles))
      close == Fine(candles[Len(candles)].close)
      stop == high + atr * StopBuffer
      target == low - atr * Target1
      caps == support # None /\ target < Fine(support) /\ Fine(support) < low
  IN  Proposal(low, Most(close, low + atr * EntryZone), stop,
               IF caps THEN Fine(support) ELSE target, low - atr * Target2, FALSE)

ShortLevels(candles, atr, support, resistance) ==
  LET high == Fine(Highest(candles))
      low == Fine(Lowest(candles))
      close == Fine(candles[Len(candles)].close)
      stop == high + atr * StopBuffer
      target == low - atr * Target1
      widens == resistance # None /\ Fine(resistance) > high
      caps == support # None /\ target < Fine(support) /\ Fine(support) < low
  IN  Proposal(low, Most(close, low + atr * EntryZone),
               IF widens THEN Most(stop, Fine(resistance) + atr * StopBuffer) ELSE stop,
               IF caps THEN Fine(support) ELSE target,
               low - atr * Target2,
               caps /\ low - Fine(support) < atr * MinTarget)

\* validate_signal, on the rounded chain.
ChainErrors(direction, p) ==
  LET long == direction = "LONG"
      failed(error, rule) == IF rule THEN {} ELSE {error}
  IN  failed("ZONE_INVERTED", p.low <= p.high)
      \cup failed("STOP_NOT_BEYOND_ZONE", IF long THEN p.stop < p.low ELSE p.stop > p.high)
      \cup failed("TARGET1_NOT_BEYOND_ZONE",
                  IF long THEN p.high < p.target1 ELSE p.low > p.target1)

\* propose_levels: a second target that does not clear the first is dropped,
\* and a chain is invalid for its own errors, a blocked target or its reward.
ProposeLevels(candles, direction, atr, support, resistance) ==
  LET long == direction = "LONG"
      p == IF long THEN LongLevels(candles, atr, support, resistance)
           ELSE ShortLevels(candles, atr, support, resistance)
      entry == IF long THEN p.high ELSE p.low
      clears == IF long THEN p.target2 > p.target1 ELSE p.target2 < p.target1
      reward == Ratio(Abs(p.target1 - entry), Abs(entry - p.stop))
      errors == ChainErrors(direction, p)
                \cup (IF p.blocked THEN {"TARGET_BLOCKED_BY_STRUCTURE"}
                      ELSE IF reward # None /\ reward < MinRiskReward
                      THEN {"RISK_REWARD_BELOW_MINIMUM"} ELSE {})
  IN  [direction |-> direction, low |-> p.low, high |-> p.high, stop |-> p.stop,
       target1 |-> p.target1, target2 |-> IF clears THEN p.target2 ELSE None,
       risk_reward |-> reward, errors |-> errors, valid |-> errors = {}]

=============================================================================
