------------------------------- MODULE Labels -------------------------------
(***************************************************************************)
(* research/labels.py: what happened after a candidate's candle.  future   *)
(* starts at the candle after it; its prices, like every price here, count *)
(* the quanta of an indicator (InSteps).  Moves count the same: the code's *)
(* percentages and R multiples divide them by the entry or the risk.       *)
(***************************************************************************)
EXTENDS ResearchModels

LOCAL INSTANCE FiniteSetsExt

Long(direction) == direction = "LONG"
Favourable(direction, c) == IF Long(direction) THEN c.high ELSE c.low
Adverse(direction, c) == IF Long(direction) THEN c.low ELSE c.high
Move(direction, entry, price) == IF Long(direction) THEN price - entry ELSE entry - price
Better(direction, a, b) == IF Long(direction) THEN Most(a, b) ELSE Least(a, b)
Worse(direction, a, b) == IF Long(direction) THEN Least(a, b) ELSE Most(a, b)

Taken(future, n) == SubSeq(future, 1, Least(n, Len(future)))

\* fixed_horizon
FixedHorizon(future, entry, direction, horizon) ==
  LET window == Taken(future, horizon)
      moves(side(_, _)) == {Move(direction, entry, side(direction, window[i])) : i \in DOMAIN window}
  IN  [used |-> Len(window), complete |-> Len(window) = horizon,
       return |-> IF window = <<>> THEN None
                  ELSE Move(direction, entry, window[Len(window)].close),
       mfe |-> IF window = <<>> THEN None ELSE Max(moves(Favourable)),
       mae |-> IF window = <<>> THEN None ELSE Min(moves(Adverse))]

\* atr_barriers: the stop one ATR away, the target two.
AtrBarriers(entry, atr, direction) ==
  LET sign == IF Long(direction) THEN 1 ELSE -1 IN
  [stop |-> entry - sign * atr, target |-> entry + sign * 2 * atr]

HitTarget(c, target, direction) == IF Long(direction) THEN c.high >= target ELSE c.low <= target
HitStop(c, stop, direction) == IF Long(direction) THEN c.low <= stop ELSE c.high >= stop

\* The first candle that touches a barrier, 0 without one.
FirstTouch(window, stop, target, direction) ==
  LET touches == {i \in DOMAIN window : \/ HitTarget(window[i], target, direction)
                                        \/ HitStop(window[i], stop, direction)}
  IN  IF touches = {} THEN 0 ELSE Min(touches)

\* Mutant: the favourable extreme of the candle that stops counts.
BestThroughStop(seen, entry, stop, direction) ==
  LET prices == {entry} \cup {Favourable(direction, seen[i]) : i \in DOMAIN seen} IN
  IF Long(direction) THEN Max(prices) ELSE Min(prices)

\* A candle that touches the stop does not count towards the best price (D3).
Best(seen, entry, stop, direction) ==
  LET prices == {entry} \cup {Favourable(direction, seen[i]) :
                                i \in {k \in DOMAIN seen : ~HitStop(seen[k], stop, direction)}}
  IN  IF Long(direction) THEN Max(prices) ELSE Min(prices)

WorstSeen(seen, entry, direction) ==
  LET prices == {entry} \cup {Adverse(direction, seen[i]) : i \in DOMAIN seen} IN
  IF Long(direction) THEN Min(prices) ELSE Max(prices)

\* target_before_stop: the stop wins a candle that touches both, and a candle
\* that opens beyond a barrier exits at its open.
TargetBeforeStop(future, entry, stop, target, direction, maxCandles) ==
  LET window == Taken(future, maxCandles)
      touch == FirstTouch(window, stop, target, direction)
      last == window[IF touch = 0 THEN Len(window) ELSE touch]
      seen == Taken(window, IF touch = 0 THEN Len(window) ELSE touch)
      stopped == HitStop(last, stop, direction)
      exit == IF touch = 0 THEN last.close
              ELSE IF stopped THEN Worse(direction, last.open, stop)
              ELSE Better(direction, last.open, target)
  IN  IF window = <<>>
      THEN [result |-> "NO_DATA", exit |-> None, used |-> 0, complete |-> FALSE,
            move |-> None, best |-> None, worst |-> None, ambiguous |-> FALSE, gap |-> FALSE]
      ELSE [result |-> IF touch = 0 THEN "TIMEOUT" ELSE IF stopped THEN "STOP" ELSE "TARGET",
            exit |-> exit, used |-> Len(seen),
            complete |-> touch # 0 \/ Len(window) = maxCandles,
            move |-> Move(direction, entry, exit),
            best |-> Best(seen, entry, stop, direction),
            worst |-> WorstSeen(seen, entry, direction),
            ambiguous |-> touch # 0 /\ stopped /\ HitTarget(last, target, direction),
            gap |-> touch # 0 /\ exit # IF stopped THEN stop ELSE target]

=============================================================================
