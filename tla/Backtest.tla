------------------------------ MODULE Backtest ------------------------------
(***************************************************************************)
(* research/backtest.py: every tradable detection of a series as an        *)
(* occurrence, with what was known at its candle and what happened after   *)
(* it, and the chronological splits that keep training away from what it   *)
(* is judged on.  Instants are indexes of candles.                         *)
(***************************************************************************)
EXTENDS MarketStructure, Candlesticks, Labels

LOCAL INSTANCE FiniteSetsExt
LOCAL INSTANCE SequencesExt

CONSTANTS
  Horizons,     \* the fixed horizons of a label, in candles
  MaxCandles    \* how far a barrier label looks

\* direction_of
TradeDirection(detection) ==
  IF detection.direction = "BULLISH" THEN "LONG"
  ELSE IF detection.direction = "BEARISH" THEN "SHORT" ELSE None

\* prior_context
PriorContext(candles, index) ==
  [length \in 1..3 |-> TrendBefore(candles, index - length + 1)]

\* What the engine knows at a candle, out of the indicators and the swings of
\* a series that may go on after it: the detections, the context and the
\* indicator values of build_snapshot.
ReadingAt(candles, index, series, swings) ==
  LET history == SubSeq(candles, 1, index)
      close == candles[index].close * Steps
  IN  [detections |-> DetectAt(history, index, PriorContext(candles, index)),
       structure |-> StructureAt(history, index, series, swings),
       ema_distance |-> [p \in Windows.emas |-> DistancePct(close, ValueAt(series.ema[p], index))],
       rsi |-> ValueAt(series.rsi, index),
       atr |-> ValueAt(series.atr, index),
       relative_volume |-> ValueAt(series.relative_volume, index),
       volatility |-> ValueAt(series.volatility, index),
       macd |-> [line \in DOMAIN series.macd |-> ValueAt(series.macd[line], index)]]

\* The labels of a candidate entered at the close of its candle.
LabelsOf(candles, index, direction, atr) ==
  LET future == InSteps(SubSeq(candles, index + 1, Len(candles)))
      entry == candles[index].close * Steps
      barriers == AtrBarriers(entry, atr, direction)
      barrier == IF atr = None \/ atr = 0 THEN None
                 ELSE TargetBeforeStop(future, entry, barriers.stop, barriers.target, direction,
                                       MaxCandles)
      horizons == [h \in Horizons |-> FixedHorizon(future, entry, direction, h)]
      used == Max({horizons[h].used : h \in Horizons}
                  \cup {IF barrier = None THEN 0 ELSE barrier.used})
  IN  [horizons |-> horizons, barrier |-> barrier,
       label_end |-> IF used = 0 THEN None ELSE index + used]

\* build_occurrences, in chronological order: signal, ticker, pattern. The
\* readings are those of ReadingAt.
OccurrencesAt(candles, index, reading) ==
  {[pattern |-> d.pattern, direction |-> TradeDirection(d), signal |-> index,
    labels |-> LabelsOf(candles, index, TradeDirection(d), reading.atr)] :
     d \in {e \in reading.detections : TradeDirection(e) # None}}

Chronological(occurrences) == SetToSortSeq(occurrences, LAMBDA a, b : a.signal < b.signal)

Occurrences(candles, readings) ==
  Chronological(UNION {OccurrencesAt(candles, i, readings[i]) : i \in DOMAIN readings})

-----------------------------------------------------------------------------

\* Mutant: an observation is judged by its signal, not by the end of its label.
PurgeBySignal(train, boundary, embargo) ==
  SelectSeq(train, LAMBDA o : o.signal <= boundary - embargo)

Purge(train, boundary, embargo) ==
  SelectSeq(train, LAMBDA o : \/ o.labels.label_end = None
                              \/ o.labels.label_end <= boundary - embargo)

\* The signal at a fraction (in percent) of the observations.
Boundary(ordered, percent) ==
  ordered[Least(Len(ordered), (Len(ordered) * percent) \div 100 + 1)].signal

Split(train, test, boundary, embargo) ==
  LET kept == Purge(train, boundary, embargo) IN
  [train |-> kept, purged |-> Len(train) - Len(kept), test |-> test, boundary |-> boundary]

\* time_splits: the training period, and validation and test as evaluation.
TimeSplits(ordered, train, validation, embargo) ==
  LET trainEnd == Boundary(ordered, train)
      validationEnd == Boundary(ordered, train + validation)
  IN  [validation |-> SelectSeq(ordered, LAMBDA o : trainEnd <= o.signal /\ o.signal < validationEnd),
       test |-> SelectSeq(ordered, LAMBDA o : o.signal >= validationEnd),
       fold |-> Split(SelectSeq(ordered, LAMBDA o : o.signal < trainEnd),
                      SelectSeq(ordered, LAMBDA o : o.signal >= trainEnd), trainEnd, embargo)]

\* walk_forward: fold k trains on everything before the slice it is tested on.
WalkForward(ordered, folds, embargo) ==
  LET size == Len(ordered) \div folds
      boundary(k) == ordered[k * size + 1].signal
      end(k) == ordered[Least((k + 1) * size, Len(ordered))].signal
  IN  [k \in 1..(folds - 1) |->
         Split(SelectSeq(ordered, LAMBDA o : o.signal < boundary(k)),
               SelectSeq(ordered, LAMBDA o : boundary(k) <= o.signal /\ o.signal <= end(k)),
               boundary(k), embargo)]

\* summarize: the counts behind every rate.
Summary(occurrences) ==
  LET results == SelectSeq([i \in DOMAIN occurrences |-> occurrences[i].labels.barrier],
                           LAMBDA b : b # None)
      counted(result) == Len(SelectSeq(results, LAMBDA b : b.result = result))
  IN  [samples |-> Len(occurrences), wins |-> counted("TARGET"), losses |-> counted("STOP"),
       timeouts |-> counted("TIMEOUT"),
       ambiguous |-> Len(SelectSeq(results, LAMBDA b : b.ambiguous)),
       gap_through |-> Len(SelectSeq(results, LAMBDA b : b.gap))]

=============================================================================
