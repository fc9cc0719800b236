---------------------------- MODULE ResearchStudy ----------------------------
(***************************************************************************)
(* A candle series that grows one candle at a time.  A scan reads each     *)
(* candle when it is the last one; the backtest later reads all of them    *)
(* out of the finished series, with indicators and pivots computed once    *)
(* over the whole of it (build_occurrences), labels them with the candles  *)
(* that followed and splits them into training and evaluation.             *)
(***************************************************************************)
EXTENDS Backtest, Levels, Pressure

CONSTANTS
  CandleShapes,       \* the candles that can come next: [open, high, low, close, volume],
                \* the prices relative to the last close
  Start,        \* the close before the first candle
  MaxSeries,    \* bound on the length of the series
  Mirror,       \* twice the price the mirrored market is reflected at
  Embargoes

VARIABLES
  candles,    \* the series
  readings    \* what was read at each candle when it was the last one

studyVars == <<candles, readings>>

StudyInit == candles = <<>> /\ readings = <<>>

\* One more candle closes, and is read.
CandleOf(shape, index, last) ==
  [ts |-> index, end_ts |-> index, open |-> last + shape.open, high |-> last + shape.high,
   low |-> last + shape.low, close |-> last + shape.close, volume |-> shape.volume,
   expected |-> 1, present |-> 1]

Close(shape) ==
  /\ Len(candles) < MaxSeries
  /\ LET last == IF candles = <<>> THEN Start ELSE candles[Len(candles)].close
         candle == CandleOf(shape, Len(candles) + 1, last)
     IN  IsCandle(candle) /\ candles' = Append(candles, candle)
  /\ readings' = Append(readings, ReadingAt(candles', Len(candles'), Series(candles'),
                                            SwingPoints(candles')))

StudyNext == \E shape \in CandleShapes : Close(shape)

StudySpec == StudyInit /\ [][StudyNext]_studyVars

-----------------------------------------------------------------------------

(***************************************************************************)
(* No look-ahead: the backtest knows at every candle what a scan knew when *)
(* that candle closed, though it computes indicators, pivots and prior     *)
(* trends over the whole series; what came later changes only labels.      *)
(***************************************************************************)
BacktestReadsWhatTheScanRead ==
  LET series == Series(candles)
      swings == SwingPoints(candles)
  IN  \A i \in DOMAIN candles : readings[i] = ReadingAt(candles, i, series, swings)

-----------------------------------------------------------------------------
(* A LONG order of the fill model that is open at an entry, without costs
   and with one target. *)

Fill == INSTANCE FillModel WITH
  Sessions <- <<[open |-> 0, close |-> MaxSeries + 3]>>, Minute <- 1

OpenOrder(entry, stop, target, direction) ==
  LET ctx == [signal |-> [direction |-> direction, low |-> entry, high |-> entry, stop |-> stop,
                          target1 |-> target, target2 |-> None, trigger |-> None],
              config |-> [stop_slip |-> 0, commission |-> 0, sec_taf_fees_enabled |-> FALSE,
                          sec_fee_rate |-> 0, taf_fee_per_share |-> 0, taf_fee_max |-> 0],
              start |-> 0, until |-> MaxSeries + 3]
  IN  [ctx |-> ctx,
       state |-> [Fill!NewOrderState(ctx, None).state EXCEPT
                    !.status = "OPEN", !.avg_entry = entry, !.qty_total = 1, !.qty_open = 1,
                    !.best_price = entry, !.worst_price = entry]]

\* The order after the candles a barrier label looked at.
Followed(order, window) ==
  Fill!RunBars(order.state,
               [i \in DOMAIN window |->
                  [ts |-> window[i].ts, open |-> window[i].open, high |-> window[i].high,
                   low |-> window[i].low, close |-> window[i].close]], order.ctx).state

Agrees(label, s) ==
  /\ label.result = IF s.status # "CLOSED" THEN "TIMEOUT"
                    ELSE IF s.close_reason = "STOPPED" THEN "STOP" ELSE "TARGET"
  /\ label.best = s.best_price /\ label.worst = s.worst_price
  /\ label.result = "STOP" => label.move = s.realized_pnl

(***************************************************************************)
(* Research measures what the platform would have lived: a barrier label   *)
(* has the outcome, the excursions and the loss of an order of the fill    *)
(* model with the same entry, stop and target over the same candles (spec  *)
(* v1.2 D3), in either direction.  The gain of a target that is gapped     *)
(* through is not compared: the label exits at the open, the fill model at *)
(* the target.                                                             *)
(***************************************************************************)
LabelsMeasureLikeTheFillModel ==
  \A i \in 1..(Len(candles) - 1) : readings[i].atr \notin {None, 0} =>
    \A direction \in {"LONG", "SHORT"} :
      LET label == LabelsOf(candles, i, direction, readings[i].atr).barrier
          entry == candles[i].close * Steps
          barriers == AtrBarriers(entry, readings[i].atr, direction)
      IN  Agrees(label, Followed(OpenOrder(entry, barriers.stop, barriers.target, direction),
                                 InSteps(SubSeq(candles, i + 1, i + label.used))))

-----------------------------------------------------------------------------
(* The market seen upside down. *)

Flip(price) == IF price = None THEN None ELSE Mirror - price
MirrorCandle(c) ==
  [c EXCEPT !.open = Flip(@), !.close = Flip(@), !.high = Flip(c.low), !.low = Flip(c.high)]
MirrorSeries(series) == [i \in DOMAIN series |-> MirrorCandle(series[i])]

Pairs == {<<"LONG", "SHORT">>, <<"BULLISH", "BEARISH">>, <<"UP", "DOWN">>, <<"BUY", "SELL">>,
          <<"HAMMER", "SHOOTING_STAR">>, <<"INVERTED_HAMMER", "HANGING_MAN">>,
          <<"DRAGONFLY_DOJI", "GRAVESTONE_DOJI">>, <<"BULLISH_ENGULFING", "BEARISH_ENGULFING">>,
          <<"PIERCING_LINE", "DARK_CLOUD_COVER">>, <<"MORNING_STAR", "EVENING_STAR">>,
          <<"THREE_WHITE_SOLDIERS", "THREE_BLACK_CROWS">>, <<"ABOVE_RESISTANCE", "BELOW_SUPPORT">>}

Opposite(name) ==
  IF \E p \in Pairs : name \in {p[1], p[2]}
  THEN LET p == CHOOSE q \in Pairs : name \in {q[1], q[2]} IN IF name = p[1] THEN p[2] ELSE p[1]
  ELSE name

MirrorDetection(d) == [d EXCEPT !.pattern = Opposite(@), !.direction = Opposite(@)]
Directional(detections) == {d \in detections : d.direction # "NEUTRAL"}

MirrorLevels(p) ==
  [p EXCEPT !.direction = Opposite(@), !.low = Flip(p.high), !.high = Flip(p.low),
            !.stop = Flip(@), !.target1 = Flip(@), !.target2 = Flip(@)]

Priors == {PriorTrend("UP", Unit \div 2, TRUE), PriorTrend("DOWN", Unit \div 2, TRUE),
           PriorTrend("SIDEWAYS", 0, TRUE), UnknownPrior}
Everywhere(prior) == [length \in 1..3 |-> prior]

PatternsMirror(series, mirrored, index) ==
  \A prior \in Priors :
    Directional(DetectAt(mirrored, index, Everywhere([prior EXCEPT !.state = Opposite(@)])))
      = {MirrorDetection(d) : d \in Directional(DetectAt(series, index, Everywhere(prior)))}

LevelsMirror(series, mirrored, index, reading) ==
  LET window == SubSeq(series, Most(1, index - 2), index)
      structure == reading.structure
  IN  reading.atr \notin {None, 0} =>
        ProposeLevels(SubSeq(mirrored, Most(1, index - 2), index), "SHORT", reading.atr,
                      Flip(structure.resistance), Flip(structure.support))
          = MirrorLevels(ProposeLevels(window, "LONG", reading.atr, structure.support,
                                       structure.resistance))

\* The context, but for the percentages that are relative to a price.
MirrorStructure(structure) ==
  [structure EXCEPT
     !.short_term_trend = Opposite(@), !.medium_term_trend = Opposite(@), !.breakout = Opposite(@),
     !.support = Flip(structure.resistance), !.resistance = Flip(structure.support),
     !.support_distance = structure.resistance_distance,
     !.resistance_distance = structure.support_distance]

ContextMirrors(mirrored, index, reading) ==
  LET flipped == MirrorStructure(reading.structure)
      seen == StructureAt(mirrored, index, Series(mirrored), SwingPoints(mirrored))
      score(structure, cmf, direction) ==
        ScoreSetup(Unit \div 2, structure, reading.relative_volume, cmf, direction)
  IN  /\ \A field \in {"short_term_trend", "medium_term_trend", "support", "resistance", "breakout",
                      "swings_confirmed"} : seen[field] = flipped[field]
      /\ \A cmf \in {None, -StrongCmf, 500} :
           score(reading.structure, cmf, "LONG")
             = score(flipped, IF cmf = None THEN None ELSE -cmf, "SHORT")

PressureMirrors(series, mirrored) ==
  LET estimate == EstimatePressure(series)
      opposite == EstimatePressure(mirrored)
  IN  estimate # None =>
        /\ StrongPressure(opposite, StrongCmf) = Opposite(StrongPressure(estimate, StrongCmf))
        /\ PressureComponent(opposite.cmf, "SHORT") = PressureComponent(estimate.cmf, "LONG")

(***************************************************************************)
(* The engine has no side: upside down, every pattern with a direction     *)
(* becomes its opposite, with the same scores (a plain DOJI is scored as   *)
(* if it were bearish, and is never traded); the levels proposed for a     *)
(* short are those of the long ("the short side is the exact mirror"),     *)
(* with the same errors; trends, levels, pressure and the score of a setup *)
(* on one side are those on the other.                                     *)
(***************************************************************************)
ShortsMirrorLongs ==
  LET mirrored == MirrorSeries(candles)
      last == Len(candles)
  IN  candles # <<>> =>
        /\ PatternsMirror(candles, mirrored, last)
        /\ LevelsMirror(candles, mirrored, last, readings[last])
        /\ ContextMirrors(mirrored, last, readings[last])
        /\ PressureMirrors(candles, mirrored)

-----------------------------------------------------------------------------

\* Nothing a fold learns from was labelled by a candle that labels what it is tested on.
Blind(fold, embargo) ==
  \A i \in DOMAIN fold.train, k \in DOMAIN fold.test :
    /\ fold.train[i].signal < fold.test[k].signal
    /\ fold.train[i].labels.label_end + embargo <= fold.test[k].signal

\* The backtest of the series, once it has an observation.
Whole(ordered, splits) ==
  /\ Len(splits.fold.train) + splits.fold.purged + Len(splits.validation) + Len(splits.test)
       = Len(ordered)
  /\ \A i \in DOMAIN splits.validation, k \in DOMAIN splits.test :
       splits.validation[i].signal < splits.test[k].signal

(***************************************************************************)
(* Training never sees the future it is judged on: labels overlap later    *)
(* candles, and every observation whose label reaches into the evaluation  *)
(* period (or its embargo) is purged, in a chronological split and in      *)
(* every fold of a walk-forward; no observation is lost on the way, and    *)
(* every sample is a win, a loss, a timeout or has no barrier.             *)
(***************************************************************************)
TrainingIsBlind ==
  LET ordered == Occurrences(candles, readings)
      summary == Summary(ordered)
  IN  ordered # <<>> =>
        /\ \A embargo \in Embargoes :
             /\ Blind(TimeSplits(ordered, 60, 20, embargo).fold, embargo)
             /\ Whole(ordered, TimeSplits(ordered, 60, 20, embargo))
             /\ Len(ordered) >= 2 =>
                  \A k \in DOMAIN WalkForward(ordered, 2, embargo) :
                    Blind(WalkForward(ordered, 2, embargo)[k], embargo)
        /\ summary.wins + summary.losses + summary.timeouts <= summary.samples

=============================================================================
