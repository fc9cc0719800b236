----------------------------- MODULE Indicators -----------------------------
(***************************************************************************)
(* The indicators of research/indicators.py over a series of candles: each *)
(* is a sequence aligned with the candles, None until its own window is    *)
(* filled.  The running value of an average is kept to one quantum (the    *)
(* code keeps the 34 digits of its decimal context and quantizes what it   *)
(* stores).                                                                *)
(***************************************************************************)
EXTENDS ResearchModels

LOCAL INSTANCE SequencesExt

CONSTANT Windows   \* the periods of every indicator, in candles

Total(values) == FoldLeft(LAMBDA sum, v : sum + v, 0, values)
Mean(values) == Quantized(Total(values), Len(values))

Closes(candles) == [i \in DOMAIN candles |-> candles[i].close * Steps]

Ema(values, period) ==
  LET current[i \in period..Len(values)] ==
        IF i = period THEN Mean(SubSeq(values, 1, period))
        ELSE current[i - 1] + Quantized(2 * (values[i] - current[i - 1]), period + 1)
  IN  [i \in DOMAIN values |-> IF i < period THEN None ELSE current[i]]

\* _wilder
Wilder(values, period) ==
  LET current[i \in period..Len(values)] ==
        IF i = period THEN Mean(SubSeq(values, 1, period))
        ELSE Quantized(current[i - 1] * (period - 1) + values[i], period)
  IN  [i \in DOMAIN values |-> IF i < period THEN None ELSE current[i]]

\* Percentages count 1/Unit of a percent; no loss at all is 100.
Rsi(values, period) ==
  LET change(i) == values[i + 1] - values[i]
      changes == 1..(Len(values) - 1)
      up == Wilder([i \in changes |-> Most(change(i), 0)], period)
      down == Wilder([i \in changes |-> Most(-change(i), 0)], period)
  IN  [i \in DOMAIN values |->
         IF i <= period THEN None
         ELSE IF down[i - 1] = 0 THEN 100 * Unit
         ELSE Quantized(100 * Unit * up[i - 1], up[i - 1] + down[i - 1])]

TrueRanges(candles) ==
  [i \in DOMAIN candles |->
     LET span == candles[i].high - candles[i].low
         previous == candles[i - 1].close
     IN  Steps * IF i = 1 THEN span
                 ELSE Most(span, Most(Abs(candles[i].high - previous),
                                      Abs(candles[i].low - previous)))]

Atr(candles, period) == Wilder(TrueRanges(candles), period)

\* The signal line smooths the MACD line only from where that line exists.
Macd(values, fast, slow, signal) ==
  LET quick == Ema(values, fast)
      long == Ema(values, slow)
      line == [i \in DOMAIN values |-> IF long[i] = None THEN None ELSE quick[i] - long[i]]
      defined == SelectSeq(line, LAMBDA v : v # None)
      padding == Len(line) - Len(defined)
      smoothed == Ema(defined, signal)
      signalLine == [i \in DOMAIN values |-> IF i <= padding THEN None ELSE smoothed[i - padding]]
  IN  [macd |-> line, signal |-> signalLine,
       histogram |-> [i \in DOMAIN values |->
                        IF signalLine[i] = None THEN None ELSE line[i] - signalLine[i]]]

\* rolling_average_volume: the candles before, never the candle itself.
AverageVolume(candles, lookback) ==
  [i \in DOMAIN candles |->
     IF i <= lookback THEN None
     ELSE Mean([k \in 1..lookback |-> candles[i - k].volume * Steps])]

RelativeVolume(candles, lookback) ==
  LET baseline == AverageVolume(candles, lookback) IN
  [i \in DOMAIN candles |->
     IF baseline[i] = None \/ baseline[i] = 0 THEN None
     ELSE Ratio(candles[i].volume * Steps, baseline[i])]

Returns(values) ==
  [i \in DOMAIN values |->
     IF i = 1 THEN None ELSE Ratio(values[i] - values[i - 1], values[i - 1])]

\* The square root of n / d, to the nearest quantum.
Sqrt(n, d, bound) ==
  CHOOSE r \in 0..bound : /\ r > 0 => (2 * r - 1) * (2 * r - 1) * d <= 4 * n
                          /\ 4 * n < (2 * r + 1) * (2 * r + 1) * d

Volatility(values, lookback) ==
  LET changes == Returns(values) IN
  [i \in DOMAIN values |->
     LET window == SelectSeq(SubSeq(changes, Most(1, i - lookback + 1), i), LAMBDA v : v # None)
         squares == [k \in DOMAIN window |-> (window[k] - Mean(window)) * (window[k] - Mean(window))]
     IN  IF Len(window) < lookback THEN None
         ELSE Sqrt(Total(squares), lookback, Total([k \in DOMAIN window |-> Abs(window[k])]) + 1)]

\* distance_pct
DistancePct(price, reference) ==
  IF reference = None \/ reference = 0 THEN None
  ELSE Quantized((price - reference) * 100 * Unit, reference)

\* value_at, never wrapping around.
ValueAt(series, index) == IF index \in DOMAIN series THEN series[index] ELSE None

\* slope_at
SlopeAt(series, index, span) ==
  LET current == ValueAt(series, index)
      earlier == ValueAt(series, index - span)
  IN  IF current = None THEN None ELSE DistancePct(current, earlier)

\* compute_series
Series(candles) ==
  LET values == Closes(candles) IN
  [ema |-> [period \in Windows.emas |-> Ema(values, period)],
   rsi |-> Rsi(values, Windows.rsi),
   atr |-> Atr(candles, Windows.atr),
   macd |-> Macd(values, Windows.macd[1], Windows.macd[2], Windows.macd[3]),
   relative_volume |-> RelativeVolume(candles, Windows.volume),
   volatility |-> Volatility(values, Windows.volatility)]

=============================================================================
