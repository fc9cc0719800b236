----------------------------- MODULE MCResearch -----------------------------
(***************************************************************************)
(* Four studies that share one run and nothing else: what is read of one   *)
(* candle series (ResearchStudy), the scans, corrections and promotions    *)
(* around the stored readings (Promotion), the classifier's trees over     *)
(* small training sets (Boosting), and the alert rules that read the same  *)
(* pressure (Watchlist).  study picks one; the others' variables rest.     *)
(***************************************************************************)
EXTENDS ResearchStudy, Promotion, TLC

VARIABLES
  study,
  rows, params,
  instant, rule, created, stored, job, alerts, disturbed

Shape(o, h, l, c, v) == [open |-> o, high |-> h, low |-> l, close |-> c, volume |-> v]

\* A long white candle, a long black one, a star, a hammer and one without trades:
\* between them and upside down, every pattern of the engine.
MCShapes ==
  {Shape(-4, 12, -6, 10, 2), Shape(0, 0, -12, -12, 1), Shape(-1, 1, -6, -3, 1),
   Shape(0, 0, -12, 0, 2), Shape(4, 4, 4, 4, 0)}

MCWindows ==
  [emas |-> {1, 2, 3}, short |-> <<1, 2>>, medium |-> <<2, 3>>, slope |-> 1, rsi |-> 2, atr |-> 2,
   macd |-> <<1, 2, 2>>, volume |-> 2, volatility |-> 2, left |-> 1, right |-> 2, prior |-> 2]

\* One behaviour of scans from the close of the second session on, and one of
\* promotions once every session has closed.
MCBounds ==
  {[start |-> 5, arrivals |-> 3, scans |-> 3, clicks |-> 0],
   [start |-> 8, arrivals |-> 2, scans |-> 2, clicks |-> 2]}

MCPatterns == [CALM |-> {}, STAR |-> {"EVENING_STAR"}]

\* Leaves of one row, and every gap of three values; larger leaves.
Fits ==
  {[max_depth |-> 2, min_samples_leaf |-> 1, l2 |-> 1, max_bins |-> 2],
   [max_depth |-> 2, min_samples_leaf |-> 2, l2 |-> 0, max_bins |-> 3]}

Boost == INSTANCE Boosting WITH
  Columns <- 1, Values <- {1, 2, 3}, MaxRows <- 4, Params <- Fits

\* Two sessions, of four minutes and of two; bars that close at their low, or at
\* their high on more volume.
WatchSessions == <<[open |-> 0, close |-> 8], [open |-> 10, close |-> 14]>>

WatchRules ==
  {[kind |-> "PRICE_CROSS", level |-> 3, direction |-> "ABOVE", cooldown |-> 6],
   [kind |-> "PRESSURE", threshold |-> 1500, window |-> 2, cooldown |-> 4]}

Watch == INSTANCE Watchlist WITH
  Minute <- 2, Grace <- 1, Sessions <- WatchSessions, Rules <- WatchRules,
  Candles <- {[high |-> 4, low |-> 2, close |-> 2, volume |-> 1],
              [high |-> 4, low |-> 2, close |-> 4, volume |-> 3]},
  LastCreation <- 1, MaxDisturbed <- 1,
  now <- instant, bars <- stored, run <- job

ASSUME ScanningAssumption == ScanAssumption
ASSUME ParamsAssumption == Boost!ParamsAssumption
ASSUME WatchAssumption == Watch!SessionsAssumption /\ Watch!RulesAssumption

Symmetry == Permutations(Requests)

boostVars == <<rows, params>>
watchVars == <<instant, rule, created, stored, job, alerts, disturbed>>

SeriesRests == candles = None /\ readings = None
ScanRests == Init /\ bound = CHOOSE b \in Bounds : TRUE
BoostRests == rows = None /\ params = None
WatchRests ==
  /\ instant = None /\ rule = None /\ created = None /\ stored = None
  /\ job = None /\ alerts = None /\ disturbed = None

MCInit ==
  \/ study = "series" /\ StudyInit /\ ScanRests /\ BoostRests /\ WatchRests
  \/ study = "scan" /\ Init /\ SeriesRests /\ BoostRests /\ WatchRests
  \/ study = "boost" /\ Boost!Init /\ SeriesRests /\ ScanRests /\ WatchRests
  \/ study = "watch" /\ Watch!Init /\ SeriesRests /\ ScanRests /\ BoostRests

MCNext ==
  \/ study = "series" /\ StudyNext /\ UNCHANGED <<study, vars, boostVars, watchVars>>
  \/ study = "scan" /\ Next /\ UNCHANGED <<study, studyVars, boostVars, watchVars>>
  \/ study = "boost" /\ Boost!Next /\ UNCHANGED <<study, studyVars, vars, watchVars>>
  \/ study = "watch" /\ Watch!Next /\ UNCHANGED <<study, studyVars, vars, boostVars>>

MCSpec == MCInit /\ [][MCNext]_<<study, studyVars, vars, boostVars, watchVars>>

(***************************************************************************)
(* The properties of ResearchStudy, after every candle of every series: no *)
(* look-ahead, labels that live like orders, a market without a side, and  *)
(* training that is blind to what it is judged on.                         *)
(***************************************************************************)
NoLookAhead == study = "series" => BacktestReadsWhatTheScanRead
LabelsLiveLikeOrders == study = "series" => LabelsMeasureLikeTheFillModel
MarketHasNoSide == study = "series" => ShortsMirrorLongs
TrainingStaysBlind == study = "series" => TrainingIsBlind

(***************************************************************************)
(* The property of Boosting, for every training set: a model answers as it *)
(* was trained, and is judged by what AUC means.                           *)
(***************************************************************************)
AnswersAsTrained == study = "boost" => Boost!AnswersAsTrained

(***************************************************************************)
(* The property of Watchlist: one alert per crossing, however the session  *)
(* was cut into runs.                                                      *)
(***************************************************************************)
OneAlertPerCrossing == study = "watch" => Watch!OneAlertPerCrossing
=============================================================================
