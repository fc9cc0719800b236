---------------------------- MODULE MCMarketData ----------------------------
(***************************************************************************)
(* Five studies that share one run and nothing else: the bar store and its *)
(* knowledge instants (Watermark), the calendar an order is reloaded with  *)
(* (CalendarReload), a click beside the signal's own order (Actionability),*)
(* the account of each session that closed (SessionQuality) and the owner's*)
(* watcher (HealthWatch). study picks one; the variables of the others rest.*)
(***************************************************************************)
EXTENDS Watermark, CalendarReload, Actionability, SessionQuality, HealthWatch

CONSTANTS
  LastMinute,   \* bound of the calendars' sessions
  Prices        \* the prices of the bars of a signal

VARIABLE study

\* Every calendar of two or three sessions whose bounds are minutes of
\* 0..LastMinute, sessions that touch included, in ticks.
Session(o, c) == [open |-> o * Minute, close |-> c * Minute]

TwoSessions ==
  {<<Session(p[1], p[2]), Session(p[3], p[4])>> :
     p \in {q \in (0..LastMinute) \X (0..LastMinute) \X (0..LastMinute) \X (0..LastMinute) :
              q[1] < q[2] /\ q[2] <= q[3] /\ q[3] < q[4]}}

MCCalendars ==
  TwoSessions \cup
  UNION {{s \o <<Session(p[1], p[2])>> :
            p \in {q \in (0..LastMinute) \X (0..LastMinute) :
                     q[1] < q[2] /\ s[2].close <= q[1] * Minute}} : s \in TwoSessions}

\* One LONG chain, stop 2 < zone 4 < target1 5 (the trigger's level too), and
\* bars that stay at a price or spike from one to another (a bar that opens at
\* the stop stays there). The window is two sessions of two minutes.
ClickSessions ==
  <<[open |-> 0, close |-> 4], [open |-> 6, close |-> 10], [open |-> 12, close |-> 14]>>

ClickCandles ==
  {c \in [open : Prices, high : Prices, low : Prices, close : Prices] :
     /\ c.low <= c.open /\ c.open <= c.high /\ c.open = c.close
     /\ c.open = c.low \/ c.open = c.high
     /\ c.open = 2 => c.high = 2}

ClickSignals ==
  {[direction |-> "LONG", low |-> 4, high |-> 4, stop |-> 2, target1 |-> 5,
    target2 |-> None, trigger |-> trigger] : trigger \in {5, None}}

ClickConfigs ==
  {[risk_amount |-> 24, entry_slip |-> 0, stop_slip |-> 0, commission |-> 0,
    sec_taf_fees_enabled |-> FALSE, sec_fee_rate |-> 0, taf_fee_per_share |-> 0,
    taf_fee_max |-> 0, scale_out_pct |-> 50, policy |-> policy] :
     policy \in {"RECLAIM", "CANCEL"}}

MCInstants == 0..(LastMinute * Minute)

(* Two workers that overlap on one evening's retry and the next one; one
   worker over more days, with a transaction that fails. *)
MCQualityBounds ==
  {[day |-> 2, errors |-> 0, crashes |-> 0, workers |-> Workers],
   [day |-> 3, errors |-> 1, crashes |-> 1, workers |-> {CHOOSE w \in Workers : TRUE}]}

(* A watcher over an unreliable database, and two days of jobs. *)
MCWatchBounds ==
  {[days |-> 1, jobs |-> 0, observations |-> 5, outages |-> 1, restarts |-> 1, troubles |-> 2],
   [days |-> 2, jobs |-> 5, observations |-> 0, outages |-> 0, restarts |-> 0, troubles |-> 0]}

ASSUME EveningAssumption ==
  LimitsAssumption /\ LookbackAssumption /\ ThresholdAssumption /\ ConditionAssumption /\ HorizonAssumption

CalendarRests ==
  /\ sessionsA = <<Session(0, 1), Session(1, 2), Session(2, 3)>> /\ sessionsB = sessionsA
  /\ created = 0 /\ ReloadInit /\ until = sessionsA[1].close

ClickRests ==
  /\ ctx = None /\ instant = None /\ tape = None
  /\ auto = None /\ answer = None /\ manual = {}

QualityRests == QualityInit /\ qualityBound = CHOOSE bound \in QualityBounds : TRUE

WatchRests == WatchInit /\ watchBound = CHOOSE bound \in WatchBounds : TRUE

MCInit ==
  \/ study = "store" /\ Init /\ CalendarRests /\ ClickRests /\ QualityRests /\ WatchRests
  \/ study = "calendar" /\ ReloadInit /\ Init /\ ClickRests /\ QualityRests /\ WatchRests
  \/ study = "click" /\ ClickInit /\ Init /\ CalendarRests /\ QualityRests /\ WatchRests
  \/ study = "evening" /\ QualityInit /\ Init /\ CalendarRests /\ ClickRests /\ WatchRests
  \/ study = "health" /\ WatchInit /\ Init /\ CalendarRests /\ ClickRests /\ QualityRests

MCNext ==
  \/ study = "store" /\ Next /\ UNCHANGED <<study, reloadVars, clickVars, qualityVars, watchVars>>
  \/ study = "calendar" /\ ReloadNext /\ UNCHANGED <<study, vars, clickVars, qualityVars, watchVars>>
  \/ study = "click" /\ ClickNext /\ UNCHANGED <<study, vars, reloadVars, qualityVars, watchVars>>
  \/ study = "evening" /\ QualityNext /\ UNCHANGED <<study, vars, reloadVars, clickVars, watchVars>>
  \/ study = "health" /\ WatchNext /\ UNCHANGED <<study, vars, reloadVars, clickVars, qualityVars>>

MCSpec == MCInit /\ [][MCNext]_<<study, vars, reloadVars, clickVars, qualityVars, watchVars>>

Log == INSTANCE KnowledgeLog WITH
  log <- SetToSortSeq(batches, LAMBDA x, y : x.at < y.at),
  cuts <- {Cardinality({x \in batches : x.at <= t}) : t \in published}

(***************************************************************************)
(* The store implements the log: the instants of acquire_data_as_of are    *)
(* cuts at its end and later batches come after every cut.                 *)
(***************************************************************************)
ImplementsLog == Log!Spec

=============================================================================
