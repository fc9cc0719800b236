----------------------------- MODULE Watchlist -----------------------------
(***************************************************************************)
(* A watched ticker and one of the owner's alert rules: the worker's       *)
(* watchlist job ingests the session's bars, fixes an instant and then     *)
(* evaluates the rule over the whole session again (alerts/watch.py,       *)
(* rules.py, watchlist.py).  What was already told is only in the outbox.  *)
(*                                                                         *)
(* A run is several transactions: other jobs store and correct bars, and   *)
(* the rule is created, between any two of them.                           *)
(***************************************************************************)
EXTENDS Pressure

LOCAL INSTANCE SequencesExt
LOCAL INSTANCE FiniteSetsExt

CONSTANTS
  Minute,       \* ticks per minute
  Sessions,     \* a sequence of [open, close]
  Grace,        \* how long after its close a session is still watched
  Candles,      \* the bars a minute can have
  Rules,        \* [kind, level, direction, threshold, window, cooldown]
  LastCreation, \* bound: the rule is created by then
  MaxDisturbed  \* bound: the bars that another job stores late or corrects

SessionsAssumption ==
  \A i \in DOMAIN Sessions :
    /\ Sessions[i].open < Sessions[i].close
    /\ i > 1 => Sessions[i - 1].close + Grace < Sessions[i].open

\* parse_rule_body; a window has at least five bars there.
RulesAssumption ==
  \A r \in Rules :
    /\ r.cooldown >= 0
    /\ \/ /\ r.kind = "PRICE_CROSS" /\ DOMAIN r = {"kind", "cooldown", "level", "direction"}
          /\ r.level > 0 /\ r.direction \in {"ABOVE", "BELOW"}
       \/ /\ r.kind = "PRESSURE" /\ DOMAIN r = {"kind", "cooldown", "threshold", "window"}
          /\ r.threshold > 0 /\ r.window > 1

VARIABLES
  now,
  rule,         \* the rule's draft, as parse_rule_body leaves it
  created,      \* when the rule was created, None before
  bars,         \* the stored bar of each minute, None without one
  run,          \* the run of the job [session, end, active, seen], or None
  alerts,       \* the subject_ts of the rule's alerts in the outbox
  disturbed     \* how many bars came late or were corrected

vars == <<now, rule, created, bars, run, alerts, disturbed>>

Minutes == UNION {{m \in s.open..(s.close - 1) : m % Minute = 0} : s \in Range(Sessions)}

Floor(ts) == ts - (ts % Minute)

Init ==
  /\ rule \in Rules
  /\ now = 0 /\ created = None 
  /\ bars = [m \in Minutes |-> None]
  /\ run = None /\ alerts = {} /\ disturbed = 0

Tick ==
  /\ now <= Last(Sessions).close + Grace
  /\ now' = now + 1
  /\ UNCHANGED <<rule, created, bars, run, alerts, disturbed>>

-----------------------------------------------------------------------------
\* create_rule; removing it, or its ticker, only ends what follows.
CreateRule ==
  /\ created = None /\ now <= LastCreation
  /\ created' = now
  /\ UNCHANGED <<now, rule, bars, run, alerts, disturbed>>

-----------------------------------------------------------------------------
(* The rules, over bars in order. *)

\* Mutant: the alerts of earlier runs do not count.
CooledAlone(ts, last) == TRUE

\* _cooled
Cooled(ts, last) == last = None \/ ts - last >= rule.cooldown

Crossed(previous, close) ==
  IF rule.direction = "ABOVE" THEN previous < rule.level /\ rule.level <= close
  ELSE previous > rule.level /\ rule.level >= close

\* price_crossings
PriceCrossings(window, last) ==
  FoldLeft(LAMBDA found, i :
             IF i > 1 /\ Crossed(window[i - 1].close, window[i].close) /\ Cooled(window[i].ts, found.last)
             THEN [told |-> found.told \cup {window[i].ts}, last |-> window[i].ts]
             ELSE found,
           [told |-> {}, last |-> last], [i \in DOMAIN window |-> i]).told

Tail_(window, n) == SubSeq(window, Len(window) - n + 1, Len(window))

\* pressure_alert
PressureAlert(window, last) ==
  IF Len(window) < rule.window THEN {}
  ELSE LET latest == Tail_(window, rule.window)
           ts == latest[rule.window].ts
       IN  IF StrongPressure(EstimatePressure(latest), rule.threshold) # None /\ Cooled(ts, last)
           THEN {ts} ELSE {}

\* first_minute_at_or_after
UsableFrom(ts) == IF Floor(ts) = ts THEN ts ELSE Floor(ts) + Minute

LastAlert == IF alerts = {} THEN None ELSE Max(alerts)

\* _evaluate_rule: the bar before the rule's first one only feeds a close.
Alerts(series, usable) ==
  LET after == SelectSeq(series, LAMBDA bar : bar.ts >= usable)
      before == SelectSeq(series, LAMBDA bar : bar.ts < usable)
  IN  IF rule.kind = "PRICE_CROSS"
      THEN PriceCrossings(Tail_(before, Least(1, Len(before))) \o after, LastAlert)
      ELSE PressureAlert(after, LastAlert)

-----------------------------------------------------------------------------
(* run_watchlist_cycle *)

\* read_bars_as_of over the minutes from open to end.
Series(stored, open, end) ==
  LET present == {m \in Minutes : open <= m /\ m < end /\ stored[m] # None}
      order == SetToSortSeq(present, LAMBDA m, n : m < n)
  IN  [i \in DOMAIN order |-> [ts |-> order[i]] @@ stored[order[i]]]

\* The tickers and the rules are read; without alerting there are no rules.
BeginRun(enabled) ==
  \E session \in Range(Sessions) :
    /\ run = None
    /\ session.open <= now /\ now <= session.close + Grace
    /\ run' = [session |-> session, end |-> Least(Floor(now), session.close),
               active |-> enabled /\ created # None, seen |-> None]
    /\ UNCHANGED <<now, rule, created, bars, alerts, disturbed>>

\* _ingest: what the feed has of the minutes after the latest stored one.
Missing(stored) ==
  LET present == {m \in Minutes : run.session.open <= m /\ m < run.end /\ stored[m] # None}
  IN  {m \in Minutes : /\ run.session.open <= m /\ m < run.end
                       /\ \A p \in present : p < m}

\* After it, the run's instant: it will see what is stored now.
Ingest ==
  /\ run # None /\ run.seen = None
  /\ \E fetched \in [Missing(bars) -> Candles \cup {None}] :
     \E stored \in {[m \in Minutes |-> IF m \in DOMAIN fetched THEN fetched[m] ELSE bars[m]]} :
       /\ bars' = stored
       /\ run' = [run EXCEPT !.seen = Series(stored, run.session.open, run.end)]
  /\ UNCHANGED <<now, rule, created, alerts, disturbed>>

\* One transaction: the outbox drops a key that it has.
EvaluateRule ==
  /\ run # None /\ run.seen # None
  /\ alerts' = IF run.active THEN alerts \cup Alerts(run.seen, UsableFrom(created)) ELSE alerts
  /\ run' = None
  /\ UNCHANGED <<now, rule, created, bars, disturbed>>

\* The feed failed, or the rule did, or the process dies: the next run is the retry.
EndRun ==
  /\ run # None
  /\ run' = None
  /\ UNCHANGED <<now, rule, created, bars, alerts, disturbed>>

\* Another job stores a bar of the feed, late or corrected.
Correct(m, candle) ==
  /\ m + Minute <= now /\ bars[m] # candle /\ disturbed < MaxDisturbed
  /\ bars' = [bars EXCEPT ![m] = candle]
  /\ disturbed' = disturbed + 1
  /\ UNCHANGED <<now, rule, created, run, alerts>>

-----------------------------------------------------------------------------

Job ==
  \/ \E enabled \in BOOLEAN : BeginRun(enabled)
  \/ Ingest
  \/ EvaluateRule
  \/ EndRun

Next ==
  \/ Tick
  \/ CreateRule
  \/ Job
  \/ \E m \in Minutes, candle \in Candles : Correct(m, candle)

Spec == Init /\ [][Next]_vars

-----------------------------------------------------------------------------

(***************************************************************************)
(* A rule is never told twice within its cooldown, over all runs, days,    *)
(* corrections and bars that come late.                                    *)
(***************************************************************************)
Spaced == \A x, y \in alerts : x < y => y - x >= rule.cooldown

(***************************************************************************)
(* However a session was cut into runs, and whichever of them failed or    *)
(* were skipped, the crossings told are a beginning of those that one      *)
(* reader of the whole session would tell: every crossing of a bar the     *)
(* rule may use, unless a cooldown covers it.  (Bars that another job      *)
(* stores behind the newest one may cross unheard: D26.)                   *)
(***************************************************************************)
Crossings(series) ==
  {series[i].ts : i \in {j \in 2..Len(series) :
     /\ series[j].ts >= UsableFrom(created)
     /\ Crossed(series[j - 1].close, series[j].close)}}

TellsABeginning ==
  (rule.kind = "PRICE_CROSS" /\ disturbed = 0 /\ created # None) =>
    \A s \in Range(Sessions) :
      \E crossings \in {Crossings(Series(bars, s.open, s.close))}, end \in Minutes \cup {s.close} :
        /\ {ts \in alerts : s.open <= ts /\ ts < s.close} \subseteq crossings
        /\ \A ts \in crossings :
             ts \in alerts <=> /\ ts < end
                               /\ \A told \in alerts : told < ts => ts - told >= rule.cooldown

OneAlertPerCrossing == Spaced /\ TellsABeginning

=============================================================================
