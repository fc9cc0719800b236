--------------------------- MODULE Actionability ---------------------------
(***************************************************************************)
(* A manual order taken at the instant of a click while a signal runs      *)
(* (core/actionability.py, evaluator/manual.py).  The click replays the    *)
(* complete bars of the signal through a hypothetical order, refuses when  *)
(* that order is no longer PENDING, and otherwise creates an order that    *)
(* inherits its gating state and starts at the first whole bar after.      *)
(*                                                                         *)
(* The signal's own AUTO order, evaluated bar by bar, runs beside it: the  *)
(* properties compare the two.  Time has ticks inside a minute, so a click *)
(* can fall inside a bar.                                                  *)
(***************************************************************************)
EXTENDS FillModel

CONSTANTS
  Signals, Configs,   \* the level chains and fill configurations tried
  Candles,            \* the [open, high, low, close] a bar can have
  Created,            \* created_at of the signal
  ValidSessions       \* its valid_sessions

ASSUME SignalsAssumption ==
  \A sig \in Signals :
    /\ sig \in [direction : {"LONG", "SHORT"}, low : Int, high : Int, stop : Int,
                target1 : Int, target2 : Price, trigger : Price]
    /\ ValidSignal(sig)

ASSUME CandlesAssumption ==
  \A candle \in Candles : candle \in [open : Int, high : Int, low : Int, close : Int] /\ IsBar(candle)

VARIABLES
  ctx,      \* the signal's context
  instant,  \* now
  tape,     \* the bars stored for the signal so far
  auto,     \* the AUTO order's state
  answer,   \* how the last click was answered, None before one
  manual    \* the manual order [at, ctx, state, missed] once one is taken, in a set

clickVars == <<ctx, instant, tape, auto, answer, manual>>

Start == EvaluationStart(Created)
Until == SignalValidUntil(Start, ValidSessions)

\* The calendar covers the window and a session after it, which
\* calendar_window_hash needs: no query of a click leaves its range.
ASSUME WindowAssumption ==
  /\ Start \in Nat /\ Until \in Nat
  /\ \E i \in DOMAIN Sessions : Until < Sessions[i].open

\* None is no gating state.
ASSUME GatingAssumption ==
  None \notin [status : {"PENDING"}, zone_lost : BOOLEAN,
               entry_eligible_from : Int \cup {None}, trigger_hit_at : Int \cup {None}]

ClickInit ==
  /\ ctx \in [signal : Signals, config : Configs, start : {Start}, until : {Until}]
  /\ instant = Start /\ tape = <<>> /\ answer = None /\ manual = {}
  /\ auto = NewOrderState(ctx, None).state

-----------------------------------------------------------------------------

\* The bars before the first one that is not complete at t.
CompleteBars(bars, t) == {i \in DOMAIN bars : \A j \in 1..i : bars[j].ts + Minute <= t}

\* signal_actionability
HypotheticalState(bars, t) ==
  RunBars(NewOrderState(ctx, None).state,
          SubSeq(bars, 1, Cardinality(CompleteBars(bars, t))), ctx).state

CloseReasons ==
  [STOPPED |-> "STOPPED", TARGET_FINAL |-> "TARGET_REACHED", TIME_EXIT |-> "SIGNAL_EXPIRED"]

SignalActionability(bars, t) ==
  LET s == HypotheticalState(bars, t) IN
  IF t >= ctx.until \/ s.status = "EXPIRED" THEN "SIGNAL_EXPIRED"
  ELSE IF s.status = "PENDING" THEN "ACTIONABLE"
  ELSE IF s.status = "INVALIDATED" THEN "INVALIDATED"
  ELSE IF s.status \in {"OPEN", "PARTIAL"} THEN "ENTRY_OPPORTUNITY_ALREADY_OCCURRED"
  ELSE CloseReasons[s.close_reason]

\* STRICT_PRIMARY_COVERAGE: every expected minute up to the click has its bar.
ExpectedMinutes(from, to) == {m \in from..(to - 1) : IsExpectedMinute(m)}
CoverageVerified(t) ==
  ExpectedMinutes(ctx.start, IF Floor(t) < ctx.until THEN Floor(t) ELSE ctx.until)
    \subseteq {tape[i].ts : i \in DOMAIN tape}

\* build_manual_order, once the signal is actionable.
BuildManualOrder(bars, t) ==
  LET context == [ctx EXCEPT !.start = EvaluationStart(t)] IN
  [at |-> t, ctx |-> context, missed |-> FALSE,
   state |-> NewOrderState(context, GatingState(HypotheticalState(bars, t))).state]

\* create_manual_order: expired first, then coverage, then the decision.
Decide(bars, t) ==
  IF t >= ctx.until THEN "SIGNAL_EXPIRED"
  ELSE IF ~CoverageVerified(t) THEN "ACTIONABILITY_UNVERIFIABLE"
  ELSE IF SignalActionability(bars, t) # "ACTIONABLE" THEN SignalActionability(bars, t)
  ELSE IF EvaluationStart(t) >= ctx.until THEN "SIGNAL_EXPIRED"
  ELSE "ACTIONABLE"

Click ==
  /\ manual = {}
  /\ answer' = Decide(tape, instant)
  /\ IF answer' = "ACTIONABLE"
     THEN manual' = {BuildManualOrder(tape, instant)} /\ tape' = <<>>
     ELSE UNCHANGED <<manual, tape>>
  /\ UNCHANGED <<ctx, instant, auto>>

\* A bar is complete when its minute has passed: both orders are stepped. The
\* bar a click fell into is not the manual order's (D1): missed says whether
\* it did anything to the AUTO order.
Bar(bar) ==
  /\ auto' = Step(auto, bar, ctx).state
  /\ tape' = IF manual = {} THEN Append(tape, bar) ELSE tape
  /\ manual' = {[order EXCEPT
                   !.state = Step(@, bar, order.ctx).state,
                   !.missed = @ \/ /\ bar.ts < order.ctx.start
                                   /\ auto' # [auto EXCEPT !.last_bar_ts = bar.ts]] : order \in manual}

BarExpected == /\ ctx.start <= instant + 1 - Minute /\ instant < ctx.until
               /\ IsExpectedMinute(instant + 1 - Minute)

AdvanceInstant ==
  /\ instant <= ctx.until
  /\ instant' = instant + 1
  /\ IF BarExpected
     THEN \/ \E candle \in Candles :
               Bar([ts |-> instant + 1 - Minute, open |-> candle.open, high |-> candle.high,
                    low |-> candle.low, close |-> candle.close])
          \/ UNCHANGED <<auto, tape, manual>>   \* the provider has no bar
     ELSE UNCHANGED <<auto, tape, manual>>
  /\ UNCHANGED <<ctx, answer>>

ClickNext == Click \/ AdvanceInstant

ClickSpec == ClickInit /\ [][ClickNext]_clickVars

-----------------------------------------------------------------------------

(***************************************************************************)
(* A click inherits exactly what the signal went through (design 3.4.1):   *)
(* from then on the manual order goes bar by bar through the states of the *)
(* AUTO order, entry path included, unless the one bar the click fell into *)
(* did something to the AUTO order.                                        *)
(***************************************************************************)
ManualFollowsAuto ==
  \A order \in manual :
    ~order.missed => order.state = [auto EXCEPT !.last_bar_ts = order.state.last_bar_ts]

=============================================================================
