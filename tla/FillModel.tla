------------------------------ MODULE FillModel ------------------------------
(***************************************************************************)
(* The fill model v1 of core/fills/v1: what one bar, or one command, makes *)
(* of a virtual order.  Every operator is pure, as the code's are: it maps *)
(* the order's state to a result [state, events].                          *)
(*                                                                         *)
(* Prices are integers.  The level rules only compare them, slippage is an *)
(* adverse number of ticks (the code's bps of the price) and quantities    *)
(* are risk_amount divided by a distance, which the instances choose so    *)
(* that the division is exact.  An event keeps its type, its bar's ts, its *)
(* price, its quantity, the pnl, cost or cash of its payload, under        *)
(* "level" the payload's own price (raw_price, new_stop_level,             *)
(* zone_boundary_level or amount_per_share), ref or at, and under "reason" *)
(* the reason of a freeze or a review.                                     *)
(*                                                                         *)
(* ctx is [signal, config, start, until]; the calendar is Sessions.        *)
(***************************************************************************)
EXTENDS Optional, Calendar, SequencesExt

ASSUME NoneAssumption == None \notin Int /\ None \notin {"DIRECT", "RECLAIMED"}

Window == [open : Nat, close : Nat]
ASSUME CalendarAssumption ==
  Minute \in Nat \ {0} /\ Sessions \in Seq(Window) /\ IsCalendar(Sessions)

Price == Int \cup {None}

FinalStatuses == {"CLOSED", "EXPIRED", "INVALIDATED", "CANCELED"}

MarketEventTypes ==
  {"TRIGGER_HIT", "ZONE_LOST", "ZONE_RECLAIMED", "FILLED", "TARGET1_HIT",
   "TARGET2_HIT", "STOPPED", "TIME_EXIT", "INVALIDATED"}

Exits == {"TARGET1_HIT", "TARGET2_HIT", "STOPPED", "TIME_EXIT"}

IsFinal(s) == s.status \in FinalStatuses
Frozen(s) == s.frozen_reasons # {}

StepResult(s, evs) == [state |-> s, events |-> evs]
Unchanged(s) == StepResult(s, <<>>)
After(evs, result) == [result EXCEPT !.events = evs \o @]

Event(type, ts) ==
  [type |-> type, ts |-> ts, price |-> None, level |-> None,
   qty |-> 0, pnl |-> 0, cost |-> 0, reason |-> None]

Lesser(x, y) == IF x # None /\ x < y THEN x ELSE y
Greater(x, y) == IF x # None /\ x > y THEN x ELSE y

-----------------------------------------------------------------------------
(* mirror.py: a SHORT order runs the LONG rules on negated prices. *)

Neg(p) == IF p = None THEN None ELSE -p

\* Mutant: negated prices that keep their names.
MirrorBarUnswapped(bar) ==
  [bar EXCEPT !.open = -@, !.high = -@, !.low = -@, !.close = -@]

MirrorBar(bar) ==
  [bar EXCEPT !.open = -@, !.high = -bar.low, !.low = -bar.high, !.close = -@]

MirrorSignal(sig) ==
  [sig EXCEPT !.low = -sig.high, !.high = -sig.low, !.stop = -@,
              !.target1 = -@, !.target2 = Neg(@), !.trigger = Neg(@)]

MirrorState(s) ==
  [s EXCEPT !.avg_entry = Neg(@), !.initial_stop = Neg(@), !.stop_current = Neg(@),
            !.stop_previous = Neg(@), !.best_price = Neg(@), !.worst_price = Neg(@)]

\* Mutant: a price that is not mirrored back.
MirrorEventKeepsPrice(e) == [e EXCEPT !.level = Neg(@)]

MirrorEvent(e) == [e EXCEPT !.price = Neg(@), !.level = Neg(@)]

MirrorResult(result) ==
  StepResult(MirrorState(result.state),
             [i \in DOMAIN result.events |-> MirrorEvent(result.events[i])])

-----------------------------------------------------------------------------

\* validate_signal: the level chain, natively for each direction.
ValidSignal(sig) ==
  /\ sig.low <= sig.high
  /\ IF sig.direction = "LONG"
     THEN /\ sig.stop < sig.low /\ sig.high < sig.target1
          /\ sig.target2 # None => sig.target1 < sig.target2
     ELSE /\ sig.stop > sig.high /\ sig.low > sig.target1
          /\ sig.target2 # None => sig.target1 > sig.target2

\* FillConfig: what is bought for the risk at this distance from the stop is
\* something, and the first target sells a part of it.
Sized(config, distance) ==
  LET qty == config.risk_amount \div distance
      part == (qty * config.scale_out_pct) \div 100
  IN  0 < part /\ part < qty

IsBar(bar) ==
  \A p \in {bar.open, bar.close} : bar.low <= p /\ p <= bar.high

AdverseBuy(price, ticks) == price + ticks
AdverseSell(price, ticks) == price - ticks

ExecutionCost(ctx, price, qty, leg) ==
  LET c == ctx.config
      isSell == leg = IF ctx.signal.direction = "LONG" THEN "exit" ELSE "entry"
      fees == (IF price < 0 THEN -price ELSE price) * qty * c.sec_fee_rate
                + Lesser(qty * c.taf_fee_per_share, c.taf_fee_max)
  IN  c.commission + IF c.sec_taf_fees_enabled /\ isSell THEN fees ELSE 0

\* Mutant: the trigger is not inherited.
GatingStateUntriggered(s) ==
  [status |-> s.status, zone_lost |-> s.zone_lost,
   entry_eligible_from |-> s.entry_eligible_from, trigger_hit_at |-> None]

GatingState(s) ==
  [status |-> s.status, zone_lost |-> s.zone_lost,
   entry_eligible_from |-> s.entry_eligible_from, trigger_hit_at |-> s.trigger_hit_at]

NewOrderState(ctx, inherited) ==
  LET fresh ==
        [status |-> "PENDING", zone_lost |-> FALSE, zone_ever_lost |-> FALSE,
         entry_eligible_from |-> None, trigger_hit_at |-> None, entry_path |-> None,
         avg_entry |-> None, initial_stop |-> ctx.signal.stop,
         stop_current |-> ctx.signal.stop, stop_previous |-> None,
         stop_active_from |-> None, t1_done |-> FALSE, qty_total |-> 0, qty_open |-> 0,
         realized_pnl |-> 0, costs |-> 0, dividends |-> 0, best_price |-> None,
         worst_price |-> None, opened_at |-> None, closed_at |-> None,
         final_event_ts |-> None, last_bar_ts |-> None, close_reason |-> None,
         frozen_reasons |-> {}, review_reasons |-> {}]
      gated ==
        [fresh EXCEPT !.zone_lost = inherited.zone_lost,
                      !.zone_ever_lost = \/ inherited.zone_lost
                                         \/ inherited.entry_eligible_from # None,
                      !.entry_eligible_from = inherited.entry_eligible_from,
                      !.trigger_hit_at = inherited.trigger_hit_at]
  IN  StepResult(IF inherited = None THEN fresh ELSE gated, <<Event("ORDER_CREATED", None)>>)

-----------------------------------------------------------------------------
(* The phases of a bar, in LONG terms. *)

\* Mutant: a lost zone does not block the entry.
EligibleInLostZone(s, bar, sig) ==
  /\ s.entry_eligible_from # None => bar.ts >= s.entry_eligible_from
  /\ sig.trigger # None =>
       /\ s.trigger_hit_at # None
       /\ bar.ts >= NextExpectedMinute(s.trigger_hit_at)

Eligible(s, bar, sig) ==
  /\ ~s.zone_lost
  /\ s.entry_eligible_from # None => bar.ts >= s.entry_eligible_from
  /\ sig.trigger # None =>
       /\ s.trigger_hit_at # None
       /\ bar.ts >= NextExpectedMinute(s.trigger_hit_at)

Invalidate(s, bar) ==
  StepResult([s EXCEPT !.status = "INVALIDATED", !.final_event_ts = bar.ts],
             <<Event("INVALIDATED", bar.ts)>>)

\* Closes what is open at the price; level is the raw price of a stop or time exit.
Close(s, bar, ctx, type, price, level, reason) ==
  LET pnl == (price - s.avg_entry) * s.qty_open
      cost == ExecutionCost(ctx, price, s.qty_open, "exit")
  IN  StepResult(
        [s EXCEPT !.status = "CLOSED", !.qty_open = 0, !.realized_pnl = @ + pnl,
                  !.costs = @ + cost, !.close_reason = reason, !.closed_at = bar.ts,
                  !.final_event_ts = bar.ts],
        <<[Event(type, bar.ts) EXCEPT !.price = price, !.level = level,
             !.qty = s.qty_open, !.pnl = pnl, !.cost = cost]>>)

\* The first target scales out and moves the stop to the entry price.
ScaleOut(s, bar, sig, ctx) ==
  LET qty == (s.qty_total * ctx.config.scale_out_pct) \div 100
      pnl == (sig.target1 - s.avg_entry) * qty
      cost == ExecutionCost(ctx, sig.target1, qty, "exit")
  IN  StepResult(
        [s EXCEPT !.status = "PARTIAL", !.t1_done = TRUE, !.qty_open = @ - qty,
                  !.realized_pnl = @ + pnl, !.costs = @ + cost,
                  !.stop_previous = s.stop_current, !.stop_current = s.avg_entry,
                  !.stop_active_from = NextExpectedMinute(bar.ts)],
        <<[Event("TARGET1_HIT", bar.ts) EXCEPT !.price = sig.target1,
             !.level = s.avg_entry, !.qty = qty, !.pnl = pnl, !.cost = cost]>>)

ExitPhase(s, bar, sig, ctx, entryBar) ==
  LET stop == IF s.stop_active_from # None /\ bar.ts < s.stop_active_from
              THEN s.stop_previous ELSE s.stop_current
      stopped == bar.low <= stop
      seen == [s EXCEPT !.best_price = IF entryBar \/ stopped THEN @ ELSE Greater(@, bar.high),
                        !.worst_price = Lesser(@, bar.low)]
      raw == Lesser(bar.open, stop)
      hit1 == ~s.t1_done /\ bar.high >= sig.target1
      scaled == IF hit1 THEN ScaleOut(seen, bar, sig, ctx) ELSE Unchanged(seen)
  IN  IF stopped
      THEN Close(seen, bar, ctx, "STOPPED", AdverseSell(raw, ctx.config.stop_slip), raw, "STOPPED")
      ELSE IF entryBar THEN Unchanged(seen)
      ELSE IF hit1 /\ sig.target2 = None
      THEN Close(seen, bar, ctx, "TARGET1_HIT", sig.target1, None, "TARGET_FINAL")
      ELSE IF scaled.state.t1_done /\ sig.target2 # None /\ bar.high >= sig.target2
      THEN After(scaled.events, Close(scaled.state, bar, ctx, "TARGET2_HIT", sig.target2,
                                      None, "TARGET_FINAL"))
      ELSE scaled

Fill(s, bar, sig, ctx, raw) ==
  LET price == AdverseBuy(raw, ctx.config.entry_slip)
      qty == ctx.config.risk_amount \div (price - sig.stop)
      cost == ExecutionCost(ctx, price, qty, "entry")
  IN  StepResult(
        [s EXCEPT !.status = "OPEN", !.avg_entry = price, !.initial_stop = sig.stop,
                  !.stop_current = sig.stop, !.qty_total = qty, !.qty_open = qty,
                  !.costs = @ + cost, !.opened_at = bar.ts, !.best_price = price,
                  !.entry_path = IF s.zone_ever_lost THEN "RECLAIMED" ELSE "DIRECT"],
        <<[Event("FILLED", bar.ts) EXCEPT !.price = price, !.level = raw,
             !.qty = qty, !.cost = cost]>>)

\* Mutant: rule 3 without the touch of the zone.
EntryPriceUntouched(bar, sig) ==
  IF sig.low <= bar.open /\ bar.open <= sig.high THEN bar.open
  ELSE IF bar.open > sig.high THEN sig.high
  ELSE None

\* Rules 2 and 3: the raw price of an entry on this bar, None without one.
EntryPrice(bar, sig) ==
  IF sig.low <= bar.open /\ bar.open <= sig.high THEN bar.open
  ELSE IF bar.open > sig.high /\ bar.low < sig.high THEN sig.high
  ELSE None

\* Rule 5.
LoseZone(s, bar, sig) ==
  IF ~s.zone_lost /\ (bar.open < sig.low \/ bar.close < sig.low)
  THEN StepResult([s EXCEPT !.zone_lost = TRUE, !.zone_ever_lost = TRUE],
                  <<[Event("ZONE_LOST", bar.ts) EXCEPT !.level = sig.low]>>)
  ELSE Unchanged(s)

\* Rule 6.
ReclaimZone(s, bar, sig) ==
  IF s.zone_lost /\ bar.close >= sig.low
  THEN StepResult([s EXCEPT !.zone_lost = FALSE,
                            !.entry_eligible_from = NextExpectedMinute(bar.ts)],
                  <<Event("ZONE_RECLAIMED", bar.ts)>>)
  ELSE Unchanged(s)

HitTrigger(s, bar, sig) ==
  IF sig.trigger # None /\ s.trigger_hit_at = None /\ bar.high >= sig.trigger
  THEN StepResult([s EXCEPT !.trigger_hit_at = bar.ts],
                  <<[Event("TRIGGER_HIT", bar.ts) EXCEPT !.price = sig.trigger]>>)
  ELSE Unchanged(s)

\* A bar without an entry: rules 5 and 6, then the trigger.
Gate(s, bar, sig, ctx) ==
  LET lost == LoseZone(s, bar, sig)
      reclaimed == ReclaimZone(lost.state, bar, sig)
  IN  IF lost.events # <<>> /\ ctx.config.policy = "CANCEL"
      THEN After(lost.events, Invalidate(lost.state, bar))
      ELSE After(lost.events \o reclaimed.events, HitTrigger(reclaimed.state, bar, sig))

EntryPhase(s, bar, sig, ctx) ==
  LET raw == EntryPrice(bar, sig)
      filled == Fill(s, bar, sig, ctx, raw)
  IN  IF bar.open <= sig.stop THEN Invalidate(s, bar)
      ELSE IF Eligible(s, bar, sig) /\ raw # None
      THEN After(filled.events, ExitPhase(filled.state, bar, sig, ctx, TRUE))
      ELSE IF bar.low <= sig.stop THEN Invalidate(s, bar)
      ELSE Gate(s, bar, sig, ctx)

\* Mutant: an open position expires like a pending order.
ValidityEndExpires(s, bar, ctx) ==
  StepResult([s EXCEPT !.status = "EXPIRED", !.final_event_ts = ctx.until],
             <<Event("EXPIRED", None)>>)

ValidityEnd(s, bar, ctx) ==
  IF s.status = "PENDING"
  THEN StepResult([s EXCEPT !.status = "EXPIRED", !.final_event_ts = ctx.until],
                  <<Event("EXPIRED", None)>>)
  ELSE Close(s, bar, ctx, "TIME_EXIT", AdverseSell(bar.close, ctx.config.stop_slip),
             bar.close, "TIME_EXIT")

-----------------------------------------------------------------------------
(* The entry points of the engine. *)

Ignored(s, bar, ctx) ==
  \/ IsFinal(s) \/ Frozen(s)
  \/ bar.ts < ctx.start \/ bar.ts >= ctx.until
  \/ s.last_bar_ts # None /\ bar.ts <= s.last_bar_ts
  \/ ~IsExpectedMinute(bar.ts)

\* Mutant: the bar at valid_until_ts, which is never processed.
IsBarAtUntil(bar, ctx) == bar.ts = ctx.until

IsLastBar(bar, ctx) == bar.ts = LastExpectedMinuteBefore(ctx.until)

LongStep(s, bar, sig, ctx) ==
  LET phase == IF s.status = "PENDING" THEN EntryPhase(s, bar, sig, ctx)
               ELSE ExitPhase(s, bar, sig, ctx, FALSE)
      done == [phase EXCEPT !.state.last_bar_ts = bar.ts]
  IN  IF IsFinal(done.state) \/ ~IsLastBar(bar, ctx) THEN done
      ELSE After(done.events, ValidityEnd(done.state, bar, ctx))

Step(s, bar, ctx) ==
  IF Ignored(s, bar, ctx) THEN Unchanged(s)
  ELSE IF ctx.signal.direction = "LONG" THEN LongStep(s, bar, ctx.signal, ctx)
  ELSE MirrorResult(LongStep(MirrorState(s), MirrorBar(bar), MirrorSignal(ctx.signal), ctx))

\* run_bars over bars that are sorted by ts.
RunBars(s, bars, ctx) ==
  FoldLeft(LAMBDA result, bar : After(result.events, Step(result.state, bar, ctx)),
           Unchanged(s), bars)

FlagReview(s, reason, ref) ==
  StepResult([s EXCEPT !.review_reasons = @ \cup {reason}],
             <<[Event("NEEDS_REVIEW", None) EXCEPT !.reason = reason, !.level = ref]>>)

\* apply_validity_end at an instant at or after valid_until_ts; bar is the
\* latest processed bar, None when there is none.
ApplyValidityEnd(s, ctx, bar) ==
  LET isLong == ctx.signal.direction = "LONG"
      ended == IF isLong THEN ValidityEnd(s, bar, ctx)
               ELSE MirrorResult(ValidityEnd(MirrorState(s), MirrorBar(bar), ctx))
  IN  IF IsFinal(s) \/ Frozen(s) THEN Unchanged(s)
      ELSE IF s.status = "PENDING" THEN ValidityEnd(s, bar, ctx)
      ELSE IF bar = None THEN FlagReview(s, "NO_EXIT_BAR", ctx.until)
      ELSE IF IsLastBar(bar, ctx) THEN ended
      ELSE After(ended.events, FlagReview(ended.state, "STALE_EXIT_BAR", ctx.until))

Cancel(s, at) ==
  IF IsFinal(s) THEN Unchanged(s)
  ELSE StepResult([s EXCEPT !.status = "CANCELED", !.final_event_ts = at],
                  <<[Event("CANCELED", None) EXCEPT !.level = at]>>)

Freeze(s, reason, ref) ==
  IF IsFinal(s) \/ reason \in s.frozen_reasons THEN Unchanged(s)
  ELSE After(<<[Event("FROZEN", None) EXCEPT !.reason = reason, !.level = ref]>>,
             FlagReview([s EXCEPT !.frozen_reasons = @ \cup {reason}], reason, ref))

ApplyDividend(s, ctx, exDate, amount, validated) ==
  LET cash == (IF ctx.signal.direction = "LONG" THEN amount ELSE -amount) * s.qty_open
  IN  IF IsFinal(s) \/ Frozen(s) \/ s.qty_open <= 0 THEN Unchanged(s)
      ELSE IF ~validated THEN FlagReview(s, "DIVIDEND_UNVERIFIED", exDate)
      ELSE StepResult([s EXCEPT !.dividends = @ + cash],
                      <<[Event("DIVIDEND", None) EXCEPT !.level = amount, !.qty = s.qty_open,
                                                   !.pnl = cash]>>)

=============================================================================
