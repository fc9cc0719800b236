--------------------------- MODULE OrderLifecycle ---------------------------
(***************************************************************************)
(* One virtual order from ORDER_CREATED to its final status, as its ledger *)
(* sees it: the evaluator feeds it bars (any bar the market can print, with *)
(* minutes missing) and commands arrive between them.  The actions are the *)
(* calls of the engine the evaluator makes, the state is the projection    *)
(* and the events appended so far.                                         *)
(***************************************************************************)
EXTENDS FillModel, FiniteSetsExt

CONSTANTS
  Signals, Configs,   \* the level chains and fill configurations tried
  Candles,            \* the [open, high, low, close] a bar can have
  Created,            \* created_at of the signal
  ValidSessions,      \* its valid_sessions
  Instants,           \* bound on the ts a bar can carry
  FreezeReasons, Amounts

ASSUME SignalsAssumption ==
  \A sig \in Signals :
    /\ sig \in [direction : {"LONG", "SHORT"}, low : Int, high : Int, stop : Int,
                target1 : Int, target2 : Price, trigger : Price]
    /\ ValidSignal(sig)

ASSUME CandlesAssumption ==
  \A candle \in Candles : candle \in [open : Int, high : Int, low : Int, close : Int] /\ IsBar(candle)

ASSUME ConfigsAssumption ==
  \A config \in Configs :
    /\ config.risk_amount \in Nat /\ config.scale_out_pct \in Nat
    /\ config.entry_slip \in Nat /\ config.stop_slip \in Nat
    /\ config.commission \in Nat /\ config.sec_fee_rate \in Nat
    /\ config.taf_fee_per_share \in Nat /\ config.taf_fee_max \in Nat
    /\ \A sig \in Signals : \A raw \in sig.low..sig.high :
         Sized(config, config.entry_slip + IF sig.direction = "LONG" THEN raw - sig.stop
                                           ELSE sig.stop - raw)

ASSUME InstantsAssumption == Instants \subseteq Int
ASSUME AmountsAssumption == Amounts \subseteq Int

VARIABLES
  ctx,      \* the order's context, fixed at creation
  state,    \* its projection
  events,   \* its ledger
  last      \* the last bar processed, None before one

vars == <<ctx, state, events, last>>

Start == EvaluationStart(Created)
Until == SignalValidUntil(Start, ValidSessions)

\* The calendar covers the window, or no order is created.
ASSUME WindowAssumption == Start \in Nat /\ Until \in Nat

\* apply_result: the result's events are appended, its state becomes the projection.
ApplyResult(result) ==
  /\ state' = result.state
  /\ events' = events \o result.events
  /\ UNCHANGED ctx

Init ==
  /\ ctx \in [signal : Signals, config : Configs, start : {Start}, until : {Until}]
  /\ LET created == NewOrderState(ctx, None) IN state = created.state /\ events = created.events
  /\ last = None

\* One iteration of run_bars.
ProcessBar(bar) ==
  /\ ApplyResult(Step(state, bar, ctx))
  /\ last' = IF Ignored(state, bar, ctx) THEN last ELSE bar

\* Mutant: only open positions are due.
FinalizeOpenOnly ==
  /\ state.status \in {"OPEN", "PARTIAL"}
  /\ ApplyResult(ApplyValidityEnd(state, ctx, last))
  /\ UNCHANGED last

\* finalize_validity, once the window is over; bars may have been missed.
FinalizeValidity ==
  /\ ApplyResult(ApplyValidityEnd(state, ctx, last))
  /\ UNCHANGED last

\* cancel_order raises OrderAlreadyFinal instead of cancelling twice.
CancelOrder(at) ==
  /\ ~IsFinal(state)
  /\ ApplyResult(Cancel(state, at))
  /\ UNCHANGED last

FreezeOrder(reason) == ApplyResult(Freeze(state, reason, None)) /\ UNCHANGED last

FlagOrderReview(reason) ==
  /\ reason \notin state.review_reasons   \* its event is deduplicated by the ledger
  /\ ApplyResult(FlagReview(state, reason, None))
  /\ UNCHANGED last

\* apply_dividends for the one ex-date of the window: credited once.
Dividend(amount, validated) ==
  /\ \A i \in DOMAIN events : events[i].type # "DIVIDEND"
  /\ validated \/ "DIVIDEND_UNVERIFIED" \notin state.review_reasons
  /\ ApplyResult(ApplyDividend(state, ctx, None, amount, validated))
  /\ UNCHANGED last

\* The evaluator resumes after the last bar, with minutes missing; a batch can
\* go on after the bar that ended the order.
Market ==
  \E candle \in Candles, ts \in Instants :
    /\ state.last_bar_ts # None => ts > state.last_bar_ts
    /\ ProcessBar([ts |-> ts, open |-> candle.open, high |-> candle.high,
                   low |-> candle.low, close |-> candle.close])

Commands ==
  \/ FinalizeValidity
  \/ \E at \in Instants : CancelOrder(at)
  \/ \E reason \in FreezeReasons : FreezeOrder(reason)
  \/ FlagOrderReview("RECHECK")
  \/ \E amount \in Amounts, validated \in BOOLEAN : Dividend(amount, validated)

Next == Market \/ Commands

Spec == Init /\ [][Next]_vars

\* Without commands, until the order ends.
MarketNext == (~IsFinal(state) /\ Market) \/ FinalizeValidity
MarketSpec == Init /\ [][MarketNext]_vars

\* run_end_of_day finalizes every due order, again and again.
LiveSpec == Spec /\ WF_vars(FinalizeValidity)

-----------------------------------------------------------------------------
(* The order as a reader of its ledger sees it, in the prices of its own   *)
(* direction and without mirroring.                                        *)

IsLong == ctx.signal.direction = "LONG"
Sign == IF IsLong THEN 1 ELSE -1

\* p is at or beyond q on the losing, or the winning, side.
Adverse(p, q) == Sign * p <= Sign * q
Favorable(p, q) == Sign * p >= Sign * q
WorstOf(bar) == IF IsLong THEN bar.low ELSE bar.high

Recorded(types) == {events[i] : i \in {j \in DOMAIN events : events[j].type \in types}}
EventIndices(types) == {i \in DOMAIN events : events[i].type \in types}
Total(types, Field(_)) ==
  MapThenSumSet(LAMBDA i : Field(events[i]), EventIndices(types))

New == SubSeq(events', Len(events) + 1, Len(events'))
NewTypes == {New[i].type : i \in DOMAIN New}

-----------------------------------------------------------------------------

(***************************************************************************)
(* No look-ahead in the entry (spec 4.2): a fill comes at least one        *)
(* expected minute after the bar that hit the trigger and after the bar    *)
(* that reclaimed the zone, and never while the zone is lost.              *)
(***************************************************************************)
EntryGated ==
  \A fill \in Recorded({"FILLED"}) :
    /\ ctx.signal.trigger # None =>
         \E hit \in Recorded({"TRIGGER_HIT"}) : hit.ts < fill.ts
    /\ \A lost \in Recorded({"ZONE_LOST"}) :
         \E back \in Recorded({"ZONE_RECLAIMED"}) : lost.ts <= back.ts /\ back.ts < fill.ts

(***************************************************************************)
(* The projection is the sum of its ledger: quantities, pnl, costs and     *)
(* dividends that new_order_state, _fill, _exit_phase, _close and          *)
(* apply_dividend keep apart add up to what the events say, each exit at   *)
(* its own price in the order's own direction, and a closed order holds    *)
(* nothing.                                                                *)
(***************************************************************************)
AccountingMatchesEvents ==
  LET Qty(e) == e.qty  Pnl(e) == e.pnl  Cost(e) == e.cost IN
  /\ state.qty_total = Total({"FILLED"}, Qty)
  /\ state.qty_open = state.qty_total - Total(Exits, Qty)
  /\ state.status = "CLOSED" => state.qty_open = 0
  /\ state.realized_pnl = Total(Exits, Pnl)
  /\ state.costs = Total({"FILLED"} \cup Exits, Cost)
  /\ state.dividends = Total({"DIVIDEND"}, Pnl)
  /\ \A e \in Recorded(Exits) : e.pnl = Sign * (e.price - state.avg_entry) * e.qty

(***************************************************************************)
(* Ambiguous bars take the worst case (spec 4): a bar that reaches the     *)
(* active stop stops the position out, whatever targets it also reaches,   *)
(* at a price that is never better than the stop or its own open; and the  *)
(* bar that fills the order gives it no target.                            *)
(***************************************************************************)
WorstCaseFirst ==
  [][last' # last =>
       /\ state.status \in {"OPEN", "PARTIAL"} /\ Adverse(WorstOf(last'), state.stop_current) =>
            /\ NewTypes = {"STOPPED"} /\ state'.status = "CLOSED"
            /\ \A i \in DOMAIN New : /\ Adverse(New[i].price, state.stop_current)
                                      /\ Adverse(last'.open, state.stop_current) =>
                                           Adverse(New[i].price, last'.open)
       /\ "FILLED" \in NewTypes => NewTypes \cap {"TARGET1_HIT", "TARGET2_HIT"} = {}]_vars

(***************************************************************************)
(* A fill, a target or a stop happens at a price the bar traded, entries   *)
(* inside the zone: nothing is executed at a price the market skipped.     *)
(***************************************************************************)
ExecutesWhereTraded ==
  [][\A i \in DOMAIN New :
       LET raw == IF New[i].type \in {"TARGET1_HIT", "TARGET2_HIT"} THEN New[i].price
                  ELSE New[i].level IN
       /\ New[i].type \in {"FILLED", "STOPPED", "TIME_EXIT"} =>
            last'.low <= raw /\ raw <= last'.high
       /\ New[i].type \in {"TARGET1_HIT", "TARGET2_HIT"} =>
            Favorable(IF IsLong THEN last'.high ELSE last'.low, raw)
       /\ New[i].type = "FILLED" => ctx.signal.low <= raw /\ raw <= ctx.signal.high]_vars

(***************************************************************************)
(* The last expected bar of the window decides the order: no order that is *)
(* neither final nor frozen outlives the bar before valid_until_ts.        *)
(***************************************************************************)
LastBarDecides ==
  state.last_bar_ts = LastExpectedMinuteBefore(ctx.until) => IsFinal(state)

(***************************************************************************)
(* Every order ends, or is frozen for an operator to decide, however many  *)
(* of its bars are missing.                                                *)
(***************************************************************************)
EventuallyDecided == <>(IsFinal(state) \/ Frozen(state))

-----------------------------------------------------------------------------

Contract == INSTANCE OrderContract WITH
  status <- state.status,
  holding <- IF state.qty_open = 0 THEN "none"
             ELSE IF state.qty_open = state.qty_total THEN "full" ELSE "part",
  zoneLost <- state.zone_lost,
  frozen <- Frozen(state)

(***************************************************************************)
(* The engine implements the status graph of design 3.5, with the holdings *)
(* and the freezes that go with each status.                               *)
(***************************************************************************)
ImplementsContract == Contract!Spec

=============================================================================
