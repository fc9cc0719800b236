--------------------------- MODULE LifecycleProofs ---------------------------
(***************************************************************************)
(* What one virtual order does, for every signal, configuration, calendar  *)
(* and sequence of bars and commands: the gates of its entry, the bar that *)
(* decides it, the worst case of ambiguous bars, the prices it trades at,  *)
(* the status graph of design 3.5, and the sums of its ledger.             *)
(*                                                                         *)
(* EngineProofs has the lemmas on the engine's functions. Moves says that  *)
(* every step of the specification is a bar or a command, so that the      *)
(* invariant OrderInv, the action properties and the refinement each have  *)
(* two cases.                                                              *)
(*                                                                         *)
(* OrderInv adds to the types what the entry and the stop depend on: the   *)
(* gates speak at processed bars (Dated), a trigger that was hit and a     *)
(* zone that was reclaimed are in the ledger (Triggered, Reclaimed), and   *)
(* the stop in force dates from a processed bar (Timed), so that every     *)
(* later bar meets the current stop and never the previous one             *)
(* (NextIsNext).                                                           *)
(*                                                                         *)
(* For the sums the inductive invariant is LedgerSettles: the whole ledger *)
(* settles a blank order.                                                  *)
(***************************************************************************)
EXTENDS OrderLifecycle, EngineProofs

-----------------------------------------------------------------------------
(* The order. *)

\* The contexts an order can be created with.
Contexts == [signal : Signals, config : Configs, start : {Start}, until : {Until}]

TypedOrder == ctx \in Contexts /\ Book(state, ctx) /\ Log(events)

\* The last bar is the one the projection names, and the stop in force dates
\* from a bar that was processed.
Timed ==
  /\ IF state.last_bar_ts = None THEN last = None
     ELSE /\ state.last_bar_ts \in Int /\ IsExpectedMinute(state.last_bar_ts)
          /\ last \in Bars /\ last.ts = state.last_bar_ts
  /\ state.stop_active_from # None =>
       /\ state.last_bar_ts \in Int
       /\ \E t \in Int : /\ IsExpectedMinute(t) /\ t <= state.last_bar_ts
                         /\ state.stop_active_from = NextExpectedMinute(t)

\* The inductive invariant.
OrderInv == TypedOrder /\ Timed /\ EntryBacked(events, state, ctx) /\ LastBarDecides

\* apply_result, with the context it leaves alone.
Applied(r) == state' = r.state /\ events' = events \o r.events /\ ctx' = ctx

\* A bar that the engine does not ignore, with its result.
BarMove(r, bar) ==
  /\ Stepped(state, r, bar, ctx) /\ Applied(r) /\ last' = bar
  /\ bar \in Bars /\ IsExpectedMinute(bar.ts) /\ ~IsFinal(state) /\ ~Frozen(state)
  /\ state.last_bar_ts \in Int => state.last_bar_ts < bar.ts

\* Every other step, one that changes nothing included.
CommandMove(r) == Commanded(state, r, last, ctx) /\ Applied(r) /\ UNCHANGED last

(***************************************************************************)
(* A context is that of a signal and a configuration that were validated.  *)
(***************************************************************************)
LEMMA ContextGood ==
  ASSUME NEW c \in Contexts
  PROVE  Fees(c) /\ Chain(c.signal, c) /\ c.until = Until /\ c.signal \in Signals
<1>1. c.signal \in Signals /\ c.config \in Configs /\ c.until = Until
  BY DEF Contexts
<1>2. Fees(c)
  BY <1>1, ConfigsAssumption DEF Fees
<1>3. /\ c.signal \in [direction : {"LONG", "SHORT"}, low : Int, high : Int, stop : Int,
                       target1 : Int, target2 : Price, trigger : Price]
      /\ ValidSignal(c.signal)
  BY <1>1, SignalsAssumption
<1>4. \A raw \in c.signal.low..c.signal.high :
        Sized(c.config, c.config.entry_slip + IF c.signal.direction = "LONG" THEN raw - c.signal.stop
                                              ELSE c.signal.stop - raw)
  BY <1>1, ConfigsAssumption
<1> QED
  BY <1>1, <1>2, <1>3, <1>4 DEF Chain

(***************************************************************************)
(* The created order.                                                      *)
(***************************************************************************)
LEMMA InitOrder ==
  ASSUME Init
  PROVE  OrderInv
<1> DEFINE s == NewOrderState(ctx, None).state
           e == Event("ORDER_CREATED", None)
<1>1. ctx \in Contexts /\ last = None /\ state = s /\ events = <<e>>
  BY DEF Init, Contexts, NewOrderState, StepResult
<1>2. ctx.signal.stop \in Int
  BY <1>1, ContextGood DEF Chain
<1>3. /\ Shape(s) /\ s.status = "PENDING" /\ s.zone_lost = FALSE /\ s.t1_done = FALSE
      /\ s.qty_total = 0 /\ s.qty_open = 0 /\ s.stop_current = ctx.signal.stop
      /\ s.stop_active_from = None /\ s.trigger_hit_at = None /\ s.last_bar_ts = None
  BY DEF NewOrderState, StepResult, Shape
<1>4. Entry(e) /\ e.type = "ORDER_CREATED"
  BY DEF Event, Entry
<1> HIDE DEF s, e
<1>5. Book(state, ctx)
  <2>1. s.qty_total \in Int /\ s.qty_open \in Int /\ s.stop_current \in Int
    BY <1>2, <1>3
  <2>2. s.zone_lost \in BOOLEAN /\ s.t1_done \in BOOLEAN /\ ~s.t1_done
    BY <1>3
  <2>3. s.status \in Statuses /\ s.stop_active_from \in Price
    BY <1>3 DEF Statuses, Price
  <2>4. Book(s, ctx)
    BY <1>3, <2>1, <2>2, <2>3 DEF Book
  <2> QED
    BY <1>1, <2>4
<1>6. Range(events) = {e} /\ events \in Seq({e})
  BY <1>1 DEF Range
<1>7. Log(events)
  BY <1>4, <1>6 DEF Log
<1>8. Timed
  BY <1>1, <1>3 DEF Timed
<1>9. EntryBacked(events, state, ctx)
  BY <1>1, <1>3, <1>4, <1>6
  DEF EntryBacked, Dated, Triggered, Unfilled, Reclaimed, Entered, GateTypes, ZoneTypes
<1>10. LastBarDecides
  <2>1. LastExpectedMinuteBefore(ctx.until) \in Int
    BY <1>1, ContextGood, LastIsInt, WindowAssumption
  <2> QED
    BY <1>1, <1>3, <2>1, NoneAssumption DEF LastBarDecides
<1> QED
  BY <1>1, <1>5, <1>7, <1>8, <1>9, <1>10 DEF OrderInv, TypedOrder

(***************************************************************************)
(* What a result adds to the ledger.                                       *)
(***************************************************************************)
LEMMA NewEvents ==
  ASSUME Log(events), NEW r, Log(r.events), events' = events \o r.events
  PROVE  /\ New = r.events /\ Log(events') /\ Range(events') = Range(events) \cup Range(r.events)
         /\ DOMAIN New = 1..Len(New)
<1> DEFINE S == Range(events) \cup Range(r.events)
           b == r.events
<1>1. events \in Seq(Range(events)) /\ b \in Seq(Range(b))
  BY DEF Log
<1>2. events \in Seq(S) /\ b \in Seq(S)
  BY <1>1
<1> HIDE DEF S, b
<1>3. Len(events) \in Nat /\ Len(b) \in Nat /\ Len(events \o b) = Len(events) + Len(b)
  BY <1>2
<1>4. SubSeq(events \o b, Len(events) + 1, Len(events) + Len(b)) = b
  <2>1. CASE Len(b) = 0
    <3>1. b = <<>>
      BY <1>2, <2>1
    <3>2. SubSeq(events \o b, Len(events) + 1, Len(events) + Len(b)) = <<>>
      BY <1>3, <2>1, SubSeqEmpty
    <3> QED
      BY <3>1, <3>2
  <2>2. CASE Len(b) # 0
    <3> DEFINE m == Len(events) + 1
               n == Len(events) + Len(b)
    <3>1. m \in Len(events)+1..Len(events)+Len(b) /\ n \in Len(events)+1..Len(events)+Len(b)
          /\ m - Len(events) = 1 /\ n - Len(events) = Len(b)
      BY <1>3, <2>2
    <3> HIDE DEF m, n
    <3>2. SubSeq(events \o b, m, n) = SubSeq(b, m - Len(events), n - Len(events))
      BY <1>2, <3>1, SubSeqOfConcat2
    <3>3. SubSeq(b, 1, Len(b)) = b
      BY <1>2, SubSeqFull
    <3> QED
      BY <3>1, <3>2, <3>3 DEF m, n
  <2> QED
    BY <2>1, <2>2
<1>5. New = b
  BY <1>3, <1>4 DEF New, b
<1>6. DOMAIN b = 1..Len(b)
  BY <1>2
<1>7. Range(events \o b) = Range(events) \cup Range(b) /\ Log(events \o b)
  BY ConcatEvents DEF b
<1> QED
  BY <1>5, <1>6, <1>7 DEF b

(***************************************************************************)
(* A bar of the market that the engine processes comes after the last one  *)
(* and meets the stop in force.                                            *)
(***************************************************************************)
LEMMA MarketBar ==
  ASSUME OrderInv, Market
  PROVE  \E bar \in Bars :
           /\ ProcessBar(bar)
           /\ ~Ignored(state, bar, ctx) =>
                /\ IsExpectedMinute(bar.ts) /\ ~IsFinal(state) /\ ~Frozen(state)
                /\ state.last_bar_ts \in Int => state.last_bar_ts < bar.ts
                /\ NextExpectedMinute(bar.ts) \in Int /\ StopActive(state, bar)
<1>1. PICK candle \in Candles, ts \in Instants :
        /\ state.last_bar_ts # None => ts > state.last_bar_ts
        /\ ProcessBar([ts |-> ts, open |-> candle.open, high |-> candle.high,
                       low |-> candle.low, close |-> candle.close])
  BY DEF Market
<1> DEFINE bar == [ts |-> ts, open |-> candle.open, high |-> candle.high,
                   low |-> candle.low, close |-> candle.close]
<1>2. bar \in Bars
  <2>1. ts \in Int /\ candle \in [open : Int, high : Int, low : Int, close : Int] /\ IsBar(candle)
    BY CandlesAssumption, InstantsAssumption
  <2> QED
    BY <2>1 DEF Bars, IsBar
<1>3. bar.ts = ts /\ ProcessBar(bar)
  BY <1>1
<1> HIDE DEF bar
<1>4. ASSUME ~Ignored(state, bar, ctx)
      PROVE  /\ IsExpectedMinute(bar.ts) /\ ~IsFinal(state) /\ ~Frozen(state)
             /\ state.last_bar_ts \in Int => state.last_bar_ts < bar.ts
             /\ NextExpectedMinute(bar.ts) \in Int /\ StopActive(state, bar)
  <2>1. bar.ts \in Int /\ IsExpectedMinute(bar.ts) /\ ~IsFinal(state) /\ ~Frozen(state)
    BY <1>2, <1>4 DEF Bars, Ignored
  <2>2. state.last_bar_ts \in Int => state.last_bar_ts < bar.ts
    BY <1>1, <1>3, <2>1, NoneAssumption
  <2>3. NextExpectedMinute(bar.ts) \in Int
    BY <2>1, NextIsNext
  <2>4. StopActive(state, bar)
    <3> SUFFICES ASSUME state.stop_active_from # None PROVE bar.ts >= state.stop_active_from
      BY DEF StopActive
    <3>1. PICK t \in Int : /\ IsExpectedMinute(t) /\ t <= state.last_bar_ts
                           /\ state.stop_active_from = NextExpectedMinute(t)
      BY DEF OrderInv, Timed
    <3>2. state.last_bar_ts \in Int
      BY DEF OrderInv, Timed
    <3>3. t < bar.ts
      BY <2>1, <2>2, <3>1, <3>2
    <3>4. NextExpectedMinute(t) \in Int /\ NextExpectedMinute(t) <= bar.ts
      BY <2>1, <3>1, <3>3, NextIsNext
    <3> QED
      BY <2>1, <3>1, <3>4
  <2> QED
    BY <2>1, <2>2, <2>3, <2>4
<1> QED
  BY <1>2, <1>3, <1>4

(***************************************************************************)
(* A step of the order is a bar or a command.                              *)
(***************************************************************************)
LEMMA Moves ==
  ASSUME OrderInv, [Next]_vars
  PROVE  (\E r, bar : BarMove(r, bar)) \/ (\E r : CommandMove(r))
<1> USE DEF ApplyResult
<1>1. ctx \in Contexts /\ Book(state, ctx) /\ Log(events)
  BY DEF OrderInv, TypedOrder
<1>2. Fees(ctx) /\ Chain(ctx.signal, ctx)
  BY <1>1, ContextGood
<1>3. /\ state.last_bar_ts = None \/ state.last_bar_ts \in Int
      /\ last # None => last \in Bars
  BY DEF OrderInv, Timed
<1>4. ASSUME NEW r, Commanded(state, r, last, ctx), state' = r.state, events' = events \o r.events,
             UNCHANGED <<ctx, last>>
      PROVE  \E x : CommandMove(x)
  <2>1. CommandMove(r)
    BY <1>4 DEF CommandMove, Applied
  <2> QED
    BY <2>1
<1>5. ASSUME Market PROVE (\E r, bar : BarMove(r, bar)) \/ (\E r : CommandMove(r))
  <2>1. PICK bar \in Bars :
          /\ ProcessBar(bar)
          /\ ~Ignored(state, bar, ctx) =>
               /\ IsExpectedMinute(bar.ts) /\ ~IsFinal(state) /\ ~Frozen(state)
               /\ state.last_bar_ts \in Int => state.last_bar_ts < bar.ts
               /\ NextExpectedMinute(bar.ts) \in Int /\ StopActive(state, bar)
    BY <1>5, MarketBar
  <2> DEFINE r == Step(state, bar, ctx)
  <2>2. /\ state' = r.state /\ events' = events \o r.events /\ ctx' = ctx
        /\ last' = IF Ignored(state, bar, ctx) THEN last ELSE bar
    BY <2>1 DEF ProcessBar
  <2>3. CASE Ignored(state, bar, ctx)
    <3>1. r = Unchanged(state)
      BY <2>3 DEF Step
    <3>2. Commanded(state, Unchanged(state), last, ctx)
      BY <1>1, NothingCommanded
    <3> QED
      BY <1>4, <2>2, <2>3, <3>1, <3>2
  <2>4. CASE ~Ignored(state, bar, ctx)
    <3>1. Stepped(state, r, bar, ctx)
      BY <1>1, <1>2, <2>1, <2>4, StepGood
    <3> HIDE DEF r
    <3>2. BarMove(r, bar)
      BY <2>1, <2>2, <2>4, <3>1 DEF BarMove, Applied
    <3> QED
      BY <3>2
  <2> QED
    BY <2>3, <2>4
<1>6. ASSUME Commands PROVE \E r : CommandMove(r)
  <2>1. CASE FinalizeValidity
    <3>1. Commanded(state, ApplyValidityEnd(state, ctx, last), last, ctx)
      BY <1>1, <1>3, FinalizeResult
    <3> QED
      BY <1>4, <2>1, <3>1 DEF FinalizeValidity
  <2>2. ASSUME NEW at \in Instants, CancelOrder(at) PROVE \E r : CommandMove(r)
    <3>1. Commanded(state, Cancel(state, at), last, ctx)
      BY <1>1, CancelResult
    <3> QED
      BY <1>4, <2>2, <3>1 DEF CancelOrder
  <2>3. ASSUME NEW reason \in FreezeReasons, FreezeOrder(reason) PROVE \E r : CommandMove(r)
    <3>1. Commanded(state, Freeze(state, reason, None), last, ctx)
      BY <1>1, FreezeResult
    <3> QED
      BY <1>4, <2>3, <3>1 DEF FreezeOrder
  <2>4. CASE FlagOrderReview("RECHECK")
    <3>1. Flagged(state, FlagReview(state, "RECHECK", None), last, ctx)
      BY <1>1, FlagResult
    <3> QED
      BY <1>4, <2>4, <3>1 DEF FlagOrderReview, Flagged
  <2>5. ASSUME NEW amount \in Amounts, NEW validated \in BOOLEAN, Dividend(amount, validated)
        PROVE  \E r : CommandMove(r)
    <3>1. Commanded(state, ApplyDividend(state, ctx, None, amount, validated), last, ctx)
      BY <1>1, DividendResult
    <3> QED
      BY <1>4, <2>5, <3>1 DEF Dividend
  <2> QED
    BY <1>6, <2>1, <2>2, <2>3, <2>4, <2>5 DEF Commands
<1>7. ASSUME UNCHANGED vars PROVE \E r : CommandMove(r)
  <2>1. Commanded(state, Unchanged(state), last, ctx)
    BY <1>1, NothingCommanded
  <2>2. Unchanged(state).state = state /\ Unchanged(state).events = <<>>
    BY DEF Unchanged, StepResult
  <2>3. events \o <<>> = events
    BY <1>1 DEF Log
  <2> QED
    BY <1>4, <1>7, <2>1, <2>2, <2>3 DEF vars
<1> QED
  BY <1>5, <1>6, <1>7 DEF Next

(***************************************************************************)
(* Every step keeps the invariant.                                         *)
(***************************************************************************)
LEMMA StepOrder ==
  ASSUME OrderInv, [Next]_vars
  PROVE  OrderInv'
<1>1. /\ ctx \in Contexts /\ Book(state, ctx) /\ Log(events) /\ EntryBacked(events, state, ctx)
      /\ Timed /\ LastBarDecides
  BY DEF OrderInv, TypedOrder
<1>2. ASSUME NEW r, NEW bar, BarMove(r, bar) PROVE OrderInv'
  <2>1. /\ Stepped(state, r, bar, ctx) /\ state' = r.state /\ events' = events \o r.events
        /\ ctx' = ctx /\ last' = bar /\ bar \in Bars /\ bar.ts \in Int /\ IsExpectedMinute(bar.ts)
        /\ state.last_bar_ts \in Int => state.last_bar_ts < bar.ts
    BY <1>2 DEF BarMove, Applied, Bars
  <2>2. /\ Proper(r) /\ Book(r.state, ctx) /\ Moved(state, r.state)
        /\ Gated(state, r, bar, ctx.signal)
        /\ StopMoves(state, r, bar) /\ r.state.last_bar_ts = bar.ts
        /\ IsLastBar(bar, ctx) => IsFinal(r.state)
    BY <2>1 DEF Stepped
  <2>3. Log(events') /\ Range(events') = Range(events) \cup Range(r.events)
    BY <1>1, <2>1, <2>2, NewEvents DEF Proper
  <2>4. TypedOrder'
    BY <1>1, <2>1, <2>2, <2>3 DEF TypedOrder
  <2>5. Timed'
    <3>1. state'.last_bar_ts = bar.ts /\ state'.last_bar_ts # None
      BY <2>1, <2>2, NoneAssumption
    <3>2. ASSUME state'.stop_active_from # None
          PROVE  \E t \in Int : /\ IsExpectedMinute(t) /\ t <= bar.ts
                                /\ state'.stop_active_from = NextExpectedMinute(t)
      <4>1. CASE r.state.stop_active_from = state.stop_active_from
        <5>1. PICK t \in Int : /\ IsExpectedMinute(t) /\ t <= state.last_bar_ts
                               /\ state.stop_active_from = NextExpectedMinute(t)
          BY <1>1, <2>1, <3>2, <4>1 DEF Timed
        <5>2. state.last_bar_ts \in Int
          BY <1>1, <2>1, <3>2, <4>1 DEF Timed
        <5>3. t <= bar.ts
          BY <2>1, <5>1, <5>2
        <5> QED
          BY <2>1, <4>1, <5>1, <5>3
      <4>2. CASE r.state.stop_active_from = NextExpectedMinute(bar.ts)
        <5>1. bar.ts <= bar.ts
          BY <2>1
        <5> QED
          BY <2>1, <4>2, <5>1
      <4> QED
        BY <2>2, <4>1, <4>2 DEF StopMoves
    <3> QED
      BY <2>1, <3>1, <3>2 DEF Timed
  <2>6. EntryBacked(events', state', ctx')
    <3>1. EntryBacked(events', r.state, ctx)
      BY <1>1, <2>1, <2>2, <2>3, BarKeepsEntry
    <3> QED
      BY <2>1, <3>1
  <2>7. LastBarDecides'
    <3>1. IsLastBar(bar, ctx) <=> bar.ts = LastExpectedMinuteBefore(ctx.until)
      BY DEF IsLastBar
    <3> QED
      BY <2>1, <2>2, <3>1 DEF LastBarDecides
  <2> QED
    BY <2>4, <2>5, <2>6, <2>7 DEF OrderInv
<1>3. ASSUME NEW r, CommandMove(r) PROVE OrderInv'
  <2>1. /\ Commanded(state, r, last, ctx) /\ state' = r.state /\ events' = events \o r.events
        /\ ctx' = ctx /\ last' = last
    BY <1>3 DEF CommandMove, Applied
  <2>2. /\ Proper(r) /\ Book(r.state, ctx) /\ Decided(state, r.state)
        /\ r.state.zone_lost = state.zone_lost /\ r.state.trigger_hit_at = state.trigger_hit_at
        /\ r.state.stop_active_from = state.stop_active_from
        /\ r.state.last_bar_ts = state.last_bar_ts
        /\ \A e \in Range(r.events) : e.type \in CommandTypes
    BY <2>1 DEF Commanded
  <2>3. Log(events') /\ Range(events') = Range(events) \cup Range(r.events)
    BY <1>1, <2>1, <2>2, NewEvents DEF Proper
  <2>4. TypedOrder'
    BY <1>1, <2>1, <2>2, <2>3 DEF TypedOrder
  <2>5. Timed'
    BY <1>1, <2>1, <2>2 DEF Timed
  <2>6. EntryBacked(events', state', ctx')
    <3>1. \A e \in Range(r.events) : e.type \notin GateTypes
      BY <2>2 DEF CommandTypes, GateTypes, ZoneTypes
    <3>2. r.state.status = "PENDING" => state.status = "PENDING"
      BY <2>2 DEF Decided
    <3>3. EntryBacked(events', r.state, ctx)
      BY <1>1, <2>2, <2>3, <3>1, <3>2, CommandKeepsEntry
    <3> QED
      BY <2>1, <3>3
  <2>7. LastBarDecides'
    <3>1. IsFinal(state) => IsFinal(r.state)
      BY <2>2 DEF Decided, IsFinal, FinalStatuses
    <3> QED
      BY <1>1, <2>1, <2>2, <3>1 DEF LastBarDecides
  <2> QED
    BY <2>4, <2>5, <2>6, <2>7 DEF OrderInv
<1> QED
  BY <1>2, <1>3, Moves

(***************************************************************************)
(* The order keeps its types, its book, the dates of its gates and its     *)
(* last bar, whatever bars and commands come.                              *)
(***************************************************************************)
LEMMA OrderInvariant == Spec => []OrderInv
<1>1. Init => OrderInv
  BY InitOrder
<1>2. OrderInv /\ [Next]_vars => OrderInv'
  BY StepOrder
<1> QED
  BY <1>1, <1>2, PTL DEF Spec

(***************************************************************************)
(* What was recorded is what is in the ledger.                             *)
(***************************************************************************)
LEMMA RecordedInRange ==
  ASSUME NEW types
  PROVE  \A e : e \in Recorded(types) <=> e \in Range(events) /\ e.type \in types
BY DEF Recorded, Range

(***************************************************************************)
(* No order enters on the bar that opened its gate: a fill comes after the *)
(* bar that hit the trigger and after the bar that reclaimed the zone,     *)
(* which is how eligible, _gate_state and the rules 5 and 6 keep the entry *)
(* from looking ahead.                                                     *)
(***************************************************************************)
THEOREM EntriesAreGated == Spec => []EntryGated
<1>1. OrderInv => EntryGated
  <2> SUFFICES ASSUME Entered(events, ctx) PROVE EntryGated
    BY DEF OrderInv, EntryBacked
  <2> SUFFICES ASSUME NEW fill \in Recorded({"FILLED"})
               PROVE  /\ ctx.signal.trigger # None =>
                           \E hit \in Recorded({"TRIGGER_HIT"}) : hit.ts < fill.ts
                      /\ \A lost \in Recorded({"ZONE_LOST"}) :
                           \E back \in Recorded({"ZONE_RECLAIMED"}) :
                             lost.ts <= back.ts /\ back.ts < fill.ts
    BY DEF EntryGated
  <2>1. fill \in Range(events) /\ fill.type = "FILLED"
    BY RecordedInRange
  <2>2. ASSUME ctx.signal.trigger # None
        PROVE  \E hit \in Recorded({"TRIGGER_HIT"}) : hit.ts < fill.ts
    <3>1. PICK hit \in Range(events) : hit.type = "TRIGGER_HIT" /\ hit.ts < fill.ts
      BY <2>1, <2>2 DEF Entered
    <3>2. hit \in Recorded({"TRIGGER_HIT"})
      BY <3>1, RecordedInRange
    <3> QED
      BY <3>1, <3>2
  <2>3. ASSUME NEW lost \in Recorded({"ZONE_LOST"})
        PROVE  \E back \in Recorded({"ZONE_RECLAIMED"}) : lost.ts <= back.ts /\ back.ts < fill.ts
    <3>1. lost \in Range(events) /\ lost.type = "ZONE_LOST"
      BY RecordedInRange
    <3>2. PICK back \in Range(events) : /\ back.type = "ZONE_RECLAIMED"
                                        /\ lost.ts <= back.ts /\ back.ts < fill.ts
      BY <2>1, <3>1 DEF Entered
    <3>3. back \in Recorded({"ZONE_RECLAIMED"})
      BY <3>2, RecordedInRange
    <3> QED
      BY <3>2, <3>3
  <2> QED
    BY <2>2, <2>3
<1> QED
  BY <1>1, OrderInvariant, PTL

(***************************************************************************)
(* Once the last expected bar of the window is processed the order is      *)
(* final: step closes or expires what its phases left open.                *)
(***************************************************************************)
THEOREM LastBarEndsOrders == Spec => []LastBarDecides
<1>1. OrderInv => LastBarDecides
  BY DEF OrderInv
<1> QED
  BY <1>1, OrderInvariant, PTL

(***************************************************************************)
(* Prices of the order's direction, as the ledger's reader compares them.  *)
(***************************************************************************)
LEMMA Directions ==
  ASSUME NEW p \in Int, NEW q \in Int
  PROVE  (Adverse(p, q) <=> Losing(ctx, p, q)) /\ (Favorable(p, q) <=> Winning(ctx, p, q))
<1>1. CASE ctx.signal.direction = "LONG"
  BY <1>1 DEF Adverse, Favorable, Losing, Winning, Sign, IsLong
<1>2. CASE ctx.signal.direction # "LONG"
  <2>1. Sign = -1
    BY <1>2 DEF Sign, IsLong
  <2>2. (-1) * p = -p /\ (-1) * q = -q
    OBVIOUS
  <2> QED
    BY <1>2, <2>1, <2>2 DEF Adverse, Favorable, Losing, Winning
<1> QED
  BY <1>1, <1>2

(***************************************************************************)
(* A bar that reaches the stop of an open position stops it out, at a      *)
(* price no better than the stop or its open, whatever targets it also     *)
(* reaches; the bar that fills an order gives it no target.                *)
(***************************************************************************)
THEOREM AmbiguousBarsTakeTheWorst == Spec => WorstCaseFirst
<1> DEFINE Worse ==
             last' # last =>
               /\ state.status \in {"OPEN", "PARTIAL"} /\ Adverse(WorstOf(last'), state.stop_current) =>
                    /\ NewTypes = {"STOPPED"} /\ state'.status = "CLOSED"
                    /\ \A i \in DOMAIN New : /\ Adverse(New[i].price, state.stop_current)
                                              /\ Adverse(last'.open, state.stop_current) =>
                                                   Adverse(New[i].price, last'.open)
               /\ "FILLED" \in NewTypes => NewTypes \cap {"TARGET1_HIT", "TARGET2_HIT"} = {}
<1>1. ASSUME OrderInv, [Next]_vars PROVE Worse
  <2>1. CASE \E r : CommandMove(r)
    BY <2>1 DEF CommandMove
  <2>2. ASSUME NEW r, NEW bar, BarMove(r, bar) PROVE Worse
    <3>1. /\ Stepped(state, r, bar, ctx) /\ state' = r.state /\ events' = events \o r.events
          /\ last' = bar /\ bar \in Bars
      BY <2>2 DEF BarMove, Applied
    <3>2. Proper(r) /\ Gated(state, r, bar, ctx.signal) /\ OwnWorstCase(state, r, bar, ctx)
      BY <3>1 DEF Stepped
    <3>3. Log(events) /\ Log(r.events) /\ state.stop_current \in Int
      <4>1. Log(events) /\ Book(state, ctx)
        BY <1>1 DEF OrderInv, TypedOrder
      <4>2. Log(r.events)
        BY <3>2 DEF Proper
      <4>3. state.stop_current \in Int
        BY <4>1 DEF Book
      <4> QED
        BY <4>1, <4>2, <4>3
    <3>4. New = r.events
      BY <3>1, <3>3, NewEvents
    <3>5. NewTypes = {e.type : e \in Range(r.events)}
      BY <3>4 DEF NewTypes, Range
    <3>6. \A i \in DOMAIN New : New[i] \in Range(r.events)
      BY <3>4 DEF Range
    <3> HIDE DEF New, NewTypes
    <3>7. bar.open \in Int /\ WorstOf(bar) \in Int /\ WorstOf(bar) = Worst(ctx, bar)
      BY <3>1 DEF Bars, WorstOf, Worst, IsLong
    <3>8. ASSUME state.status \in {"OPEN", "PARTIAL"}, Adverse(WorstOf(bar), state.stop_current)
          PROVE  /\ NewTypes = {"STOPPED"} /\ state'.status = "CLOSED"
                 /\ \A i \in DOMAIN New : /\ Adverse(New[i].price, state.stop_current)
                                           /\ Adverse(bar.open, state.stop_current) =>
                                                Adverse(New[i].price, bar.open)
      <4>1. Losing(ctx, Worst(ctx, bar), state.stop_current)
        BY <3>3, <3>7, <3>8, Directions
      <4>2. /\ r.state.status = "CLOSED" /\ Range(r.events) # {}
            /\ \A e \in Range(r.events) :
                 /\ e.type = "STOPPED" /\ e.price \in Int /\ Losing(ctx, e.price, state.stop_current)
                 /\ Losing(ctx, bar.open, state.stop_current) => Losing(ctx, e.price, bar.open)
        BY <3>2, <3>8, <4>1 DEF OwnWorstCase
      <4>3. NewTypes = {"STOPPED"}
        BY <3>5, <4>2
      <4>4. \A e \in Range(r.events) :
              /\ Adverse(e.price, state.stop_current)
              /\ Adverse(bar.open, state.stop_current) => Adverse(e.price, bar.open)
        BY <3>3, <3>7, <4>2, Directions
      <4> QED
        BY <3>1, <3>6, <4>2, <4>3, <4>4
    <3>9. "FILLED" \in NewTypes => NewTypes \cap {"TARGET1_HIT", "TARGET2_HIT"} = {}
      BY <3>2, <3>5 DEF Gated, Has, Targets
    <3> QED
      BY <3>1, <3>8, <3>9
  <2> HIDE DEF Worse
  <2> QED
    BY <1>1, <2>1, <2>2, Moves
<1>2. OrderInv /\ [Next]_vars => [Worse]_vars
  BY <1>1
<1> QED
  BY <1>2, OrderInvariant, PTL DEF Spec, WorstCaseFirst

(***************************************************************************)
(* Fills, stops, targets and time exits happen at prices that the last     *)
(* processed bar traded, and fills inside the zone, for both directions:   *)
(* mirror negates the bar and the levels and turns the result back.        *)
(***************************************************************************)
THEOREM OrdersTradeAtMarketPrices == Spec => ExecutesWhereTraded
<1> DEFINE Tradable(e) ==
             LET raw == IF e.type \in {"TARGET1_HIT", "TARGET2_HIT"} THEN e.price ELSE e.level IN
             /\ e.type \in {"FILLED", "STOPPED", "TIME_EXIT"} =>
                  last'.low <= raw /\ raw <= last'.high
             /\ e.type \in {"TARGET1_HIT", "TARGET2_HIT"} =>
                  Favorable(IF IsLong THEN last'.high ELSE last'.low, raw)
             /\ e.type = "FILLED" => ctx.signal.low <= raw /\ raw <= ctx.signal.high
           Traded == \A i \in DOMAIN New : Tradable(New[i])
<1>1. ASSUME OrderInv, [Next]_vars PROVE Traded
  <2>1. ASSUME NEW r, CommandMove(r) PROVE Traded
    <3>1. /\ Commanded(state, r, last, ctx) /\ state' = r.state /\ events' = events \o r.events
          /\ last' = last
      BY <2>1 DEF CommandMove, Applied
    <3>2. Log(events) /\ Log(r.events) /\ Book(state, ctx)
      BY <1>1, <3>1 DEF OrderInv, TypedOrder, Commanded, Proper
    <3>3. New = r.events
      BY <3>1, <3>2, NewEvents
    <3>4. \A i \in DOMAIN New : New[i] \in Range(r.events)
      BY <3>3 DEF Range
    <3> HIDE DEF New
    <3>5. \A e \in Range(r.events) :
            /\ e.type \in CommandTypes
            /\ e.type = "TIME_EXIT" => last # None /\ e.level = last.close
      BY <3>1 DEF Commanded
    <3>6. last # None => last.close \in Int /\ last.low <= last.close /\ last.close <= last.high
      BY <1>1 DEF OrderInv, Timed, Bars, IsBar
    <3>7. \A e \in Range(r.events) : Tradable(e)
      BY <3>1, <3>5, <3>6 DEF CommandTypes
    <3> QED
      BY <3>4, <3>7
  <2>2. ASSUME NEW r, NEW bar, BarMove(r, bar) PROVE Traded
    <3>1. /\ Stepped(state, r, bar, ctx) /\ state' = r.state /\ events' = events \o r.events
          /\ last' = bar /\ bar \in Bars
      BY <2>2 DEF BarMove, Applied
    <3>2. Log(events) /\ Log(r.events) /\ OwnPriced(r, bar, ctx)
      BY <1>1, <3>1 DEF OrderInv, TypedOrder, Stepped, Proper
    <3>3. New = r.events
      BY <3>1, <3>2, NewEvents
    <3>4. \A i \in DOMAIN New : New[i] \in Range(r.events)
      BY <3>3 DEF Range
    <3> HIDE DEF New
    <3>5. bar.low \in Int /\ bar.high \in Int
      BY <3>1 DEF Bars
    <3>6. ASSUME NEW e \in Range(r.events) PROVE Tradable(e)
      <4>1. /\ e.type \in {"FILLED", "STOPPED", "TIME_EXIT"} =>
                 e.level \in Int /\ bar.low <= e.level /\ e.level <= bar.high
            /\ e.type \in Targets => e.price \in Int /\ Winning(ctx, Best(ctx, bar), e.price)
            /\ e.type = "FILLED" => ctx.signal.low <= e.level /\ e.level <= ctx.signal.high
        BY <3>2 DEF OwnPriced
      <4>2. CASE e.type \in Targets
        <5>1. Best(ctx, bar) \in Int /\ Best(ctx, bar) = IF IsLong THEN bar.high ELSE bar.low
          BY <3>5 DEF Best, IsLong
        <5>2. Favorable(IF IsLong THEN bar.high ELSE bar.low, e.price)
          BY <4>1, <4>2, <5>1, Directions
        <5> QED
          BY <3>1, <4>2, <5>2 DEF Targets
      <4>3. CASE e.type \notin Targets
        BY <3>1, <4>1, <4>3 DEF Targets
      <4> QED
        BY <4>2, <4>3
    <3> HIDE DEF Tradable
    <3> QED
      BY <3>4, <3>6
  <2> HIDE DEF Traded
  <2> QED
    BY <1>1, <2>1, <2>2, Moves
<1>2. OrderInv /\ [Next]_vars => [Traded]_vars
  BY <1>1
<1> QED
  BY <1>2, OrderInvariant, PTL DEF Spec, ExecutesWhereTraded

-----------------------------------------------------------------------------

\* The contract's view of what is held.
Holding(s) == IF s.qty_open = 0 THEN "none"
              ELSE IF s.qty_open = s.qty_total THEN "full" ELSE "part"

(***************************************************************************)
(* What an order holds follows from its status, or was left by a cancel.   *)
(***************************************************************************)
LEMMA HoldingFollows ==
  ASSUME NEW c, Fees(c), NEW s, Book(s, c)
  PROVE  /\ s.status = "PENDING" => Holding(s) = "none"
         /\ s.status = "OPEN" => Holding(s) = "full"
         /\ s.status = "PARTIAL" => Holding(s) = "part"
         /\ s.status \in {"CLOSED", "EXPIRED", "INVALIDATED"} => Holding(s) = "none"
<1>1. s.status = "OPEN" => s.qty_open # 0
  <2> SUFFICES ASSUME s.status = "OPEN" PROVE s.qty_open # 0
    OBVIOUS
  <2>1. 0 < Part(s.qty_total, c) /\ Part(s.qty_total, c) < s.qty_total /\ s.qty_open = s.qty_total
    BY DEF Book
  <2>2. s.qty_total \in Int
    BY DEF Book
  <2>3. Part(s.qty_total, c) \in Int
    BY <2>2 DEF Part, Fees
  <2> QED
    BY <2>1, <2>2, <2>3
<1> QED
  BY <1>1 DEF Book, Holding

(***************************************************************************)
(* The engine implements the status graph of design 3.5: every bar and     *)
(* every command is a step of OrderContract, with the holding of each      *)
(* status and the freezes that go with it, or changes nothing a reader     *)
(* sees.                                                                   *)
(***************************************************************************)
THEOREM EngineKeepsContract == Spec => ImplementsContract
<1>1. Init => Contract!Init
  <2> SUFFICES ASSUME Init PROVE Contract!Init
    OBVIOUS
  <2>1. /\ state.status = "PENDING" /\ state.qty_open = 0 /\ state.zone_lost = FALSE
        /\ state.frozen_reasons = {}
    BY DEF Init, NewOrderState, StepResult
  <2> QED
    BY <2>1 DEF Contract!Init, Frozen
<1>2. ASSUME OrderInv, [Next]_vars PROVE [Contract!Next]_(Contract!vars)
  <2> DEFINE same == /\ state'.status = state.status /\ Holding(state') = Holding(state)
                     /\ state'.zone_lost = state.zone_lost /\ Frozen(state') = Frozen(state)
  <2>1. Contract!Next \/ same => [Contract!Next]_(Contract!vars)
    BY DEF Contract!vars, Holding
  <2> USE DEF Contract!Next, Contract!Trades, Contract!Active
  <2>2. Fees(ctx) /\ Book(state, ctx)
    BY <1>2, ContextGood DEF OrderInv, TypedOrder
  <2>3. /\ state.status = "PENDING" => Holding(state) = "none"
        /\ state.status = "OPEN" => Holding(state) = "full"
        /\ state.status = "PARTIAL" => Holding(state) = "part"
    BY <2>2, HoldingFollows
  <2>4. state.zone_lost \in BOOLEAN /\ state.status \in Statuses
    BY <2>2 DEF Book
  <2>5. ASSUME NEW r, NEW bar, BarMove(r, bar) PROVE Contract!Next \/ same
    <3>1. /\ state' = r.state /\ Book(r.state, ctx) /\ Moved(state, r.state)
          /\ ~IsFinal(state) /\ ~Frozen(state)
      BY <2>5 DEF BarMove, Applied, Stepped
    <3>2. /\ state'.status = "PENDING" => Holding(state') = "none"
          /\ state'.status = "OPEN" => Holding(state') = "full"
          /\ state'.status = "PARTIAL" => Holding(state') = "part"
          /\ state'.status \in {"CLOSED", "EXPIRED", "INVALIDATED"} => Holding(state') = "none"
      BY <2>2, <3>1, HoldingFollows
    <3>3. state.status \in {"PENDING", "OPEN", "PARTIAL"} /\ state'.zone_lost \in BOOLEAN
      BY <2>4, <3>1 DEF Book, IsFinal, FinalStatuses, Statuses
    <3>4. ~Frozen(state) /\ ~Frozen(state')
      BY <3>1 DEF Moved, Frozen
    <3>5. CASE state'.status = state.status /\ state.status = "PENDING"
      <4>1. CASE state'.zone_lost = state.zone_lost
        BY <2>3, <3>2, <3>4, <3>5, <4>1 DEF Frozen
      <4>2. CASE state'.zone_lost = ~state.zone_lost
        <5>1. Contract!Gate
          BY <2>3, <3>2, <3>4, <3>5, <4>2 DEF Contract!Gate, Holding, Frozen
        <5> QED
          BY <5>1
      <4> QED
        BY <2>4, <3>3, <4>1, <4>2
    <3>6. CASE state'.status = state.status /\ state.status # "PENDING"
      BY <2>3, <3>1, <3>2, <3>3, <3>4, <3>6 DEF Moved, Frozen
    <3>7. CASE state.status = "PENDING" /\ state'.status = "OPEN"
      <4>1. state.zone_lost = FALSE /\ state'.zone_lost = FALSE
        BY <2>4, <3>1, <3>3, <3>7 DEF Moved
      <4>2. Contract!Enter
        BY <2>3, <3>2, <3>4, <3>7, <4>1 DEF Contract!Enter, Holding, Frozen
      <4> QED
        BY <4>2
    <3>8. CASE state.status = "PENDING" /\ state'.status = "CLOSED"
      <4>1. state.zone_lost = FALSE /\ state'.zone_lost = FALSE
        BY <2>4, <3>1, <3>3, <3>8 DEF Moved
      <4>2. Contract!EnterAndExit
        BY <2>3, <3>2, <3>4, <3>8, <4>1 DEF Contract!EnterAndExit, Holding, Frozen
      <4> QED
        BY <4>2
    <3>9. CASE state.status = "PENDING" /\ state'.status \in {"EXPIRED", "INVALIDATED"}
      <4>1. Contract!Lapse
        BY <2>3, <3>2, <3>3, <3>4, <3>9 DEF Contract!Lapse, Holding, Frozen
      <4> QED
        BY <4>1
    <3>10. CASE state.status = "OPEN" /\ state'.status = "PARTIAL"
      <4>1. state'.zone_lost = state.zone_lost
        BY <3>1, <3>10 DEF Moved
      <4>2. Contract!ScaleOut
        BY <2>3, <3>2, <3>4, <3>10, <4>1 DEF Contract!ScaleOut, Holding, Frozen
      <4> QED
        BY <4>2
    <3>11. CASE state.status \in {"OPEN", "PARTIAL"} /\ state'.status = "CLOSED"
      <4>1. state'.zone_lost = state.zone_lost
        BY <3>1, <3>11 DEF Moved
      <4>2. Contract!Exit
        BY <2>3, <3>2, <3>4, <3>11, <4>1 DEF Contract!Exit, Holding, Frozen
      <4> QED
        BY <4>2
    <3> QED
      BY <3>1, <3>5, <3>6, <3>7, <3>8, <3>9, <3>10, <3>11 DEF Moved
  <2>6. ASSUME NEW r, CommandMove(r) PROVE Contract!Next \/ same
    <3>1. /\ state' = r.state /\ Book(r.state, ctx) /\ Decided(state, r.state)
          /\ state'.zone_lost = state.zone_lost
      BY <2>6 DEF CommandMove, Applied, Commanded
    <3>2. state'.status \in {"CLOSED", "EXPIRED", "INVALIDATED"} => Holding(state') = "none"
      BY <2>2, <3>1, HoldingFollows
    <3>3. SameHolding(state, state') => Holding(state') = Holding(state)
      BY DEF SameHolding, Holding
    <3>4. ~IsFinal(state) => state.status \in {"PENDING", "OPEN", "PARTIAL"}
      BY <2>4 DEF IsFinal, FinalStatuses, Statuses
    <3>5. CASE /\ state'.status = state.status /\ SameHolding(state, state')
               /\ state'.frozen_reasons = state.frozen_reasons
      BY <3>1, <3>3, <3>5 DEF Frozen
    <3>6. CASE /\ state'.status = state.status /\ SameHolding(state, state')
               /\ ~IsFinal(state) /\ state'.frozen_reasons # {}
      <4>1. Contract!Freeze
        BY <3>1, <3>3, <3>4, <3>6 DEF Contract!Freeze, Holding, Frozen
      <4> QED
        BY <4>1
    <3>7. CASE /\ ~IsFinal(state) /\ state'.status = "CANCELED" /\ SameHolding(state, state')
               /\ state'.frozen_reasons = state.frozen_reasons
      <4>1. Contract!Cancel
        BY <3>1, <3>3, <3>4, <3>7 DEF Contract!Cancel, Holding, Frozen
      <4> QED
        BY <4>1
    <3>8. CASE /\ ~Frozen(state) /\ state'.frozen_reasons = state.frozen_reasons
               /\ state.status = "PENDING" /\ state'.status = "EXPIRED"
      <4>1. ~Frozen(state) /\ ~Frozen(state')
        BY <3>8 DEF Frozen
      <4>2. Contract!Lapse
        BY <2>3, <2>4, <3>1, <3>2, <3>8, <4>1 DEF Contract!Lapse, Holding, Frozen
      <4> QED
        BY <4>2
    <3>9. CASE /\ ~Frozen(state) /\ state'.frozen_reasons = state.frozen_reasons
               /\ state.status \in {"OPEN", "PARTIAL"} /\ state'.status = "CLOSED"
      <4>1. ~Frozen(state) /\ ~Frozen(state')
        BY <3>9 DEF Frozen
      <4>2. Contract!Exit
        BY <2>3, <3>1, <3>2, <3>9, <4>1 DEF Contract!Exit, Holding, Frozen
      <4> QED
        BY <4>2
    <3> QED
      BY <3>1, <3>5, <3>6, <3>7, <3>8, <3>9 DEF Decided
  <2> QED
    BY <1>2, <2>1, <2>5, <2>6, Moves
<1> QED
  BY <1>1, <1>2, OrderInvariant, PTL DEF Spec, ImplementsContract, Contract!Spec

(***************************************************************************)
(* An order that only the market moves is an order: what is proved of Spec *)
(* holds of MarketSpec too.                                                *)
(***************************************************************************)
LEMMA MarketIsAnOrder == MarketSpec => Spec
<1>1. MarketNext => Next
  BY DEF MarketNext, Next, Commands
<1> QED
  BY <1>1, PTL DEF MarketSpec, Spec

-----------------------------------------------------------------------------
(* The books. *)

(***************************************************************************)
(* The sums of AccountingMatchesEvents, taken with MapThenSumSet, are      *)
(* tallies.                                                                *)
(***************************************************************************)
LEMMA TotalIsTally ==
  ASSUME NEW types
  PROVE  /\ MapThenSumSet(LAMBDA i : events[i].qty, EventIndices(types)) = Tally(events, types, "qty")
         /\ MapThenSumSet(LAMBDA i : events[i].pnl, EventIndices(types)) = Tally(events, types, "pnl")
         /\ MapThenSumSet(LAMBDA i : events[i].cost, EventIndices(types)) = Tally(events, types, "cost")
BY DEF Tally, EventIndices, Chosen, Adding!Fold, Adding!MapThenFoldSet, MapThenFoldSet,
       MapThenSumSet, Column, FieldAt, AnyOf, Plus

\* An order before anything was recorded.
Blank ==
  [status |-> "PENDING", qty_total |-> 0, qty_open |-> 0, realized_pnl |-> 0, costs |-> 0,
   dividends |-> 0, avg_entry |-> None]

\* The ledger as a whole settles the projection.
LedgerSettles == Settled(Blank, StepResult(state, events), Direction(ctx))

(***************************************************************************)
(* The charges of a configuration are not negative.                        *)
(***************************************************************************)
LEMMA ContextCharges ==
  ASSUME NEW c \in Contexts
  PROVE  Charges(c)
BY ConfigsAssumption DEF Contexts, Charges

(***************************************************************************)
(* ORDER_CREATED pays nothing.                                             *)
(***************************************************************************)
LEMMA InitSettled ==
  ASSUME Init
  PROVE  LedgerSettles
<1> DEFINE s == NewOrderState(ctx, None).state
           e == Event("ORDER_CREATED", None)
<1>1. state = s /\ events = <<e>>
  BY DEF Init, NewOrderState, StepResult
<1>2. SameFunds(Blank, s) /\ s.status = "PENDING"
  BY DEF NewOrderState, StepResult, SameFunds, Blank
<1>3. Entry(e) /\ e.qty = 0 /\ e.pnl = 0 /\ e.cost = 0 /\ e.type \notin Paying
  BY DEF Event, Entry, Paying, Exits
<1>4. Funds(Blank) /\ Blank.status = "PENDING"
  BY DEF Funds, Blank, Price
<1> HIDE DEF s, e
<1>5. Settled(Blank, StepResult(s, <<e>>), Direction(ctx))
  BY <1>2, <1>3, <1>4, QuietOnce
<1> QED
  BY <1>1, <1>5 DEF LedgerSettles

(***************************************************************************)
(* Every step appends the events of a result that settles its state.       *)
(***************************************************************************)
LEMMA StepsSettle ==
  ASSUME OrderInv, Funds(state), [Next]_vars
  PROVE  \E r : Settled(state, r, Direction(ctx)) /\ Proper(r) /\ Applied(r)
<1> USE DEF ApplyResult
<1>1. ctx \in Contexts /\ Book(state, ctx) /\ Log(events)
  BY DEF OrderInv, TypedOrder
<1>2. Fees(ctx) /\ Chain(ctx.signal, ctx) /\ Charges(ctx)
  BY <1>1, ContextGood, ContextCharges
<1>3. last # None => last \in Bars
  BY DEF OrderInv, Timed
<1>4. ASSUME NEW r, Settled(state, r, Direction(ctx)), Proper(r),
             state' = r.state, events' = events \o r.events, UNCHANGED ctx
      PROVE  \E x : Settled(state, x, Direction(ctx)) /\ Proper(x) /\ Applied(x)
  BY <1>4 DEF Applied
<1>5. ASSUME NEW r, Settled(state, r, Direction(ctx)), Commanded(state, r, last, ctx),
             state' = r.state, events' = events \o r.events, UNCHANGED ctx
      PROVE  \E x : Settled(state, x, Direction(ctx)) /\ Proper(x) /\ Applied(x)
  <2>1. Proper(r)
    BY <1>5 DEF Commanded
  <2> QED
    BY <1>4, <1>5, <2>1
<1>6. Settled(state, Unchanged(state), Direction(ctx)) /\ Proper(Unchanged(state))
  BY UnchangedSettled, NoEvents
<1>7. CASE Market
  <2>1. PICK bar \in Bars :
          /\ ProcessBar(bar)
          /\ ~Ignored(state, bar, ctx) =>
               NextExpectedMinute(bar.ts) \in Int /\ StopActive(state, bar)
    BY <1>7, MarketBar
  <2> DEFINE r == Step(state, bar, ctx)
  <2>2. state' = r.state /\ events' = events \o r.events /\ ctx' = ctx
    BY <2>1 DEF ProcessBar
  <2>3. CASE Ignored(state, bar, ctx)
    <3>1. r = Unchanged(state)
      BY <2>3 DEF Step
    <3> QED
      BY <1>4, <1>6, <2>2, <3>1
  <2>4. CASE ~Ignored(state, bar, ctx)
    <3>1. Settled(state, r, Direction(ctx)) /\ Stepped(state, r, bar, ctx)
      BY <1>1, <1>2, <2>1, <2>4, StepSettled, StepGood
    <3> HIDE DEF r
    <3>2. Proper(r)
      BY <3>1 DEF Stepped
    <3> QED
      BY <1>4, <2>2, <3>1, <3>2
  <2> QED
    BY <2>3, <2>4
<1>8. CASE FinalizeValidity
  <2>1. /\ Settled(state, ApplyValidityEnd(state, ctx, last), Direction(ctx))
        /\ Commanded(state, ApplyValidityEnd(state, ctx, last), last, ctx)
    BY <1>1, <1>2, <1>3, FinalizeSettled, FinalizeResult
  <2> QED
    BY <1>5, <1>8, <2>1 DEF FinalizeValidity
<1>9. ASSUME NEW at \in Instants, CancelOrder(at)
      PROVE  \E x : Settled(state, x, Direction(ctx)) /\ Proper(x) /\ Applied(x)
  <2>1. /\ Settled(state, Cancel(state, at), Direction(ctx))
        /\ Commanded(state, Cancel(state, at), last, ctx)
    BY <1>1, CancelSettled, CancelResult
  <2> QED
    BY <1>5, <1>9, <2>1 DEF CancelOrder
<1>10. ASSUME NEW reason \in FreezeReasons, FreezeOrder(reason)
       PROVE  \E x : Settled(state, x, Direction(ctx)) /\ Proper(x) /\ Applied(x)
  <2>1. /\ Settled(state, Freeze(state, reason, None), Direction(ctx))
        /\ Commanded(state, Freeze(state, reason, None), last, ctx)
    BY <1>1, FreezeSettled, FreezeResult
  <2> QED
    BY <1>5, <1>10, <2>1 DEF FreezeOrder
<1>11. CASE FlagOrderReview("RECHECK")
  <2>1. /\ Settled(state, FlagReview(state, "RECHECK", None), Direction(ctx))
        /\ Commanded(state, FlagReview(state, "RECHECK", None), last, ctx)
    BY <1>1, FlagSettled, FlagResult DEF Flagged
  <2> QED
    BY <1>5, <1>11, <2>1 DEF FlagOrderReview
<1>12. ASSUME NEW amount \in Amounts, NEW validated \in BOOLEAN, Dividend(amount, validated)
       PROVE  \E x : Settled(state, x, Direction(ctx)) /\ Proper(x) /\ Applied(x)
  <2>1. /\ Settled(state, ApplyDividend(state, ctx, None, amount, validated), Direction(ctx))
        /\ Commanded(state, ApplyDividend(state, ctx, None, amount, validated), last, ctx)
    BY <1>1, DividendSettled, DividendResult, AmountsAssumption
  <2> QED
    BY <1>5, <1>12, <2>1 DEF Dividend
<1>13. CASE UNCHANGED vars
  <2>1. Unchanged(state).state = state /\ Unchanged(state).events = <<>>
    BY DEF Unchanged, StepResult
  <2>2. events \o <<>> = events
    BY <1>1 DEF Log
  <2> QED
    BY <1>4, <1>6, <1>13, <2>1, <2>2 DEF vars
<1> QED
  BY <1>7, <1>8, <1>9, <1>10, <1>11, <1>12, <1>13 DEF Next, Commands

(***************************************************************************)
(* The ledger goes on settling the projection.                             *)
(***************************************************************************)
LEMMA StepSettles ==
  ASSUME OrderInv, LedgerSettles, [Next]_vars
  PROVE  LedgerSettles'
<1> DEFINE a == StepResult(state, events)
<1>1. Log(events) /\ Funds(state)
  BY DEF OrderInv, TypedOrder, LedgerSettles, Settled, StepResult
<1>2. PICK r : Settled(state, r, Direction(ctx)) /\ Proper(r) /\ Applied(r)
  BY <1>1, StepsSettle
<1>3. Proper(a) /\ a.state = state /\ a.events = events /\ Settled(Blank, a, Direction(ctx))
  BY <1>1 DEF Proper, StepResult, LedgerSettles
<1>4. Funds(Blank)
  BY DEF Funds, Blank, Price
<1> HIDE DEF a
<1>5. Settled(Blank, After(a.events, r), Direction(ctx))
  BY <1>2, <1>3, <1>4, SettledAfter
<1>6. After(a.events, r).state = r.state /\ After(a.events, r).events = events \o r.events
  BY <1>2, <1>3 DEF After, Proper
<1>7. state' = r.state /\ events' = events \o r.events /\ Direction(ctx)' = Direction(ctx)
  BY <1>2 DEF Applied, Direction
<1> DEFINE b == StepResult(state, events)'
<1>8. b.state = After(a.events, r).state /\ b.events = After(a.events, r).events
  BY <1>6, <1>7 DEF StepResult
<1> HIDE DEF b
<1>9. Settled(Blank, b, Direction(ctx))
  BY <1>5, <1>8 DEF Settled, EntryKept
<1> QED
  BY <1>7, <1>9 DEF LedgerSettles, b

(***************************************************************************)
(* The projection that new_order_state, _fill, _exit_phase, _close and     *)
(* apply_dividend update is the sum of the ledger, whatever bars and       *)
(* commands came: quantities, pnl, costs and dividends are those of the    *)
(* events, each exit is valued at its own price in the order's direction,  *)
(* and a closed order holds nothing.                                       *)
(***************************************************************************)
THEOREM LedgerAddsUp == Spec => []AccountingMatchesEvents
<1>1. Init => OrderInv /\ LedgerSettles
  BY InitOrder, InitSettled
<1>2. OrderInv /\ LedgerSettles /\ [Next]_vars => OrderInv' /\ LedgerSettles'
  BY StepOrder, StepSettles
<1>3. OrderInv /\ LedgerSettles => AccountingMatchesEvents
  <2> SUFFICES ASSUME OrderInv, LedgerSettles PROVE AccountingMatchesEvents
    OBVIOUS
  <2>1. /\ Funds(state) /\ Paid(events) /\ Sums(Blank, state, events)
        /\ Valued(events, state.avg_entry, Direction(ctx)) /\ Book(state, ctx)
    BY DEF LedgerSettles, Settled, StepResult, OrderInv, TypedOrder
  <2>2. \A types : \A field \in {"qty", "pnl", "cost"} : Tally(events, types, field) \in Int
    BY <2>1, PaidCounts, TallyType
  <2>3. /\ state.qty_total = Tally(events, {"FILLED"}, "qty")
        /\ state.qty_open = state.qty_total - Tally(events, Exits, "qty")
        /\ state.realized_pnl = Tally(events, Exits, "pnl")
        /\ state.costs = Tally(events, {"FILLED"} \cup Exits, "cost")
        /\ state.dividends = Tally(events, {"DIVIDEND"}, "pnl")
    <3>1. /\ Tally(events, {"FILLED"}, "qty") \in Int /\ Tally(events, Exits, "qty") \in Int
          /\ Tally(events, Exits, "pnl") \in Int /\ Tally(events, {"FILLED"} \cup Exits, "cost") \in Int
          /\ Tally(events, {"DIVIDEND"}, "pnl") \in Int
      BY <2>2
    <3> QED
      BY <2>1, <3>1 DEF Sums, Blank
  <2>4. state.status = "CLOSED" => state.qty_open = 0
    BY <2>1 DEF Book
  <2>5. \A e \in Recorded(Exits) : e.pnl = Sign * (e.price - state.avg_entry) * e.qty
    <3>1. Sign = Direction(ctx)
      BY DEF Sign, IsLong, Direction
    <3> QED
      BY <2>1, <3>1, RecordedInRange DEF Valued
  <2> QED
    BY <2>3, <2>4, <2>5, TotalIsTally DEF AccountingMatchesEvents, Total
<1> QED
  BY <1>1, <1>2, <1>3, PTL DEF Spec
=============================================================================
