------------------------------- MODULE Ledger -------------------------------
(***************************************************************************)
(* One order's rows in the database and everything that writes them: its   *)
(* append-only events, the projection cached from them, the segments that  *)
(* say which minutes were evaluated from which knowledge, and the          *)
(* incidents.  The rows are enough to regenerate the order                 *)
(* (evaluator/history.py): the events say what happened, the segments      *)
(* where bars were processed and as of when, the store what they were.     *)
(*                                                                         *)
(* Every write holds the order's row lock until it commits (lock_order),   *)
(* so a transaction is one action.  What is not one transaction is not one *)
(* action: a cycle fixes its instant and its market_now, and evaluates     *)
(* later; an integrity error records its incident, and freezes later.      *)
(*                                                                         *)
(* The store is a sequence of one-bar batches, the log that KnowledgeLog   *)
(* proves of it; an instant is a length of the log (a batch of several     *)
(* bars is several one-bar batches that no instant separates).             *)
(***************************************************************************)
EXTENDS FillModel, FiniteSetsExt

CONSTANTS
  Signals, Configs, Created, ValidSessions,
  Bounds,           \* [candles, minutes, batches, operator, answers] of each instance:
                    \* the candles stored and for which minutes, the number of batches,
                    \* whether the evening's commands, the operator's and incidents
                    \* come, and the answers of the dividend's two sources: they
                    \* agree, differ, or are both unavailable (None)
  LastInstant,      \* bound: time stops here
  MaxEvents,        \* bound: no command or incident once the order has more events
  Amount,           \* per share, of the one dividend
  ExSession         \* the session of its ex-date

ASSUME SignalsAssumption == \A sig \in Signals : ValidSignal(sig)
ASSUME ExDateAssumption == ExSession \in 2..Len(Sessions)

VARIABLES
  bound,        \* the instance, one of Bounds
  ctx,          \* the order's row, fixed at creation
  now,
  store,        \* the bar versions, in the order of their ingestion
  run,          \* the cycle in progress [asOf, marketNow, close], None without one
  events,       \* order_events, by seq
  projection,   \* order_state [state, next_seq], None when the row is missing
  segments,     \* order_eval_segments [asOf, from, to, data, first_seq, count]
  incidents,    \* the kinds in integrity_incidents
  freezing,     \* the kind of an incident whose freeze has not run yet, or None
  dividend      \* whether the row of the dividend is validated, None without one

vars == <<bound, ctx, now, store, run, events, projection, segments, incidents, freezing, dividend>>

Start == EvaluationStart(Created)
Until == SignalValidUntil(Start, ValidSessions)

\* The calendar covers the window and the session after it, which
\* calendar_window_hash needs, or no order is created.
ASSUME WindowAssumption ==
  /\ Created \in Nat /\ ValidSessions \in Nat \ {0}
  /\ Start \in Nat /\ Until \in Nat
  /\ \E i \in DOMAIN Sessions : Until < Sessions[i].open

-----------------------------------------------------------------------------
(* Bars as of an instant. *)

VersionsAsOf(asOf, ts) == {i \in 1..asOf : store[i].ts = ts}

MinutesOf(from, to) == {m \in from..(to - 1) : IsExpectedMinute(m)}

\* Minutes in the order of time.
Ascending(minutes) ==
  MapThenFoldSet(LAMBDA m, earlier : Append(earlier, m), <<>>, LAMBDA m : m, Max, minutes)

\* The minutes that have a bar.
Stored(asOf, minutes) == {m \in minutes : VersionsAsOf(asOf, m) # {}}

\* read_bars_as_of and bars_in_minutes: the latest version of each minute.
BarsAsOf(asOf, minutes) ==
  LET stored == Ascending(Stored(asOf, minutes))
  IN  [i \in DOMAIN stored |-> store[Max(VersionsAsOf(asOf, stored[i]))]]

\* selected_data_hash: the version used for each minute, None for MISSING.
SelectedData(minutes, bars) ==
  [m \in minutes |->
     IF \E i \in DOMAIN bars : bars[i].ts = m
     THEN (CHOOSE bar \in Range(bars) : bar.ts = m).batch ELSE None]

-----------------------------------------------------------------------------
(* Appending events. *)

EventKey(e) ==
  <<e.type, e.reason,
    IF e.type \in {"ZONE_LOST", "ZONE_RECLAIMED", "DATA_GAP"} THEN e.ts ELSE None,
    IF e.type \in {"NEEDS_REVIEW", "DATA_QUALITY"} THEN e.level ELSE None>>

\* prepare_event: a bar's event names the version of the bar.
Prepared(e, bars) ==
  [field \in DOMAIN e \cup {"batch"} |->
     IF field # "batch" THEN e[field]
     ELSE IF e.ts # None /\ \E i \in DOMAIN bars : bars[i].ts = e.ts
     THEN (CHOOSE bar \in Range(bars) : bar.ts = e.ts).batch ELSE None]

\* dedupe_events against the events already known.
Fresh(known, evs) ==
  FoldLeft(LAMBDA fresh, e : IF e \in Range(known \o fresh) THEN fresh ELSE Append(fresh, e),
           <<>>, evs)

Collides(known, evs) ==
  \E e \in Range(evs), f \in Range(known \o evs) : EventKey(e) = EventKey(f) /\ e # f

BeforeStart(evs) ==
  \E e \in Range(evs) : e.type \in MarketEventTypes /\ (e.ts = None \/ e.ts < ctx.start)

NewEvents(known, result, bars) ==
  Fresh(known, [i \in DOMAIN result.events |-> Prepared(result.events[i], bars)])

IntegrityErrorOf(known, result, bars) ==
  LET evs == [i \in DOMAIN result.events |-> Prepared(result.events[i], bars)]
  IN  IF BeforeStart(evs) THEN "EVENT_BEFORE_EVALUATION_START"
      ELSE IF Collides(known, evs) THEN "EVENT_HASH_CONFLICT" ELSE None

\* run_guarded: the incident is committed on its own; the freeze comes later.
Raise(kind) ==
  /\ freezing = None /\ kind \notin incidents   \* bounds: one at a time, each kind once
  /\ incidents' = incidents \cup {kind}
  /\ freezing' = kind
  /\ UNCHANGED <<bound, ctx, now, store, run, events, projection, segments, dividend>>

\* Mutant: next_seq counts the duplicates that were not inserted.
AppendCounting(result, bars) ==
  LET fresh == NewEvents(events, result, bars)
  IN  /\ events' = events \o fresh
      /\ projection' = [state |-> result.state,
                        next_seq |-> projection.next_seq + Len(result.events)]

\* apply_result.
Append_(result, bars) ==
  LET fresh == NewEvents(events, result, bars)
  IN  /\ events' = events \o fresh
      /\ projection' = [state |-> result.state, next_seq |-> projection.next_seq + Len(fresh)]

\* apply_command, for a command that returns result.
Command(result, bars) ==
  LET error == IntegrityErrorOf(events, result, bars)
  IN  IF error # None THEN Raise(error)
      ELSE /\ Append_(result, bars)
           /\ UNCHANGED <<bound, ctx, now, store, run, segments, incidents, freezing, dividend>>

-----------------------------------------------------------------------------

Init ==
  /\ bound \in Bounds
  /\ ctx \in [signal : Signals, config : Configs, start : {Start}, until : {Until}]
  /\ now = Created /\ store = <<>> /\ run = None /\ segments = <<>>
  /\ incidents = {} /\ freezing = None /\ dividend = None
  /\ LET created == NewOrderState(ctx, None)
     IN  /\ events = [i \in DOMAIN created.events |-> Prepared(created.events[i], <<>>)]
         /\ projection = [state |-> created.state, next_seq |-> 2]

Tick ==
  /\ now < LastInstant
  /\ now' = now + 1
  /\ UNCHANGED <<bound, ctx, store, run, events, projection, segments, incidents, freezing, dividend>>

\* A complete minute's bar, late or corrected; store_batch drops a repeated version.
Ingest(candle, ts) ==
  LET current == VersionsAsOf(Len(store), ts)
      bar == [ts |-> ts, open |-> candle.open, high |-> candle.high, low |-> candle.low,
              close |-> candle.close, batch |-> Len(store) + 1]
  IN  /\ Len(store) < bound.batches /\ ts + Minute <= now
      /\ current # {} => store[Max(current)] # [bar EXCEPT !.batch = Max(current)]
      /\ store' = Append(store, bar)
      /\ UNCHANGED <<bound, ctx, now, run, events, projection, segments, incidents, freezing, dividend>>

Live == projection # None /\ ~IsFinal(projection.state) /\ ~Frozen(projection.state)

\* run_live_cycle, alone by its lock, for an order that open_order_cursors selects;
\* the end-of-day cycle closes trailing gaps.
StartRun(marketNow, close) ==
  /\ run = None /\ (projection = None \/ Live)
  /\ run' = [asOf |-> Len(store), marketNow |-> marketNow, close |-> close]
  /\ UNCHANGED <<bound, ctx, now, store, events, projection, segments, incidents, freezing, dividend>>

\* The cycle is over, or its process dies.
EndRun ==
  /\ run # None
  /\ run' = None
  /\ UNCHANGED <<bound, ctx, now, store, events, projection, segments, incidents, freezing, dividend>>

LastSegmentEnd == Max({segments[i].to : i \in DOMAIN segments})
\* Mutant: the last evaluated minute again.
ResumeAgain == IF segments = <<>> THEN ctx.start ELSE LastSegmentEnd

ResumeFrom == IF segments = <<>> THEN ctx.start ELSE NextExpectedMinute(LastSegmentEnd)

\* evaluate_order, where it writes something.
Evaluate ==
  LET horizon == Lesser(ctx.until, Floor(run.marketNow))
      minutes == MinutesOf(ResumeFrom, horizon)
      evaluated == IF run.close THEN minutes ELSE Stored(run.asOf, minutes)
      window == {m \in minutes : m <= Max(evaluated)}
      used == BarsAsOf(run.asOf, window)
      result == RunBars(projection.state, used, ctx)
      error == IntegrityErrorOf(events, result, used)
  IN  /\ run # None /\ Live
      /\ ResumeFrom < horizon /\ evaluated # {}
      /\ IF error # None THEN Raise(error)
         ELSE /\ Append_(result, used)
              /\ segments' = Append(segments,
                   [asOf |-> run.asOf, from |-> Min(window), to |-> Max(window),
                    data |-> SelectedData(window, used), first_seq |-> projection.next_seq,
                    count |-> Len(NewEvents(events, result, used))])
              /\ UNCHANGED <<bound, ctx, now, store, run, incidents, freezing, dividend>>

-----------------------------------------------------------------------------
(* Commands. *)

CancelOrder ==
  /\ projection # None /\ ~IsFinal(projection.state)
  /\ Command(Cancel(projection.state, now), <<>>)

FreezeOrder ==
  /\ projection # None
  /\ Command(Freeze(projection.state, "SPLIT", None), <<>>)

FlagOrderReview ==
  /\ projection # None
  /\ Command(FlagReview(projection.state, "RECHECK", None), <<>>)

\* processed_bar: the version of the bar as of the run that processed it.
ProcessedBar(ts) ==
  LET covering == {i \in DOMAIN segments : segments[i].from <= ts /\ ts <= segments[i].to}
  IN  IF covering = {} THEN <<>>
      ELSE BarsAsOf(segments[CHOOSE i \in covering : TRUE].asOf, {ts})

FinalizeValidity ==
  LET s == projection.state
      held == s.status \in {"OPEN", "PARTIAL"} /\ s.last_bar_ts # None
      bars == ProcessedBar(s.last_bar_ts)
  IN  /\ now >= ctx.until /\ projection # None
      /\ IF held /\ bars = <<>> THEN Raise("PROCESSED_BAR_MISSING")
         ELSE IF held THEN Command(ApplyValidityEnd(s, ctx, Head(bars)), bars)
         ELSE Command(ApplyValidityEnd(s, ctx, None), <<>>)

\* Mutant: any segment confirms the position.
ConfirmedByAny == segments # <<>>

\* _dividend_command, between the close of the session before and the ex-date's open.
Confirmed == /\ segments # <<>>
             /\ LastSegmentEnd >= Sessions[ExSession - 1].close - Minute

DividendPending ==
  /\ Sessions[ExSession - 1].close <= now /\ now < Sessions[ExSession].open
  /\ projection # None /\ ctx.start < Sessions[ExSession].open
  /\ \A e \in Range(events) : e.type # "DIVIDEND"

\* apply_dividends: the first check of the two sources is stored, before any command.
CheckDividend(agree) ==
  /\ DividendPending /\ Live /\ dividend = None
  /\ dividend' = agree
  /\ UNCHANGED <<bound, ctx, now, store, run, events, projection, segments, incidents, freezing>>

\* _dividend_command by the stored row, whatever became of the order since it was
\* a candidate.
Dividend ==
  /\ DividendPending /\ dividend # None
  /\ Command(IF ~Confirmed THEN FlagReview(projection.state, "DIVIDEND_POSITION_UNCONFIRMED", ExSession)
             ELSE ApplyDividend(projection.state, ctx, ExSession, Amount, dividend), <<>>)

\* _unverifiable_command: no source answered.
DividendUnverifiable ==
  /\ DividendPending /\ Live
  /\ Confirmed => projection.state.qty_open > 0
  /\ Command(FlagReview(projection.state, IF Confirmed THEN "DIVIDEND_UNVERIFIED"
                                          ELSE "DIVIDEND_POSITION_UNCONFIRMED", ExSession), <<>>)

\* quality_window, within session i.
QualityMinutes(s, i) ==
  LET end == IF s.final_event_ts = None THEN Lesser(ctx.until, Floor(now))
             ELSE IF IsExpectedMinute(s.final_event_ts) THEN s.final_event_ts + Minute
             ELSE s.final_event_ts
  IN  {m \in MinutesOf(Greater(ctx.start, Sessions[i].open), Sessions[i].close) : m < end}

MissingAmong(minutes) == minutes \ Stored(Len(store), minutes)

\* find_gaps and gap_events, for gaps of any length.
Gaps(missing) ==
  LET starts == Ascending({m \in missing : m - Minute \notin missing})
  IN  [g \in DOMAIN starts |-> Event("DATA_GAP", starts[g])]

\* missing_bar_reviews: a reference that is lacking, or that touches a level.
MissingBarReviews(result, doubtful) ==
  FoldLeft(LAMBDA flagged, m :
             After(flagged.events, FlagReview(flagged.state, "MISSING_BAR", m)),
           result, Ascending(doubtful))

\* The command's events: its record, its gaps and its reviews.
QualityResult(s, i, missing, doubtful) ==
  MissingBarReviews(
    StepResult(s, <<[Event("DATA_QUALITY", None) EXCEPT !.level = i]>> \o Gaps(missing)), doubtful)

\* _quality_command for the session i that just closed, where it has a bar.
Quality(i) ==
  /\ projection # None /\ Sessions[i].close <= now
  /\ i < Len(Sessions) => now < Sessions[i + 1].close
  /\ \A e \in Range(events) : e.type = "DATA_QUALITY" => e.level # i
  /\ \E minutes \in {QualityMinutes(projection.state, i)} :
     \E missing \in {MissingAmong(minutes)} :
       /\ missing # minutes
       /\ \E doubtful \in SUBSET missing :
            Command(QualityResult(projection.state, i, missing, doubtful), <<>>)

-----------------------------------------------------------------------------
(* Integrity. *)

\* evaluate_order and apply_command without a projection.
ProjectionMissing == projection = None /\ Raise("PROJECTION_MISSING")

\* load_order_context under a calendar package that disagrees.
CalendarMismatch == projection # None /\ Raise("CALENDAR_MISMATCH")

\* The second transaction of quarantine; the process may die before it.
QuarantineFreeze ==
  /\ freezing # None
  /\ freezing' = None
  /\ IF projection = None THEN UNCHANGED <<events, projection>>
     ELSE Append_(Freeze(projection.state, "INTEGRITY", None), <<>>)
  /\ UNCHANGED <<bound, ctx, now, store, run, segments, incidents, dividend>>

QuarantineLost ==
  /\ freezing # None
  /\ freezing' = None
  /\ UNCHANGED <<bound, ctx, now, store, run, events, projection, segments, incidents, dividend>>

\* delete_projection, before a rebuild.
DropProjection ==
  /\ projection # None
  /\ projection' = None
  /\ UNCHANGED <<bound, ctx, now, store, run, events, segments, incidents, freezing, dividend>>

-----------------------------------------------------------------------------
(* regenerate_history. *)

\* One result appended to the regenerated history; expected is its stored count.
Replayed(h, known, result, bars, fresh, expected) ==
  [h EXCEPT !.state = result.state,
            !.seq = @ + Len(fresh),
            !.diverged = @ \/ IntegrityErrorOf(known, result, bars) # None
                           \/ fresh # SubSeq(events, h.seq, Lesser(Len(events), h.seq + expected - 1))]

Known(h) == SubSeq(events, 1, h.seq - 1)

ReplayBars(h, segment, minutes, bars, result) ==
  [Replayed(h, Known(h), result, bars, NewEvents(Known(h), result, bars), segment.count)
     EXCEPT !.index = @ + 1,
            !.diverged = @ \/ SelectedData(minutes, bars) # segment.data]

ReplayAsOf(h, segment, minutes, bars) ==
  ReplayBars(h, segment, minutes, bars, RunBars(h.state, bars, ctx))

SegmentMinutes(segment) == MinutesOf(segment.from, segment.to + Minute)

ReplaySegment(h, segment) ==
  ReplayAsOf(h, segment, SegmentMinutes(segment), BarsAsOf(segment.asOf, SegmentMinutes(segment)))

\* Mutant: a freeze is taken for a record.
CommandOfUnfrozen(e, s, bar) ==
  CASE e.type = "CANCELED" -> Cancel(s, e.level)
    [] e.type = "NEEDS_REVIEW" -> FlagReview(s, e.reason, e.level)
    [] e.type = "DIVIDEND" -> ApplyDividend(s, ctx, ExSession, e.level, TRUE)
    [] e.type = "EXPIRED" -> ApplyValidityEnd(s, ctx, None)
    [] e.type = "TIME_EXIT" /\ bar # None -> ApplyValidityEnd(s, ctx, bar)
    [] OTHER -> Unchanged(s)

\* _command: the engine call that a stored event outside a segment stands for.
CommandOf(e, s, bar) ==
  CASE e.type = "CANCELED" -> Cancel(s, e.level)
    [] e.type = "FROZEN" -> Freeze(s, e.reason, e.level)
    [] e.type = "NEEDS_REVIEW" -> FlagReview(s, e.reason, e.level)
    [] e.type = "DIVIDEND" -> ApplyDividend(s, ctx, ExSession, e.level, TRUE)
    [] e.type = "EXPIRED" -> ApplyValidityEnd(s, ctx, None)
    [] e.type = "TIME_EXIT" /\ bar # None -> ApplyValidityEnd(s, ctx, bar)
    [] OTHER -> Unchanged(s)   \* its lack of events is the divergence

ReplayEvents(h, result, bars, fresh) ==
  [Replayed(h, Known(h), result, bars, fresh, Len(fresh)) EXCEPT !.diverged = @ \/ fresh = <<>>]

ReplayResult(h, result, bars) ==
  ReplayEvents(h, result, bars, NewEvents(Known(h), result, bars))

\* The version that an event names.
BarOf(e) == IF e.batch = None THEN None ELSE store[e.batch]

ReplayCommand(h, e, bar) ==
  ReplayResult(h, CommandOf(e, h.state, bar), IF bar = None THEN <<>> ELSE <<bar>>)

ReplayItem(h, n) ==
  IF h.diverged THEN h
  ELSE IF h.index <= Len(segments) /\ segments[h.index].first_seq = h.seq
  THEN ReplaySegment(h, segments[h.index])
  ELSE IF h.seq > Len(events) THEN h
  ELSE IF events[h.seq].type \in {"DATA_QUALITY", "DATA_GAP"} THEN [h EXCEPT !.seq = @ + 1]
  ELSE ReplayCommand(h, events[h.seq], BarOf(events[h.seq]))

Replay(created) ==
  FoldLeft(ReplayItem,
           [state |-> created.state, seq |-> Len(created.events) + 1, index |-> 1,
            diverged |-> NewEvents(<<>>, created, <<>>) # SubSeq(events, 1, 1)],
           [n \in 1..(Len(events) + Len(segments)) |-> n])

\* What the rows imply: the history, and the projection at its end.
Regenerated(h) ==
  [diverged |-> h.diverged \/ h.index <= Len(segments),
   projection |-> [state |-> h.state, next_seq |-> h.seq]]

RegeneratedHistory == Regenerated(Replay(NewOrderState(ctx, None)))

\* Mutant: a rebuilt projection starts without its freezes.
RebuildUnfrozen(h) ==
  IF h.diverged \/ (projection # None /\ projection # h.projection)
  THEN Raise("PROJECTION_INTEGRITY_ERROR")
  ELSE /\ projection' = [h.projection EXCEPT !.state.frozen_reasons = {}]
       /\ UNCHANGED <<bound, ctx, now, store, run, events, segments, incidents, freezing, dividend>>

\* rebuild_projection
RebuildFrom(h) ==
  IF h.diverged \/ (projection # None /\ projection # h.projection)
  THEN Raise("PROJECTION_INTEGRITY_ERROR")
  ELSE /\ projection' = h.projection
       /\ UNCHANGED <<bound, ctx, now, store, run, events, segments, incidents, freezing, dividend>>

Rebuild == RebuildFrom(RegeneratedHistory)

-----------------------------------------------------------------------------
(* _recalculate_order: the order again, on the data of one instant. *)

\* Mutant: the ex-date's bars first.
PayAfterBars(result, bars) ==
  LET ran == After(result.events, RunBars(result.state, bars, ctx))
  IN  After(ran.events, ApplyDividend(ran.state, ctx, ExSession, Amount, dividend))

\* A chunk that opens with the dividend.
PayThenBars(result, bars) ==
  LET paid == After(result.events, ApplyDividend(result.state, ctx, ExSession, Amount, dividend))
  IN  After(paid.events, RunBars(paid.state, bars, ctx))

\* _chunks_by_dividend, and each chunk's bars.
RecalculatedBars(created, bars, minutes) ==
  LET open == Sessions[ExSession].open
      Before(bar) == bar.ts < open
      From(bar) == ~Before(bar)
      first == RunBars(created, SelectSeq(bars, Before), ctx)
  IN  IF dividend # None /\ \E m \in minutes : SessionContaining(m) = ExSession
      THEN PayThenBars(first, SelectSeq(bars, From))
      ELSE RunBars(created, bars, ctx)

RecalculatedEnd(result, bars, at) ==
  LET last == SelectSeq(bars, LAMBDA bar : bar.ts = result.state.last_bar_ts)
  IN  IF at < ctx.until \/ IsFinal(result.state) \/ Frozen(result.state) THEN result
      ELSE After(result.events,
                 ApplyValidityEnd(result.state, ctx, IF last = <<>> THEN None ELSE Last(last)))

RecalculatedOn(bars, minutes, at) ==
  RecalculatedEnd(RecalculatedBars(NewOrderState(ctx, None).state, bars, minutes), bars, at)

\* The market and the dividends as of the newest instant.
Recalculated ==
  LET minutes == MinutesOf(ctx.start, Lesser(ctx.until, Floor(now)))
  IN  RecalculatedOn(BarsAsOf(Len(store), minutes), minutes, now)

-----------------------------------------------------------------------------

Evaluation ==
  \/ Tick
  \/ \E candle \in bound.candles, ts \in bound.minutes : Ingest(candle, ts)
  \/ \E close \in BOOLEAN : StartRun(now, close)
  \/ EndRun
  \/ Evaluate
  \/ FinalizeValidity

\* The opening's and the evening's commands.
Opening ==
  \/ \E agree \in bound.answers \ {None} : CheckDividend(agree)
  \/ Dividend
  \/ None \in bound.answers /\ DividendUnverifiable

Evening == \E i \in 1..ValidSessions : Quality(i)

Operator ==
  \/ CancelOrder
  \/ FreezeOrder
  \/ FlagOrderReview

Integrity ==
  \/ ProjectionMissing
  \/ CalendarMismatch
  \/ DropProjection
  \/ Rebuild

Quarantine == QuarantineFreeze \/ QuarantineLost

Next ==
  \/ Evaluation
  \/ (bound.operator => Len(events) <= MaxEvents) /\ Opening
  \/ bound.operator /\ Len(events) <= MaxEvents /\ (Evening \/ Operator \/ Integrity)
  \/ Quarantine

Spec == Init /\ [][Next]_vars

-----------------------------------------------------------------------------

(***************************************************************************)
(* Decision D2: the rows regenerate the order.  Whatever mixture of        *)
(* segments, commands, records, late and corrected bars wrote the ledger,  *)
(* regenerate_history reproduces every stored event, never reports a       *)
(* divergence, and arrives at the cached projection.                       *)
(***************************************************************************)
Reproduces(h) == ~h.diverged /\ (projection # None => projection = h.projection)
HistoryRegenerates == Reproduces(RegeneratedHistory)

(***************************************************************************)
(* The segments tile the window from its first minute, each beginning at   *)
(* the expected minute after the one before, and their instants never go   *)
(* back: no minute is evaluated twice or skipped, and segment_containing   *)
(* has one answer.                                                         *)
(***************************************************************************)
SegmentsTile ==
  \A i \in DOMAIN segments :
    /\ segments[i].from = IF i = 1 THEN ctx.start ELSE NextExpectedMinute(segments[i - 1].to)
    /\ segments[i].from <= segments[i].to /\ segments[i].to < ctx.until
    /\ i > 1 => /\ segments[i - 1].asOf <= segments[i].asOf
                /\ segments[i - 1].first_seq <= segments[i].first_seq

(***************************************************************************)
(* No legal sequence of evaluations, commands, late data, lost projections *)
(* and rebuilds raises an integrity error of its own: a missing projection *)
(* and a calendar that changed are the only causes.                        *)
(***************************************************************************)
OnlyForeignIncidents == incidents \subseteq {"PROJECTION_MISSING", "CALENDAR_MISMATCH"}

(***************************************************************************)
(* A dividend is credited on the position the order really held before the *)
(* ex-date: no bar of an earlier minute is processed into the ledger after *)
(* the credit (only a position without any later bar is closed there).     *)
(***************************************************************************)
DividendOnConfirmedPosition ==
  \A i, j \in DOMAIN events :
    /\ i < j /\ events[i].type = "DIVIDEND" /\ events[j].type \in MarketEventTypes \ {"TIME_EXIT"}
    => events[j].ts >= Sessions[ExSession].open

(***************************************************************************)
(* A recalculation is another road to the same trade.  An order that only  *)
(* the jobs wrote, evaluated as far as there are bars, none of which came  *)
(* late or was corrected, and ended when its validity did, recalculates to *)
(* its own fills, exits and end, in order; and to the dividend it was      *)
(* credited, on the same position (one that its opening job missed, the    *)
(* recalculation adds).                                                    *)
(***************************************************************************)
TradeOf(evs, types) ==
  LET traded == SelectSeq(evs, LAMBDA e : e.type \in types)
  IN  [i \in DOMAIN traded |->
         <<traded[i].type, traded[i].ts, traded[i].price, traded[i].qty, traded[i].pnl>>]

TradeTypes == MarketEventTypes \cup {"EXPIRED"}

Undisturbed ==
  /\ projection # None
  /\ \A e \in Range(events) : e.type \notin {"CANCELED", "FROZEN"}
  /\ \A i \in DOMAIN segments :
       LET minutes == SegmentMinutes(segments[i])
       IN  segments[i].data = SelectedData(minutes, BarsAsOf(Len(store), minutes))
  /\ BarsAsOf(Len(store), MinutesOf(ResumeFrom, Lesser(ctx.until, Floor(now)))) = <<>>
  /\ now >= ctx.until => IsFinal(projection.state)

SameTrade(types, recalculated) == TradeOf(events, types) = TradeOf(recalculated.events, types)

RecalculationAgrees ==
  Undisturbed =>
    \A recalculated \in {Recalculated} :
      /\ SameTrade(TradeTypes, recalculated)
      /\ now > Sessions[ExSession].open /\ (\E e \in Range(events) : e.type = "DIVIDEND") =>
           SameTrade(TradeTypes \cup {"DIVIDEND"}, recalculated)

(***************************************************************************)
(* A freeze outlives everything but an operator: after a FROZEN event no   *)
(* bar, no dividend and no end of validity is written, whichever cycle was *)
(* under way and even when the projection was lost and rebuilt since.      *)
(***************************************************************************)
FrozenForGood ==
  \A i, j \in DOMAIN events :
    /\ i < j /\ events[i].type = "FROZEN"
    => events[j].type \notin MarketEventTypes \cup {"EXPIRED", "DIVIDEND"}

=============================================================================
