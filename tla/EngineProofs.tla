---------------------------- MODULE EngineProofs -----------------------------
(***************************************************************************)
(* What the functions of the fill model return, for every calendar,        *)
(* signal, configuration, bar and state: the lemmas that the proofs about  *)
(* an order and about its ledger share.                                    *)
(*                                                                         *)
(*   The calendar: minutes lie a minute apart, sessions follow each other, *)
(*   and next_expected_minute is before any later expected minute.         *)
(*                                                                         *)
(*   The trade: each operator of the engine has a lemma on its result, in  *)
(*   LONG terms: what it keeps of the state, the events it returns and the *)
(*   prices in them (Good). LongStepGood composes the phases of a bar with *)
(*   the end of the window, StepGood mirrors them for a SHORT order        *)
(*   (Stepped), and the commands have their own description (Commanded).   *)
(*                                                                         *)
(*   The entry: what the ledger says of triggers, zones and fills          *)
(*   (EntryBacked) is kept by a bar and by a command.                      *)
(*                                                                         *)
(*   The books: a sum over a ledger is a fold over a set of indices, whose *)
(*   order must not matter. FoldProofs, instantiated with addition, says   *)
(*   what one step of a fold does; from it the tally of a field over       *)
(*   events of some types is additive in the log (TallyConcat).            *)
(*   Settled(s, r, sign) says that the events of a result r account for    *)
(*   what its state has and s had not: each tally is a difference, each    *)
(*   exit earns the distance of its own price from the entry, and the      *)
(*   entry price is not set again once there is one. Every function of the *)
(*   engine settles, results settle one after the other (SettledAfter),    *)
(*   and a SHORT order settles because the mirror keeps amounts and        *)
(*   negates prices (MirrorSettled).                                       *)
(*                                                                         *)
(*   What is written: a bar writes events of its own minute and of certain *)
(*   types (OfBar), a run of bars those of its bars (Ran), and a command   *)
(*   no freeze but its own, forgetting no reason (Calm, Writes).           *)
(*                                                                         *)
(*   What happens once: the first target, the entry, the end, a change of  *)
(*   the zone. Each leaves a trace in the state that no later phase        *)
(*   removes (Traced), so an event of one result is never one of an earlier*)
(*   result's (Took, Went): the check for duplicates of append_events      *)
(*   leaves every event of the engine in the ledger.                       *)
(*                                                                         *)
(*   Twins: two orders that differ in their last bar only, under contexts  *)
(*   that differ in their start only, make the same of a bar that neither  *)
(*   ignores (StepTwins). No operator of the engine reads more of a state. *)
(*   An order waits, having passed gates and nothing else, is held, or is  *)
(*   gone (StepSound); so the gates are all there is to inherit.           *)
(*                                                                         *)
(*   The calendar behind the segments: the sessions that are closed are    *)
(*   the first ones, and nothing is expected between a close and the next  *)
(*   open.                                                                 *)
(***************************************************************************)
EXTENDS FillModel, FiniteSetsExt, SequenceTheorems, FiniteSetTheorems, WellFoundedInduction, TLAPS

-----------------------------------------------------------------------------
(* The calendar. *)

(***************************************************************************)
(* A set of naturals that is not empty has a least element.                *)
(***************************************************************************)
LEMMA Least ==
  ASSUME NEW S \in SUBSET Nat, S # {}
  PROVE  \E x \in S : \A y \in S : x <= y
<1>1. PICK x \in S : \A y \in S : ~ (<<y, x>> \in OpToRel(<, Nat))
  BY NatLessThanWellFounded, WFMin
<1>2. \A y \in S : ~ (y < x)
  BY <1>1 DEF OpToRel
<1> QED
  BY <1>2

(***************************************************************************)
(* Division with rest.                                                     *)
(***************************************************************************)
LEMMA Division ==
  ASSUME NEW M \in Nat \ {0}, NEW t \in Int
  PROVE  t \div M \in Int /\ t % M \in 0..(M - 1) /\ t = M * (t \div M) + (t % M)
<1>1. t \div M \in Int /\ t % M \in 0..(M - 1)
  OBVIOUS
<1>2. t = M * (t \div M) + (t % M)
  OBVIOUS
<1> QED
  BY <1>1, <1>2

(***************************************************************************)
(* Whole minutes lie a minute apart.                                       *)
(***************************************************************************)
LEMMA Multiples ==
  ASSUME NEW M \in Nat \ {0}, NEW t \in Int, NEW u \in Int, t % M = 0
  PROVE  /\ (t + M) % M = 0 /\ (t - M) % M = 0
         /\ u % M = 0 /\ t < u => t + M <= u
<1> DEFINE p == t \div M
           q == u \div M
<1>1. p \in Int /\ q \in Int /\ t = M * p + (t % M) /\ u = M * q + (u % M)
  BY Division
<1> HIDE DEF p, q
<1>2. M * p \in Int /\ M * q \in Int
  BY <1>1
<1>3. t = M * p
  BY <1>1, <1>2
<1>4. /\ t + M = M * (p + 1) /\ p + 1 \in Int
      /\ t - M = M * (p - 1) /\ p - 1 \in Int
  BY <1>1, <1>3
<1>5. \A k \in Int : (M * k) % M = 0
  OBVIOUS
<1>6. (t + M) % M = 0 /\ (t - M) % M = 0
  BY <1>4, <1>5
<1>7. ASSUME u % M = 0, t < u PROVE t + M <= u
  <2>1. u = M * q
    BY <1>1, <1>2, <1>7
  <2>2. M * p < M * q => M * p + M <= M * q
    BY <1>1
  <2> QED
    BY <1>3, <1>7, <2>1, <2>2
<1> QED
  BY <1>6, <1>7

(***************************************************************************)
(* The loaded sessions, and how many of them an instant has behind it.     *)
(***************************************************************************)
LEMMA Counted ==
  ASSUME NEW t \in Int
  PROVE  /\ Len(Sessions) \in Nat \ {0} /\ DOMAIN Sessions = 1..Len(Sessions)
         /\ \A i \in DOMAIN Sessions : Sessions[i] \in Window /\ Sessions[i].open < Sessions[i].close
         /\ ClosedBy(t) \in 0..Len(Sessions) /\ OpenedBefore(t) \in 0..Len(Sessions)
         /\ \A u \in Int : t <= u => ClosedBy(t) <= ClosedBy(u)
<1>1. /\ Sessions \in Seq(Window) /\ Sessions # <<>> /\ Len(Sessions) \in Nat
      /\ DOMAIN Sessions = 1..Len(Sessions)
      /\ \A i \in DOMAIN Sessions : Sessions[i].open < Sessions[i].close
  BY CalendarAssumption DEF IsCalendar
<1>2. Len(Sessions) # 0 /\ \A i \in DOMAIN Sessions : Sessions[i] \in Window
  BY <1>1
<1>3. IsFiniteSet(DOMAIN Sessions) /\ Cardinality(DOMAIN Sessions) = Len(Sessions)
  BY <1>1, <1>2, FS_Interval
<1>4. \A S \in SUBSET DOMAIN Sessions :
        IsFiniteSet(S) /\ Cardinality(S) \in Nat /\ Cardinality(S) <= Len(Sessions)
  BY <1>3, FS_Subset, FS_CardinalityType
<1>5. ASSUME NEW u \in Int, t <= u PROVE ClosedBy(t) <= ClosedBy(u)
  <2> DEFINE A == {i \in DOMAIN Sessions : Sessions[i].close <= t}
             B == {i \in DOMAIN Sessions : Sessions[i].close <= u}
  <2>1. A \subseteq B
    BY <1>2, <1>5 DEF Window
  <2>2. IsFiniteSet(B)
    BY <1>4
  <2> QED
    BY <2>1, <2>2, FS_Subset DEF ClosedBy
<1>6. ClosedBy(t) \in 0..Len(Sessions) /\ OpenedBefore(t) \in 0..Len(Sessions)
  <2>1. /\ {i \in DOMAIN Sessions : Sessions[i].close <= t} \in SUBSET DOMAIN Sessions
        /\ {i \in DOMAIN Sessions : Sessions[i].open < t} \in SUBSET DOMAIN Sessions
    OBVIOUS
  <2> QED
    BY <1>1, <1>4, <2>1 DEF ClosedBy, OpenedBefore
<1> QED
  BY <1>1, <1>2, <1>5, <1>6

(***************************************************************************)
(* A later session opens later.                                            *)
(***************************************************************************)
LEMMA OpensInOrder ==
  ASSUME NEW i \in DOMAIN Sessions, NEW j \in DOMAIN Sessions, i <= j
  PROVE  Sessions[i].open <= Sessions[j].open
<1> DEFINE Early == {k \in i..Len(Sessions) : Sessions[k].open < Sessions[i].open}
<1>1. /\ Len(Sessions) \in Nat /\ DOMAIN Sessions = 1..Len(Sessions)
      /\ \A k \in DOMAIN Sessions : /\ Sessions[k].open \in Nat /\ Sessions[k].close \in Nat
                                    /\ Sessions[k].open < Sessions[k].close
  BY Counted DEF Window
<1>2. \A k \in 1..(Len(Sessions) - 1) : Sessions[k].close <= Sessions[k + 1].open
  BY CalendarAssumption DEF IsCalendar
<1>3. CASE Early = {}
  BY <1>1, <1>3
<1>4. CASE Early # {}
  <2>1. Early \in SUBSET Nat
    BY <1>1
  <2>2. PICK k \in Early : \A m \in Early : k <= m
    BY <2>1, <1>4, Least
  <2>3. k \in Nat /\ i < k /\ k - 1 \in i..Len(Sessions) /\ k - 1 \in 1..(Len(Sessions) - 1)
    BY <1>1, <2>2
  <2>4. ~(Sessions[k - 1].open < Sessions[i].open)
    BY <2>2, <2>3
  <2>5. Sessions[k - 1].close <= Sessions[k].open
    BY <1>2, <2>3
  <2>6. k \in DOMAIN Sessions /\ k - 1 \in DOMAIN Sessions
    BY <1>1, <2>3
  <2> QED
    BY <1>1, <2>2, <2>4, <2>5, <2>6
<1> QED
  BY <1>3, <1>4

(***************************************************************************)
(* next_expected_minute: an expected minute after t is not before it.      *)
(***************************************************************************)
LEMMA NextIsNext ==
  ASSUME NEW t \in Int, IsExpectedMinute(t)
  PROVE  /\ NextExpectedMinute(t) \in Int
         /\ \A u \in Int : IsExpectedMinute(u) /\ t < u => NextExpectedMinute(t) <= u
<1>0. /\ Minute \in Nat \ {0} /\ t % Minute = 0 /\ IsWholeMinute(t) /\ 1 \in DOMAIN Sessions
      /\ Len(Sessions) \in Nat /\ DOMAIN Sessions = 1..Len(Sessions)
      /\ \A k \in DOMAIN Sessions : Sessions[k].open \in Nat /\ Sessions[k].close \in Nat
  <2>1. /\ Len(Sessions) \in Nat \ {0} /\ DOMAIN Sessions = 1..Len(Sessions)
        /\ \A k \in DOMAIN Sessions : Sessions[k] \in Window
    BY Counted
  <2> QED
    BY <2>1, CalendarAssumption DEF IsExpectedMinute, IsWholeMinute, Window
<1> DEFINE m == t + Minute
           i == ClosedBy(m) + 1
<1>1. Floor(t) + Minute = m /\ m \in Int
  BY <1>0 DEF Floor
<1>2. (t + Minute) % Minute = 0
  BY <1>0, Multiples
<1>3. NextExpectedMinute(t) = IF BeforeCalendar(m) \/ i > Len(Sessions) THEN RangeError
                              ELSE IF Sessions[i].open > m THEN Sessions[i].open ELSE m
  BY <1>1, <1>2 DEF NextExpectedMinute, FirstExpectedMinuteAtOrAfter, IsWholeMinute
<1>4. i \in Nat \ {0}
  BY <1>0, <1>1, Counted
<1> HIDE DEF i
<1>5. NextExpectedMinute(t) \in Int
  BY <1>0, <1>1, <1>3, <1>4 DEF RangeError
<1>6. ~BeforeCalendar(t)
  BY <1>0 DEF IsExpectedMinute, SessionContaining, RangeError
<1>7. ASSUME NEW u \in Int, IsExpectedMinute(u), t < u PROVE NextExpectedMinute(t) <= u
  <2> DEFINE j == ClosedBy(u) + 1
  <2>1. j \in DOMAIN Sessions /\ Sessions[j].open <= u
    BY <1>7, <1>0 DEF IsExpectedMinute, SessionContaining, RangeError, NoSession
  <2>2. m <= u
    BY <1>0, <1>7, Multiples DEF IsExpectedMinute, IsWholeMinute
  <2>3. i <= j
    <3>1. ClosedBy(m) <= ClosedBy(u)
      BY <1>1, <2>2, Counted
    <3>2. ClosedBy(m) \in 0..Len(Sessions) /\ ClosedBy(u) \in 0..Len(Sessions)
      BY <1>1, Counted
    <3> QED
      BY <1>0, <3>1, <3>2 DEF i
  <2> HIDE DEF j
  <2>4. 0 <= u
    BY <1>0, <1>6, <1>7 DEF BeforeCalendar
  <2>5. ASSUME ~(i > Len(Sessions)) PROVE Sessions[i].open <= u
    <3>1. i \in DOMAIN Sessions
      BY <1>0, <1>4, <2>5
    <3>2. Sessions[i].open <= Sessions[j].open
      BY <2>1, <2>3, <3>1, OpensInOrder
    <3> QED
      BY <1>0, <2>1, <3>1, <3>2
  <2> QED
    BY <1>3, <2>2, <2>4, <2>5 DEF RangeError
<1> QED
  BY <1>5, <1>7

(***************************************************************************)
(* last_expected_minute_before answers, or the window is not covered.      *)
(***************************************************************************)
LEMMA LastIsInt ==
  ASSUME NEW t \in Int
  PROVE  LastExpectedMinuteBefore(t) \in Int
<1> DEFINE i == OpenedBefore(t)
           candidate == IF t < Sessions[i].close THEN t ELSE Sessions[i].close
<1>1. i \in 0..Len(Sessions) /\ DOMAIN Sessions = 1..Len(Sessions) /\ Len(Sessions) \in Nat
      /\ \A k \in DOMAIN Sessions : Sessions[k].close \in Nat
  BY Counted DEF Window
<1>2. LastExpectedMinuteBefore(t) = IF i = 0 THEN RangeError
        ELSE IF IsWholeMinute(candidate) THEN candidate - Minute ELSE Floor(candidate)
  BY DEF LastExpectedMinuteBefore
<1>3. ASSUME i # 0 PROVE candidate \in Int
  BY <1>1, <1>3
<1> HIDE DEF i, candidate
<1>4. ASSUME candidate \in Int PROVE candidate % Minute \in Int
  BY <1>4, CalendarAssumption
<1> QED
  BY <1>2, <1>3, <1>4, CalendarAssumption DEF RangeError, Floor

-----------------------------------------------------------------------------
(* Results: a state with a sequence of events. *)

\* e is a record with the fields of an event.
Entry(e) == e \in
  [type : {e.type}, ts : {e.ts}, price : {e.price}, level : {e.level}, qty : {e.qty},
   pnl : {e.pnl}, cost : {e.cost}, reason : {e.reason}]

\* A ledger: a sequence of such records.
Log(evs) == evs \in Seq(Range(evs)) /\ \A e \in Range(evs) : Entry(e)

\* A result of the fill model.
Proper(r) == r \in [state : {r.state}, events : {r.events}] /\ Log(r.events)

(***************************************************************************)
(* A result with a single event.                                           *)
(***************************************************************************)
LEMMA FewEvents ==
  ASSUME NEW s, NEW e, Entry(e)
  PROVE  /\ Proper(StepResult(s, <<e>>)) /\ StepResult(s, <<e>>).state = s
         /\ Range(StepResult(s, <<e>>).events) = {e}
<1>1. Range(<<e>>) = {e} /\ <<e>> \in Seq({e})
  BY DEF Range
<1> QED
  BY <1>1 DEF Proper, Log, StepResult

(***************************************************************************)
(* A result without events.                                                *)
(***************************************************************************)
LEMMA NoEvents ==
  ASSUME NEW s
  PROVE  Proper(Unchanged(s)) /\ Unchanged(s).state = s /\ Range(Unchanged(s).events) = {}
<1>1. Range(<<>>) = {} /\ <<>> \in Seq({})
  BY DEF Range
<1> QED
  BY <1>1 DEF Proper, Log, StepResult, Unchanged

(***************************************************************************)
(* Concatenation keeps every element of both sides, in order.              *)
(***************************************************************************)
LEMMA Concat ==
  ASSUME NEW a, a \in Seq(Range(a)), NEW b, b \in Seq(Range(b))
  PROVE  /\ Range(a \o b) = Range(a) \cup Range(b) /\ a \o b \in Seq(Range(a \o b))
         /\ Len(a \o b) = Len(a) + Len(b) /\ DOMAIN (a \o b) = 1..(Len(a) + Len(b))
         /\ \A i \in 1..(Len(a) + Len(b)) :
              (a \o b)[i] = IF i <= Len(a) THEN a[i] ELSE b[i - Len(a)]
<1> DEFINE S == Range(a) \cup Range(b)
<1>1. a \in Seq(S) /\ b \in Seq(S)
  OBVIOUS
<1> HIDE DEF S
<1>2. /\ a \o b \in Seq(S) /\ DOMAIN (a \o b) = 1..(Len(a) + Len(b))
      /\ Len(a \o b) = Len(a) + Len(b)
      /\ DOMAIN a = 1..Len(a) /\ DOMAIN b = 1..Len(b) /\ Len(a) \in Nat /\ Len(b) \in Nat
      /\ \A i \in 1..(Len(a) + Len(b)) :
           (a \o b)[i] = IF i <= Len(a) THEN a[i] ELSE b[i - Len(a)]
  BY <1>1
<1>3. ASSUME NEW x \in Range(a) PROVE x \in Range(a \o b)
  <2>1. PICK i \in DOMAIN a : x = a[i]
    BY <1>3 DEF Range
  <2>2. i \in DOMAIN (a \o b) /\ (a \o b)[i] = x
    BY <2>1, <1>2
  <2> QED
    BY <2>2 DEF Range
<1>4. ASSUME NEW x \in Range(b) PROVE x \in Range(a \o b)
  <2>1. PICK i \in DOMAIN b : x = b[i]
    BY <1>4 DEF Range
  <2>2. i + Len(a) \in DOMAIN (a \o b) /\ ~(i + Len(a) <= Len(a)) /\ (i + Len(a)) - Len(a) = i
    BY <2>1, <1>2
  <2>3. (a \o b)[i + Len(a)] = x
    BY <2>1, <2>2, <1>2
  <2> QED
    BY <2>2, <2>3 DEF Range
<1>5. ASSUME NEW x \in Range(a \o b) PROVE x \in S
  BY <1>5, <1>2 DEF Range
<1>6. Range(a \o b) = S
  BY <1>3, <1>4, <1>5 DEF S
<1> QED
  BY <1>2, <1>6 DEF S

(***************************************************************************)
(* So it does with events.                                                 *)
(***************************************************************************)
LEMMA ConcatEvents ==
  ASSUME NEW a, Log(a), NEW b, Log(b)
  PROVE  Range(a \o b) = Range(a) \cup Range(b) /\ Log(a \o b)
<1> DEFINE c == a \o b
<1>1. a \in Seq(Range(a)) /\ b \in Seq(Range(b))
  BY DEF Log
<1>2. Range(c) = Range(a) \cup Range(b) /\ c \in Seq(Range(c))
  BY <1>1, Concat
<1> HIDE DEF c
<1>3. Range(c) = Range(a) \cup Range(b) /\ Log(c)
  BY <1>2 DEF Log
<1> QED
  BY <1>3 DEF c

(***************************************************************************)
(* After puts earlier events before those of a result.                     *)
(***************************************************************************)
LEMMA AfterEvents ==
  ASSUME NEW evs, Log(evs), NEW r, Proper(r)
  PROVE  /\ Proper(After(evs, r)) /\ After(evs, r).state = r.state
         /\ Range(After(evs, r).events) = Range(evs) \cup Range(r.events)
<1> DEFINE all == evs \o r.events
<1>1. Range(all) = Range(evs) \cup Range(r.events) /\ Log(all)
  BY ConcatEvents DEF Proper
<1> HIDE DEF all
<1>2. After(evs, r) \in [state : {r.state}, events : {all}]
  BY DEF After, Proper, all
<1> QED
  BY <1>1, <1>2 DEF Proper

-----------------------------------------------------------------------------
(* States, in LONG terms. *)

Statuses == {"PENDING", "OPEN", "PARTIAL", "CLOSED", "EXPIRED", "INVALIDATED", "CANCELED"}

\* s is a record with the fields of a state.
Shape(s) == s \in
  [status : {s.status}, zone_lost : {s.zone_lost}, zone_ever_lost : {s.zone_ever_lost},
   entry_eligible_from : {s.entry_eligible_from}, trigger_hit_at : {s.trigger_hit_at},
   entry_path : {s.entry_path}, avg_entry : {s.avg_entry}, initial_stop : {s.initial_stop},
   stop_current : {s.stop_current}, stop_previous : {s.stop_previous},
   stop_active_from : {s.stop_active_from}, t1_done : {s.t1_done}, qty_total : {s.qty_total},
   qty_open : {s.qty_open}, realized_pnl : {s.realized_pnl}, costs : {s.costs},
   dividends : {s.dividends}, best_price : {s.best_price}, worst_price : {s.worst_price},
   opened_at : {s.opened_at}, closed_at : {s.closed_at}, final_event_ts : {s.final_event_ts},
   last_bar_ts : {s.last_bar_ts}, close_reason : {s.close_reason},
   frozen_reasons : {s.frozen_reasons}, review_reasons : {s.review_reasons}]

\* What the first target sells.
Part(qty, c) == (qty * c.config.scale_out_pct) \div 100

\* What a state holds in each status.
Book(s, c) ==
  /\ Shape(s) /\ s.status \in Statuses /\ s.zone_lost \in BOOLEAN /\ s.t1_done \in BOOLEAN
  /\ s.qty_total \in Int /\ s.qty_open \in Int /\ s.stop_current \in Int
  /\ s.stop_active_from \in Price
  /\ s.status = "PENDING" => s.qty_open = 0 /\ ~s.t1_done /\ s.stop_active_from = None
  /\ s.status = "OPEN" =>
       /\ s.qty_open = s.qty_total /\ ~s.t1_done /\ s.stop_active_from = None
       /\ 0 < Part(s.qty_total, c) /\ Part(s.qty_total, c) < s.qty_total
  /\ s.status = "PARTIAL" => 0 < s.qty_open /\ s.qty_open < s.qty_total /\ s.t1_done
  /\ s.status \in {"OPEN", "PARTIAL"} => s.avg_entry \in Int
  /\ s.status \in {"CLOSED", "EXPIRED", "INVALIDATED"} => s.qty_open = 0

\* The moves of design 3.5 that a bar can make.
Moved(s, t) ==
  /\ t.frozen_reasons = s.frozen_reasons
  /\ \/ t.status = s.status /\ (s.status = "PENDING" \/ t.zone_lost = s.zone_lost)
     \/ s.status = "PENDING" /\ ~s.zone_lost /\ t.status \in {"OPEN", "CLOSED"} /\ ~t.zone_lost
     \/ s.status = "PENDING" /\ t.status \in {"EXPIRED", "INVALIDATED"}
     \/ s.status = "OPEN" /\ t.status = "PARTIAL" /\ t.zone_lost = s.zone_lost
     \/ s.status \in {"OPEN", "PARTIAL"} /\ t.status = "CLOSED" /\ t.zone_lost = s.zone_lost

\* A chain of prices in LONG terms, wherever it was written, with what is
\* bought at any price of its zone.
LongSignal(sig, c) ==
  /\ sig \in [direction : {sig.direction}, low : Int, high : Int, stop : Int, target1 : Int,
              target2 : Price, trigger : Price]
  /\ sig.stop < sig.low /\ sig.low <= sig.high /\ sig.high < sig.target1
  /\ sig.target2 # None => sig.target1 < sig.target2
  /\ \A raw \in sig.low..sig.high : Sized(c.config, c.config.entry_slip + (raw - sig.stop))

\* A configuration's numbers.
Fees(c) ==
  /\ c.config.entry_slip \in Nat /\ c.config.stop_slip \in Nat
  /\ c.config.risk_amount \in Nat /\ c.config.scale_out_pct \in Nat

\* The bars of any prices at any minute.
Bars == {bar \in [ts : Int, open : Int, high : Int, low : Int, close : Int] : IsBar(bar)}

\* The stop that a bar meets is the current one.
StopActive(s, bar) == s.stop_active_from # None => bar.ts >= s.stop_active_from

-----------------------------------------------------------------------------
(* What the events of one bar say. *)

Targets == {"TARGET1_HIT", "TARGET2_HIT"}
ZoneTypes == {"ZONE_LOST", "ZONE_RECLAIMED"}
Has(r, type) == \E e \in Range(r.events) : e.type = type

\* What is executed was traded in the bar, and bought in the zone.
Priced(r, bar, sig) ==
  \A e \in Range(r.events) :
    /\ e.type \in {"FILLED", "STOPPED", "TIME_EXIT"} =>
         e.level \in Int /\ bar.low <= e.level /\ e.level <= bar.high
    /\ e.type \in Targets => e.price \in Int /\ e.price <= bar.high
    /\ e.type = "FILLED" => sig.low <= e.level /\ e.level <= sig.high

\* The gates speak at the bar and only before the fill; a fill has passed them.
Gated(s, r, bar, sig) ==
  /\ \A e \in Range(r.events) :
       e.type \in {"FILLED", "TRIGGER_HIT"} \cup ZoneTypes => e.ts = bar.ts /\ s.status = "PENDING"
  /\ Has(r, "FILLED") =>
       /\ ~s.zone_lost /\ r.state.status # "PENDING"
       /\ sig.trigger # None => s.trigger_hit_at # None
       /\ \A e \in Range(r.events) : e.type \notin ZoneTypes \cup Targets
  /\ r.state.trigger_hit_at = s.trigger_hit_at \/ (r.state.trigger_hit_at = bar.ts /\ Has(r, "TRIGGER_HIT"))
  /\ ~r.state.zone_lost /\ (s.zone_lost \/ Has(r, "ZONE_LOST")) => Has(r, "ZONE_RECLAIMED")

\* A bar that reaches the stop of a held order only stops it, no better than at its open.
WorstCase(s, r, bar) ==
  s.status \in {"OPEN", "PARTIAL"} /\ bar.low <= s.stop_current =>
    /\ r.state.status = "CLOSED" /\ Range(r.events) # {}
    /\ \A e \in Range(r.events) :
         /\ e.type = "STOPPED" /\ e.price \in Int /\ e.price <= s.stop_current
         /\ bar.open <= s.stop_current => e.price <= bar.open

\* A new stop counts from the minute after the bar.
StopMoves(s, r, bar) ==
  r.state.stop_active_from = s.stop_active_from
    \/ r.state.stop_active_from = NextExpectedMinute(bar.ts)

\* All of that, of the result r of a bar in the state s.
Good(s, r, bar, sig, c) ==
  /\ Proper(r) /\ Book(r.state, c) /\ Moved(s, r.state)
  /\ Priced(r, bar, sig) /\ Gated(s, r, bar, sig) /\ WorstCase(s, r, bar) /\ StopMoves(s, r, bar)

-----------------------------------------------------------------------------

(***************************************************************************)
(* Closing leaves the gates, the stop and the freezes as they were.        *)
(***************************************************************************)
LEMMA CloseResult ==
  ASSUME NEW c, NEW s, Book(s, c), NEW bar, NEW type, NEW price, NEW level, NEW reason,
         NEW r, r = Close(s, bar, c, type, price, level, reason)
  PROVE  /\ Proper(r) /\ Book(r.state, c) /\ r.state.status = "CLOSED"
         /\ r.state.zone_lost = s.zone_lost /\ r.state.trigger_hit_at = s.trigger_hit_at
         /\ r.state.frozen_reasons = s.frozen_reasons
         /\ r.state.stop_active_from = s.stop_active_from /\ r.state.last_bar_ts = s.last_bar_ts
         /\ Range(r.events) # {}
         /\ \A e \in Range(r.events) :
              /\ e.type = type /\ e.ts = bar.ts
              /\ e.price = price /\ e.level = level
<1> DEFINE pnl == (price - s.avg_entry) * s.qty_open
           cost == ExecutionCost(c, price, s.qty_open, "exit")
           t == [s EXCEPT !.status = "CLOSED", !.qty_open = 0, !.realized_pnl = @ + pnl,
                  !.costs = @ + cost, !.close_reason = reason, !.closed_at = bar.ts,
                  !.final_event_ts = bar.ts]
           e == [Event(type, bar.ts) EXCEPT !.price = price, !.level = level,
                   !.qty = s.qty_open, !.pnl = pnl, !.cost = cost]
<1>1. Close(s, bar, c, type, price, level, reason) = StepResult(t, <<e>>)
  BY DEF Close
<1> HIDE DEF pnl, cost
<1>2. Shape(t) /\ t.status = "CLOSED" /\ t.qty_open = 0 /\ t.zone_lost = s.zone_lost
      /\ t.trigger_hit_at = s.trigger_hit_at /\ t.frozen_reasons = s.frozen_reasons
      /\ t.stop_active_from = s.stop_active_from /\ t.t1_done = s.t1_done
      /\ t.last_bar_ts = s.last_bar_ts
      /\ t.qty_total = s.qty_total /\ t.stop_current = s.stop_current
  BY DEF Book, Shape
<1>3. Entry(e) /\ e.type = type /\ e.ts = bar.ts /\ e.price = price /\ e.level = level
  BY DEF Event, Entry
<1> HIDE DEF t, e
<1>4. Book(t, c)
  BY <1>2 DEF Book, Statuses
<1>5. /\ Proper(StepResult(t, <<e>>)) /\ StepResult(t, <<e>>).state = t
      /\ Range(StepResult(t, <<e>>).events) = {e}
  BY <1>3, FewEvents
<1> QED
  BY <1>1, <1>2, <1>3, <1>4, <1>5

(***************************************************************************)
(* The first target leaves a part open and moves the stop to the entry.    *)
(***************************************************************************)
LEMMA ScaleOutResult ==
  ASSUME NEW c, Fees(c), NEW s, Book(s, c), s.status = "OPEN", NEW bar, NEW sig,
         NextExpectedMinute(bar.ts) \in Int
  PROVE  LET r == ScaleOut(s, bar, sig, c) IN
         /\ Proper(r) /\ Book(r.state, c) /\ r.state.status = "PARTIAL"
         /\ r.state.zone_lost = s.zone_lost /\ r.state.trigger_hit_at = s.trigger_hit_at
         /\ r.state.frozen_reasons = s.frozen_reasons
         /\ r.state.stop_active_from = NextExpectedMinute(bar.ts)
         /\ Range(r.events) # {}
         /\ \A e \in Range(r.events) :
              /\ e.type = "TARGET1_HIT" /\ e.ts = bar.ts
              /\ e.price = sig.target1
<1> DEFINE qty == Part(s.qty_total, c)
           pnl == (sig.target1 - s.avg_entry) * qty
           cost == ExecutionCost(c, sig.target1, qty, "exit")
           t == [s EXCEPT !.status = "PARTIAL", !.t1_done = TRUE, !.qty_open = @ - qty,
                  !.realized_pnl = @ + pnl, !.costs = @ + cost,
                  !.stop_previous = s.stop_current, !.stop_current = s.avg_entry,
                  !.stop_active_from = NextExpectedMinute(bar.ts)]
           e == [Event("TARGET1_HIT", bar.ts) EXCEPT !.price = sig.target1,
                  !.level = s.avg_entry, !.qty = qty, !.pnl = pnl, !.cost = cost]
<1>1. ScaleOut(s, bar, sig, c) = StepResult(t, <<e>>)
  BY DEF ScaleOut, Part
<1>2. 0 < qty /\ qty < s.qty_total /\ s.qty_open = s.qty_total /\ s.qty_total \in Int
  BY DEF Book
<1>3. qty \in Int
  BY <1>2 DEF Part, Fees
<1> HIDE DEF qty, pnl, cost
<1>4. /\ Shape(t) /\ t.status = "PARTIAL" /\ t.qty_open = s.qty_open - qty /\ t.zone_lost = s.zone_lost
      /\ t.trigger_hit_at = s.trigger_hit_at /\ t.frozen_reasons = s.frozen_reasons
      /\ t.stop_active_from = NextExpectedMinute(bar.ts) /\ t.t1_done
      /\ t.qty_total = s.qty_total /\ t.stop_current = s.avg_entry /\ t.avg_entry = s.avg_entry
  BY DEF Book, Shape
<1>5. Entry(e) /\ e.type = "TARGET1_HIT" /\ e.ts = bar.ts /\ e.price = sig.target1
  BY DEF Event, Entry
<1> HIDE DEF t, e
<1>6. Book(t, c)
  BY <1>2, <1>3, <1>4 DEF Book, Statuses, Price
<1>7. /\ Proper(StepResult(t, <<e>>)) /\ StepResult(t, <<e>>).state = t
      /\ Range(StepResult(t, <<e>>).events) = {e}
  BY <1>5, FewEvents
<1> QED
  BY <1>1, <1>4, <1>5, <1>6, <1>7

\* What a bar saw of an open position.
Seen(s, best, worst) == [s EXCEPT !.best_price = best, !.worst_price = worst]

(***************************************************************************)
(* The best and the worst price seen are only reported.                    *)
(***************************************************************************)
LEMMA SeenKeeps ==
  ASSUME NEW c, NEW s, Book(s, c), NEW best, NEW worst
  PROVE  LET t == Seen(s, best, worst) IN
         /\ Book(t, c) /\ t.status = s.status /\ t.zone_lost = s.zone_lost
         /\ t.trigger_hit_at = s.trigger_hit_at /\ t.frozen_reasons = s.frozen_reasons
         /\ t.stop_active_from = s.stop_active_from /\ t.stop_current = s.stop_current
         /\ t.t1_done = s.t1_done
<1> DEFINE t == Seen(s, best, worst)
<1>1. /\ Shape(t) /\ t.status = s.status /\ t.zone_lost = s.zone_lost
      /\ t.trigger_hit_at = s.trigger_hit_at /\ t.frozen_reasons = s.frozen_reasons
      /\ t.stop_active_from = s.stop_active_from /\ t.stop_current = s.stop_current
      /\ t.t1_done = s.t1_done /\ t.qty_total = s.qty_total /\ t.qty_open = s.qty_open
      /\ t.avg_entry = s.avg_entry
  BY DEF Book, Shape, Seen
<1> HIDE DEF t
<1> QED
  BY <1>1 DEF Book, t

\* The exits of a bar, from the state that has seen it.
Exit(s, bar, sig, c, entryBar) ==
  LET stopped == bar.low <= s.stop_current
      raw == Lesser(bar.open, s.stop_current)
      hit1 == ~s.t1_done /\ bar.high >= sig.target1
      scaled == IF hit1 THEN ScaleOut(s, bar, sig, c) ELSE Unchanged(s)
  IN  IF stopped
      THEN Close(s, bar, c, "STOPPED", AdverseSell(raw, c.config.stop_slip), raw, "STOPPED")
      ELSE IF entryBar THEN Unchanged(s)
      ELSE IF hit1 /\ sig.target2 = None
      THEN Close(s, bar, c, "TARGET1_HIT", sig.target1, None, "TARGET_FINAL")
      ELSE IF scaled.state.t1_done /\ sig.target2 # None /\ bar.high >= sig.target2
      THEN After(scaled.events, Close(scaled.state, bar, c, "TARGET2_HIT", sig.target2,
                                      None, "TARGET_FINAL"))
      ELSE scaled

\* The state with the bar's extremes, but for a best price it may not count.
SeenOn(s, bar, entryBar) ==
  Seen(s, IF entryBar \/ bar.low <= s.stop_current THEN s.best_price
          ELSE Greater(s.best_price, bar.high),
       Lesser(s.worst_price, bar.low))

(***************************************************************************)
(* On a bar that meets the current stop, the phase is the exits of the     *)
(* state that has seen it.                                                 *)
(***************************************************************************)
LEMMA ExitPhaseIsExit ==
  ASSUME NEW c, NEW s, Book(s, c), NEW bar \in Bars, StopActive(s, bar), NEW sig,
         NEW entryBar \in BOOLEAN
  PROVE  ExitPhase(s, bar, sig, c, entryBar)
           = Exit(SeenOn(s, bar, entryBar), bar, sig, c, entryBar)
<1> DEFINE stop == IF s.stop_active_from # None /\ bar.ts < s.stop_active_from
                   THEN s.stop_previous ELSE s.stop_current
           stopped == bar.low <= stop
           best == IF entryBar \/ stopped THEN s.best_price ELSE Greater(s.best_price, bar.high)
           worst == Lesser(s.worst_price, bar.low)
           t == Seen(s, best, worst)
<1>1. stop = s.stop_current
  BY DEF StopActive, Bars, Book, Price
<1>2. t = [s EXCEPT !.best_price = IF entryBar \/ stopped THEN @ ELSE Greater(@, bar.high),
                    !.worst_price = Lesser(@, bar.low)]
  BY DEF Seen, Book, Shape
<1>3. t.stop_current = stop /\ t.t1_done = s.t1_done
  BY <1>1, SeenKeeps
<1>4. ExitPhase(s, bar, sig, c, entryBar)
        = LET raw == Lesser(bar.open, stop)
              hit1 == ~s.t1_done /\ bar.high >= sig.target1
              scaled == IF hit1 THEN ScaleOut(t, bar, sig, c) ELSE Unchanged(t)
          IN  IF stopped
              THEN Close(t, bar, c, "STOPPED", AdverseSell(raw, c.config.stop_slip), raw, "STOPPED")
              ELSE IF entryBar THEN Unchanged(t)
              ELSE IF hit1 /\ sig.target2 = None
              THEN Close(t, bar, c, "TARGET1_HIT", sig.target1, None, "TARGET_FINAL")
              ELSE IF scaled.state.t1_done /\ sig.target2 # None /\ bar.high >= sig.target2
              THEN After(scaled.events, Close(scaled.state, bar, c, "TARGET2_HIT", sig.target2,
                                              None, "TARGET_FINAL"))
              ELSE scaled
  BY <1>2 DEF ExitPhase
<1>5. t = SeenOn(s, bar, entryBar)
  BY <1>1 DEF SeenOn
<1> HIDE DEF stop, t
<1> QED
  BY <1>3, <1>4, <1>5 DEF Exit

(***************************************************************************)
(* Events of an exit say nothing of the entry.                             *)
(***************************************************************************)
LEMMA ExitsAreQuiet ==
  ASSUME NEW s, NEW r, NEW bar, NEW sig,
         \A e \in Range(r.events) : e.type \in {"STOPPED", "TIME_EXIT", "EXPIRED"} \cup Targets,
         r.state.zone_lost = s.zone_lost, r.state.trigger_hit_at = s.trigger_hit_at
  PROVE  Gated(s, r, bar, sig)
BY DEF Gated, Has, Targets, ZoneTypes

(***************************************************************************)
(* The exits of an open position: what they close, at which prices.        *)
(***************************************************************************)
LEMMA ExitGood ==
  ASSUME NEW c, Fees(c), NEW sig, LongSignal(sig, c), NEW bar \in Bars,
         NextExpectedMinute(bar.ts) \in Int,
         NEW s, Book(s, c), s.status \in {"OPEN", "PARTIAL"}
  PROVE  /\ Good(s, Exit(s, bar, sig, c, FALSE), bar, sig, c)
         /\ Exit(s, bar, sig, c, FALSE).state.status \in {"OPEN", "PARTIAL", "CLOSED"}
<1> DEFINE r == Exit(s, bar, sig, c, FALSE)
           stopped == bar.low <= s.stop_current
           raw == Lesser(bar.open, s.stop_current)
           hit1 == ~s.t1_done /\ bar.high >= sig.target1
           scaled == IF hit1 THEN ScaleOut(s, bar, sig, c) ELSE Unchanged(s)
           hit2 == scaled.state.t1_done /\ sig.target2 # None /\ bar.high >= sig.target2
           final == Close(scaled.state, bar, c, "TARGET2_HIT", sig.target2, None, "TARGET_FINAL")
<1>1. /\ bar.ts \in Int /\ bar.open \in Int /\ bar.low \in Int /\ bar.high \in Int
      /\ bar.low <= bar.open /\ bar.open <= bar.high
  BY DEF Bars, IsBar
<1>2. s.stop_current \in Int /\ sig.target1 \in Int /\ sig.target2 \in Price /\ c.config.stop_slip \in Nat
  BY DEF Book, LongSignal, Fees
<1>3. CASE stopped
  <2> DEFINE price == AdverseSell(raw, c.config.stop_slip)
  <2>1. r = Close(s, bar, c, "STOPPED", price, raw, "STOPPED")
    BY <1>3 DEF Exit
  <2>2. /\ raw \in Int /\ bar.low <= raw /\ raw <= bar.high /\ raw <= s.stop_current /\ raw <= bar.open
        /\ price \in Int /\ price <= raw
    BY <1>1, <1>2, <1>3, NoneAssumption DEF Lesser, AdverseSell
  <2> HIDE DEF raw, price, r
  <2>3. /\ Proper(r) /\ Book(r.state, c) /\ r.state.status = "CLOSED"
        /\ r.state.zone_lost = s.zone_lost /\ r.state.trigger_hit_at = s.trigger_hit_at
        /\ r.state.frozen_reasons = s.frozen_reasons /\ r.state.stop_active_from = s.stop_active_from
        /\ Range(r.events) # {}
         /\ \A e \in Range(r.events) :
              /\ e.type = "STOPPED" /\ e.ts = bar.ts
              /\ e.price = price /\ e.level = raw
    BY <2>1, CloseResult
  <2>4. Priced(r, bar, sig)
    BY <2>2, <2>3 DEF Priced, Targets
  <2>5. Gated(s, r, bar, sig)
    BY <2>3, ExitsAreQuiet
  <2>6. WorstCase(s, r, bar)
    BY <1>1, <1>2, <2>2, <2>3 DEF WorstCase
  <2> QED
    BY <2>3, <2>4, <2>5, <2>6 DEF Good, Moved, StopMoves, r
<1>4. CASE ~stopped
  <2>0. WorstCase(s, r, bar)
    BY <1>4 DEF WorstCase
  <2>1. CASE hit1 /\ sig.target2 = None
    <3>1. r = Close(s, bar, c, "TARGET1_HIT", sig.target1, None, "TARGET_FINAL")
      BY <1>4, <2>1 DEF Exit
    <3> HIDE DEF r
    <3>2. /\ Proper(r) /\ Book(r.state, c) /\ r.state.status = "CLOSED"
          /\ r.state.zone_lost = s.zone_lost /\ r.state.trigger_hit_at = s.trigger_hit_at
          /\ r.state.frozen_reasons = s.frozen_reasons /\ r.state.stop_active_from = s.stop_active_from
          /\ Range(r.events) # {}
         /\ \A e \in Range(r.events) :
              /\ e.type = "TARGET1_HIT" /\ e.ts = bar.ts
              /\ e.price = sig.target1
      BY <3>1, CloseResult
    <3>3. Priced(r, bar, sig)
      BY <1>1, <1>2, <2>1, <3>2 DEF Priced, Targets
    <3>4. Gated(s, r, bar, sig)
      BY <3>2, ExitsAreQuiet DEF Targets
    <3> QED
      BY <2>0, <3>2, <3>3, <3>4 DEF Good, Moved, StopMoves, r
  <2>2. CASE ~(hit1 /\ sig.target2 = None)
    <3>1. /\ Proper(scaled) /\ Book(scaled.state, c)
          /\ scaled.state.status = s.status \/ (s.status = "OPEN" /\ scaled.state.status = "PARTIAL")
          /\ scaled.state.zone_lost = s.zone_lost /\ scaled.state.trigger_hit_at = s.trigger_hit_at
          /\ scaled.state.frozen_reasons = s.frozen_reasons
          /\ \/ scaled.state.stop_active_from = s.stop_active_from
             \/ scaled.state.stop_active_from = NextExpectedMinute(bar.ts)
          /\ \A e \in Range(scaled.events) : e.type = "TARGET1_HIT" /\ e.price \in Int /\ e.price <= bar.high
      <4>1. CASE hit1
        <5>1. s.status = "OPEN"
          BY <4>1 DEF Book
        <5> QED
          BY <1>1, <1>2, <4>1, <5>1, ScaleOutResult
      <4>2. CASE ~hit1
        <5>1. scaled = Unchanged(s)
          BY <4>2
        <5>2. Proper(scaled) /\ scaled.state = s /\ Range(scaled.events) = {}
          BY <5>1, NoEvents
        <5> QED
          BY <5>2
      <4> QED
        BY <4>1, <4>2
    <3>2. CASE ~hit2
      <4>1. r = scaled
        BY <1>4, <2>2, <3>2 DEF Exit
      <4> HIDE DEF scaled, r
      <4>2. Priced(r, bar, sig) /\ Gated(s, r, bar, sig)
        <5>1. Gated(s, r, bar, sig)
          BY <3>1, <4>1, ExitsAreQuiet DEF Targets
        <5> QED
          BY <3>1, <4>1, <5>1 DEF Priced, Targets
      <4> QED
        BY <2>0, <3>1, <4>1, <4>2 DEF Good, Moved, StopMoves, r
    <3>3. CASE hit2
      <4>1. r = After(scaled.events, final)
        BY <1>4, <2>2, <3>3 DEF Exit
      <4> HIDE DEF scaled, r
      <4>2. /\ Proper(final) /\ Book(final.state, c) /\ final.state.status = "CLOSED"
            /\ final.state.zone_lost = s.zone_lost /\ final.state.trigger_hit_at = s.trigger_hit_at
            /\ final.state.frozen_reasons = s.frozen_reasons
            /\ final.state.stop_active_from = scaled.state.stop_active_from
            /\ \A e \in Range(final.events) : e.type = "TARGET2_HIT" /\ e.price = sig.target2
        <5>1. final = Close(scaled.state, bar, c, "TARGET2_HIT", sig.target2, None, "TARGET_FINAL")
          OBVIOUS
        <5> HIDE DEF final
        <5> QED
          BY <3>1, <5>1, CloseResult
      <4> HIDE DEF final
      <4>3. /\ Proper(r) /\ r.state = final.state
            /\ Range(r.events) = Range(scaled.events) \cup Range(final.events)
        BY <3>1, <4>1, <4>2, AfterEvents DEF Proper
      <4>4. sig.target2 \in Int /\ sig.target2 <= bar.high
        BY <1>1, <1>2, <3>3 DEF Price
      <4>5. Priced(r, bar, sig)
        BY <3>1, <4>2, <4>3, <4>4 DEF Priced, Targets
      <4>6. Gated(s, r, bar, sig)
        <5>1. \A e \in Range(r.events) : e.type \in {"STOPPED", "TIME_EXIT", "EXPIRED"} \cup Targets
          BY <3>1, <4>2, <4>3 DEF Targets
        <5> QED
          BY <4>2, <4>3, <5>1, ExitsAreQuiet
      <4> QED
        BY <2>0, <3>1, <4>2, <4>3, <4>5, <4>6 DEF Good, Moved, StopMoves, r
    <3> QED
      BY <3>2, <3>3
  <2> QED
    BY <2>1, <2>2
<1> QED
  BY <1>3, <1>4

(***************************************************************************)
(* On the bar that fills the order, the stop is the only exit.             *)
(***************************************************************************)
LEMMA EntryBarExit ==
  ASSUME NEW c, Fees(c), NEW sig, NEW bar \in Bars,
         NEW s, Book(s, c), s.status = "OPEN"
  PROVE  LET r == Exit(s, bar, sig, c, TRUE) IN
         /\ Proper(r) /\ Book(r.state, c) /\ r.state.status \in {"OPEN", "CLOSED"}
         /\ r.state.zone_lost = s.zone_lost /\ r.state.trigger_hit_at = s.trigger_hit_at
         /\ r.state.frozen_reasons = s.frozen_reasons
         /\ r.state.stop_active_from = s.stop_active_from
         /\ \A e \in Range(r.events) : /\ e.type = "STOPPED" /\ e.level \in Int
                                       /\ bar.low <= e.level /\ e.level <= bar.high
<1> DEFINE r == Exit(s, bar, sig, c, TRUE)
           raw == Lesser(bar.open, s.stop_current)
           price == AdverseSell(raw, c.config.stop_slip)
<1>1. /\ bar.ts \in Int /\ bar.open \in Int /\ bar.low \in Int /\ bar.high \in Int
      /\ bar.low <= bar.open /\ bar.open <= bar.high /\ s.stop_current \in Int
  BY DEF Bars, IsBar, Book
<1>2. CASE bar.low <= s.stop_current
  <2>1. r = Close(s, bar, c, "STOPPED", price, raw, "STOPPED")
    BY <1>2 DEF Exit
  <2>2. raw \in Int /\ bar.low <= raw /\ raw <= bar.high
    BY <1>1, <1>2, NoneAssumption DEF Lesser
  <2> HIDE DEF raw, price, r
  <2>3. /\ Proper(r) /\ Book(r.state, c) /\ r.state.status = "CLOSED"
        /\ r.state.zone_lost = s.zone_lost /\ r.state.trigger_hit_at = s.trigger_hit_at
        /\ r.state.frozen_reasons = s.frozen_reasons
        /\ r.state.stop_active_from = s.stop_active_from
        /\ Range(r.events) # {}
        /\ \A e \in Range(r.events) :
             /\ e.type = "STOPPED" /\ e.ts = bar.ts
             /\ e.price = price /\ e.level = raw
    BY <2>1, CloseResult
  <2> QED
    BY <2>2, <2>3 DEF r
<1>3. CASE ~(bar.low <= s.stop_current)
  <2>1. r = Unchanged(s)
    BY <1>3 DEF Exit
  <2> HIDE DEF r
  <2>2. Proper(r) /\ r.state = s /\ Range(r.events) = {}
    BY <2>1, NoEvents
  <2> QED
    BY <2>2 DEF r
<1> QED
  BY <1>2, <1>3

(***************************************************************************)
(* The raw price of an entry is in the zone and in the bar.                *)
(***************************************************************************)
LEMMA EntryPriceTraded ==
  ASSUME NEW c, NEW sig, LongSignal(sig, c), NEW bar \in Bars, EntryPrice(bar, sig) # None
  PROVE  /\ EntryPrice(bar, sig) \in sig.low..sig.high
         /\ bar.low <= EntryPrice(bar, sig) /\ EntryPrice(bar, sig) <= bar.high
BY DEF EntryPrice, LongSignal, Bars, IsBar

(***************************************************************************)
(* A fill buys what the risk allows at the distance of the stop.           *)
(***************************************************************************)
LEMMA FillResult ==
  ASSUME NEW c, Fees(c), NEW sig, LongSignal(sig, c), NEW bar, NEW raw \in sig.low..sig.high,
         NEW s, Book(s, c), s.status = "PENDING",
         NEW r, r = Fill(s, bar, sig, c, raw)
  PROVE  /\ Proper(r) /\ Book(r.state, c) /\ r.state.status = "OPEN"
         /\ r.state.zone_lost = s.zone_lost /\ r.state.trigger_hit_at = s.trigger_hit_at
         /\ r.state.frozen_reasons = s.frozen_reasons
         /\ r.state.stop_active_from = None
         /\ Range(r.events) # {}
         /\ \A e \in Range(r.events) : e.type = "FILLED" /\ e.ts = bar.ts /\ e.level = raw
<1> DEFINE price == AdverseBuy(raw, c.config.entry_slip)
           qty == c.config.risk_amount \div (price - sig.stop)
           cost == ExecutionCost(c, price, qty, "entry")
           t == [s EXCEPT !.status = "OPEN", !.avg_entry = price, !.initial_stop = sig.stop,
                  !.stop_current = sig.stop, !.qty_total = qty, !.qty_open = qty,
                  !.costs = @ + cost, !.opened_at = bar.ts, !.best_price = price,
                  !.entry_path = IF s.zone_ever_lost THEN "RECLAIMED" ELSE "DIRECT"]
           e == [Event("FILLED", bar.ts) EXCEPT !.price = price, !.level = raw,
                   !.qty = qty, !.cost = cost]
<1>1. Fill(s, bar, sig, c, raw) = StepResult(t, <<e>>)
  BY DEF Fill
<1>2. /\ raw \in Int /\ sig.stop \in Int /\ sig.stop < raw /\ c.config.entry_slip \in Nat
      /\ c.config.risk_amount \in Nat /\ c.config.scale_out_pct \in Nat
  BY DEF LongSignal, Fees
<1>3. price \in Int /\ price - sig.stop \in Nat \ {0}
      /\ price - sig.stop = c.config.entry_slip + (raw - sig.stop)
  BY <1>2 DEF AdverseBuy
<1>4. Sized(c.config, price - sig.stop)
  BY <1>3 DEF LongSignal
<1>5. qty \in Int /\ 0 < Part(qty, c) /\ Part(qty, c) < qty
  <2>1. qty \in Int
    BY <1>2, <1>3
  <2> QED
    BY <1>4, <2>1 DEF Sized, Part
<1> HIDE DEF price, qty, cost
<1>6. /\ Shape(t) /\ t.status = "OPEN" /\ t.qty_open = qty /\ t.qty_total = qty
      /\ t.zone_lost = s.zone_lost /\ t.trigger_hit_at = s.trigger_hit_at
      /\ t.frozen_reasons = s.frozen_reasons /\ t.stop_active_from = s.stop_active_from
      /\ t.t1_done = s.t1_done /\ t.stop_current = sig.stop /\ t.avg_entry = price
  BY DEF Book, Shape
<1>7. Entry(e) /\ e.type = "FILLED" /\ e.ts = bar.ts /\ e.level = raw
  BY DEF Event, Entry
<1> HIDE DEF t, e
<1>8. Book(t, c)
  BY <1>2, <1>3, <1>5, <1>6 DEF Book, Statuses
<1>9. /\ Proper(StepResult(t, <<e>>)) /\ StepResult(t, <<e>>).state = t
      /\ Range(StepResult(t, <<e>>).events) = {e}
  BY <1>7, FewEvents
<1>10. s.stop_active_from = None
  BY DEF Book
<1> QED
  BY <1>1, <1>6, <1>7, <1>8, <1>9, <1>10

(***************************************************************************)
(* A pending order leaves the market without a position.                   *)
(***************************************************************************)
LEMMA InvalidateResult ==
  ASSUME NEW c, NEW s, Book(s, c), s.status = "PENDING", NEW bar,
         NEW r, r = Invalidate(s, bar)
  PROVE  /\ Proper(r) /\ Book(r.state, c) /\ r.state.status = "INVALIDATED"
         /\ r.state.zone_lost = s.zone_lost /\ r.state.trigger_hit_at = s.trigger_hit_at
         /\ r.state.frozen_reasons = s.frozen_reasons
         /\ r.state.stop_active_from = s.stop_active_from
         /\ \A e \in Range(r.events) : e.type = "INVALIDATED"
<1> DEFINE t == [s EXCEPT !.status = "INVALIDATED", !.final_event_ts = bar.ts]
           e == Event("INVALIDATED", bar.ts)
<1>1. Invalidate(s, bar) = StepResult(t, <<e>>)
  BY DEF Invalidate
<1>2. /\ Shape(t) /\ t.status = "INVALIDATED" /\ t.qty_open = s.qty_open /\ t.zone_lost = s.zone_lost
      /\ t.trigger_hit_at = s.trigger_hit_at /\ t.frozen_reasons = s.frozen_reasons
      /\ t.stop_active_from = s.stop_active_from /\ t.t1_done = s.t1_done
      /\ t.qty_total = s.qty_total /\ t.stop_current = s.stop_current
  BY DEF Book, Shape
<1>3. Entry(e) /\ e.type = "INVALIDATED"
  BY DEF Event, Entry
<1> HIDE DEF t, e
<1>4. Book(t, c)
  BY <1>2 DEF Book, Statuses
<1>5. /\ Proper(StepResult(t, <<e>>)) /\ StepResult(t, <<e>>).state = t
      /\ Range(StepResult(t, <<e>>).events) = {e}
  BY <1>3, FewEvents
<1> QED
  BY <1>1, <1>2, <1>3, <1>4, <1>5

\* A pending order stays pending, with events of this bar of one type.
WhilePending(s, r, bar, c, type) ==
  /\ Proper(r) /\ Book(r.state, c) /\ r.state.status = "PENDING"
  /\ r.state.frozen_reasons = s.frozen_reasons /\ r.state.stop_active_from = s.stop_active_from
  /\ \A e \in Range(r.events) : e.type = type /\ e.ts = bar.ts

(***************************************************************************)
(* Rule 5: the zone that is lost stays lost.                               *)
(***************************************************************************)
LEMMA LoseZoneResult ==
  ASSUME NEW c, NEW s, Book(s, c), s.status = "PENDING", NEW bar, NEW sig,
         NEW r, r = LoseZone(s, bar, sig)
  PROVE  /\ WhilePending(s, r, bar, c, "ZONE_LOST") /\ r.state.trigger_hit_at = s.trigger_hit_at
         /\ s.zone_lost \/ Range(r.events) # {} => r.state.zone_lost
<1> DEFINE lost == ~s.zone_lost /\ (bar.open < sig.low \/ bar.close < sig.low)
           t == [s EXCEPT !.zone_lost = TRUE, !.zone_ever_lost = TRUE]
           e == [Event("ZONE_LOST", bar.ts) EXCEPT !.level = sig.low]
<1>1. r = IF lost THEN StepResult(t, <<e>>) ELSE Unchanged(s)
  BY DEF LoseZone
<1> HIDE DEF lost
<1>2. /\ Shape(t) /\ t.zone_lost = TRUE /\ t.status = s.status /\ t.qty_open = s.qty_open
      /\ t.trigger_hit_at = s.trigger_hit_at /\ t.frozen_reasons = s.frozen_reasons
      /\ t.stop_active_from = s.stop_active_from /\ t.t1_done = s.t1_done
      /\ t.qty_total = s.qty_total /\ t.stop_current = s.stop_current
  BY DEF Book, Shape
<1>3. Entry(e) /\ e.type = "ZONE_LOST" /\ e.ts = bar.ts
  BY DEF Event, Entry
<1> HIDE DEF t, e
<1>4. Book(t, c)
  BY <1>2 DEF Book, Statuses
<1>5. /\ Proper(StepResult(t, <<e>>)) /\ StepResult(t, <<e>>).state = t
      /\ Range(StepResult(t, <<e>>).events) = {e}
      /\ Proper(Unchanged(s)) /\ Unchanged(s).state = s /\ Range(Unchanged(s).events) = {}
  BY <1>3, FewEvents, NoEvents
<1>6. CASE lost
  BY <1>1, <1>2, <1>3, <1>4, <1>5, <1>6 DEF WhilePending
<1>7. CASE ~lost
  BY <1>1, <1>5, <1>7 DEF WhilePending
<1> QED
  BY <1>6, <1>7

(***************************************************************************)
(* Rule 6: the zone comes back with an event.                              *)
(***************************************************************************)
LEMMA ReclaimZoneResult ==
  ASSUME NEW c, NEW s, Book(s, c), s.status = "PENDING", NEW bar, NEW sig,
         NEW r, r = ReclaimZone(s, bar, sig)
  PROVE  /\ WhilePending(s, r, bar, c, "ZONE_RECLAIMED") /\ r.state.trigger_hit_at = s.trigger_hit_at
         /\ s.zone_lost /\ ~r.state.zone_lost => Range(r.events) # {}
<1> DEFINE back == s.zone_lost /\ bar.close >= sig.low
           t == [s EXCEPT !.zone_lost = FALSE, !.entry_eligible_from = NextExpectedMinute(bar.ts)]
           e == Event("ZONE_RECLAIMED", bar.ts)
<1>1. r = IF back THEN StepResult(t, <<e>>) ELSE Unchanged(s)
  BY DEF ReclaimZone
<1> HIDE DEF back
<1>2. /\ Shape(t) /\ t.zone_lost = FALSE /\ t.status = s.status /\ t.qty_open = s.qty_open
      /\ t.trigger_hit_at = s.trigger_hit_at /\ t.frozen_reasons = s.frozen_reasons
      /\ t.stop_active_from = s.stop_active_from /\ t.t1_done = s.t1_done
      /\ t.qty_total = s.qty_total /\ t.stop_current = s.stop_current
  BY DEF Book, Shape
<1>3. Entry(e) /\ e.type = "ZONE_RECLAIMED" /\ e.ts = bar.ts
  BY DEF Event, Entry
<1> HIDE DEF t, e
<1>4. Book(t, c)
  BY <1>2 DEF Book, Statuses
<1>5. /\ Proper(StepResult(t, <<e>>)) /\ StepResult(t, <<e>>).state = t
      /\ Range(StepResult(t, <<e>>).events) = {e}
      /\ Proper(Unchanged(s)) /\ Unchanged(s).state = s /\ Range(Unchanged(s).events) = {}
  BY <1>3, FewEvents, NoEvents
<1>6. CASE back
  BY <1>1, <1>2, <1>3, <1>4, <1>5, <1>6 DEF WhilePending
<1>7. CASE ~back
  BY <1>1, <1>5, <1>7 DEF WhilePending
<1> QED
  BY <1>6, <1>7

(***************************************************************************)
(* The trigger's instant is that of its event.                             *)
(***************************************************************************)
LEMMA HitTriggerResult ==
  ASSUME NEW c, NEW s, Book(s, c), s.status = "PENDING", NEW bar, NEW sig,
         NEW r, r = HitTrigger(s, bar, sig)
  PROVE  /\ WhilePending(s, r, bar, c, "TRIGGER_HIT") /\ r.state.zone_lost = s.zone_lost
         /\ \/ r.state.trigger_hit_at = s.trigger_hit_at
            \/ r.state.trigger_hit_at = bar.ts /\ Range(r.events) # {}
<1> DEFINE hit == sig.trigger # None /\ s.trigger_hit_at = None /\ bar.high >= sig.trigger
           t == [s EXCEPT !.trigger_hit_at = bar.ts]
           e == [Event("TRIGGER_HIT", bar.ts) EXCEPT !.price = sig.trigger]
<1>1. r = IF hit THEN StepResult(t, <<e>>) ELSE Unchanged(s)
  BY DEF HitTrigger
<1> HIDE DEF hit
<1>2. /\ Shape(t) /\ t.zone_lost = s.zone_lost /\ t.status = s.status /\ t.qty_open = s.qty_open
      /\ t.trigger_hit_at = bar.ts /\ t.frozen_reasons = s.frozen_reasons
      /\ t.stop_active_from = s.stop_active_from /\ t.t1_done = s.t1_done
      /\ t.qty_total = s.qty_total /\ t.stop_current = s.stop_current
  BY DEF Book, Shape
<1>3. Entry(e) /\ e.type = "TRIGGER_HIT" /\ e.ts = bar.ts
  BY DEF Event, Entry
<1> HIDE DEF t, e
<1>4. Book(t, c)
  BY <1>2 DEF Book, Statuses
<1>5. /\ Proper(StepResult(t, <<e>>)) /\ StepResult(t, <<e>>).state = t
      /\ Range(StepResult(t, <<e>>).events) = {e}
      /\ Proper(Unchanged(s)) /\ Unchanged(s).state = s /\ Range(Unchanged(s).events) = {}
  BY <1>3, FewEvents, NoEvents
<1>6. CASE hit
  BY <1>1, <1>2, <1>3, <1>4, <1>5, <1>6 DEF WhilePending
<1>7. CASE ~hit
  BY <1>1, <1>5, <1>7 DEF WhilePending
<1> QED
  BY <1>6, <1>7

(***************************************************************************)
(* A bar without an entry: the gates and, with the policy CANCEL, the end. *)
(***************************************************************************)
LEMMA GateGood ==
  ASSUME NEW c, NEW sig, NEW bar, NEW s, Book(s, c), s.status = "PENDING"
  PROVE  Good(s, Gate(s, bar, sig, c), bar, sig, c)
<1> DEFINE lost == LoseZone(s, bar, sig)
           reclaimed == ReclaimZone(lost.state, bar, sig)
           hit == HitTrigger(reclaimed.state, bar, sig)
           gone == Invalidate(lost.state, bar)
           ends == lost.events # <<>> /\ c.config.policy = "CANCEL"
           r == Gate(s, bar, sig, c)
<1>1. r = IF ends THEN After(lost.events, gone) ELSE After(lost.events \o reclaimed.events, hit)
  BY DEF Gate
<1>2. lost = LoseZone(s, bar, sig) /\ reclaimed = ReclaimZone(lost.state, bar, sig)
      /\ hit = HitTrigger(reclaimed.state, bar, sig) /\ gone = Invalidate(lost.state, bar)
  OBVIOUS
<1> HIDE DEF lost, reclaimed, hit, gone, ends, r
<1>3. /\ WhilePending(s, lost, bar, c, "ZONE_LOST") /\ lost.state.trigger_hit_at = s.trigger_hit_at
      /\ s.zone_lost \/ Range(lost.events) # {} => lost.state.zone_lost
  <2>1. lost = LoseZone(s, bar, sig)
    BY <1>2
  <2>2. WhilePending(s, lost, bar, c, "ZONE_LOST")
    BY <2>1, LoseZoneResult
  <2>3. lost.state.trigger_hit_at = s.trigger_hit_at
    BY <2>1, LoseZoneResult
  <2>4. s.zone_lost \/ Range(lost.events) # {} => lost.state.zone_lost
    BY <2>1, LoseZoneResult
  <2> QED
    BY <2>2, <2>3, <2>4
<1>4. /\ WhilePending(lost.state, reclaimed, bar, c, "ZONE_RECLAIMED")
      /\ reclaimed.state.trigger_hit_at = lost.state.trigger_hit_at
      /\ lost.state.zone_lost /\ ~reclaimed.state.zone_lost => Range(reclaimed.events) # {}
  BY <1>2, <1>3, ReclaimZoneResult DEF WhilePending
<1>5. /\ WhilePending(reclaimed.state, hit, bar, c, "TRIGGER_HIT")
      /\ hit.state.zone_lost = reclaimed.state.zone_lost
      /\ \/ hit.state.trigger_hit_at = reclaimed.state.trigger_hit_at
         \/ hit.state.trigger_hit_at = bar.ts /\ Range(hit.events) # {}
  BY <1>2, <1>4, HitTriggerResult DEF WhilePending
<1>6. /\ Proper(gone) /\ Book(gone.state, c) /\ gone.state.status = "INVALIDATED"
      /\ gone.state.zone_lost = lost.state.zone_lost
      /\ gone.state.trigger_hit_at = lost.state.trigger_hit_at
      /\ gone.state.frozen_reasons = lost.state.frozen_reasons
      /\ gone.state.stop_active_from = lost.state.stop_active_from
      /\ \A e \in Range(gone.events) : e.type = "INVALIDATED"
  BY <1>2, <1>3, InvalidateResult DEF WhilePending
<1>7. WorstCase(s, r, bar)
  BY DEF WorstCase
<1>8. CASE ends
  <2>1. /\ Proper(r) /\ r.state = gone.state
        /\ Range(r.events) = Range(lost.events) \cup Range(gone.events)
    BY <1>1, <1>3, <1>6, <1>8, AfterEvents DEF WhilePending, Proper
  <2>2. \A e \in Range(r.events) :
          (e.type = "ZONE_LOST" /\ e.ts = bar.ts) \/ e.type = "INVALIDATED"
    BY <1>3, <1>6, <2>1 DEF WhilePending
  <2>3. Priced(r, bar, sig) /\ ~Has(r, "FILLED")
    BY <2>2 DEF Priced, Has, Targets
  <2>4. Has(r, "ZONE_LOST") => Range(lost.events) # {}
    BY <1>6, <2>1 DEF Has
  <2>5. Gated(s, r, bar, sig)
    BY <1>3, <1>6, <2>1, <2>2, <2>3, <2>4 DEF Gated, ZoneTypes
  <2> QED
    BY <1>3, <1>6, <1>7, <2>1, <2>3, <2>5 DEF Good, Moved, StopMoves, WhilePending, r
<1>9. CASE ~ends
  <2>1. /\ Range(lost.events \o reclaimed.events) = Range(lost.events) \cup Range(reclaimed.events)
        /\ Log(lost.events \o reclaimed.events)
    BY <1>3, <1>4, ConcatEvents DEF WhilePending, Proper
  <2>2. /\ Proper(r) /\ r.state = hit.state
        /\ Range(r.events) = Range(lost.events \o reclaimed.events) \cup Range(hit.events)
    <3> DEFINE evs == lost.events \o reclaimed.events
    <3>1. r = After(evs, hit) /\ Log(evs) /\ Proper(hit)
      BY <1>1, <1>5, <1>9, <2>1 DEF WhilePending
    <3> HIDE DEF evs
    <3>2. Proper(r) /\ r.state = hit.state /\ Range(r.events) = Range(evs) \cup Range(hit.events)
      BY <3>1, AfterEvents
    <3> QED
      BY <3>2 DEF evs
  <2>3. \A e \in Range(r.events) :
          e.type \in {"ZONE_LOST", "ZONE_RECLAIMED", "TRIGGER_HIT"} /\ e.ts = bar.ts
    BY <1>3, <1>4, <1>5, <2>1, <2>2 DEF WhilePending
  <2>4. Priced(r, bar, sig) /\ ~Has(r, "FILLED")
    BY <2>3 DEF Priced, Has, Targets
  <2>5. Has(r, "ZONE_LOST") => Range(lost.events) # {}
    BY <1>4, <1>5, <2>1, <2>2 DEF Has, WhilePending
  <2>6. Range(reclaimed.events) # {} => Has(r, "ZONE_RECLAIMED")
    BY <1>4, <2>1, <2>2 DEF Has, WhilePending
  <2>7. Range(hit.events) # {} => Has(r, "TRIGGER_HIT")
    BY <1>5, <2>2 DEF Has, WhilePending
  <2>8. Gated(s, r, bar, sig)
    BY <1>3, <1>4, <1>5, <2>2, <2>3, <2>4, <2>5, <2>6, <2>7 DEF Gated, ZoneTypes
  <2> QED
    BY <1>3, <1>4, <1>5, <1>7, <2>2, <2>4, <2>8 DEF Good, Moved, StopMoves, WhilePending, r
<1> QED
  BY <1>8, <1>9

(***************************************************************************)
(* The bars of a pending order: what they fill, where, and at what gates.  *)
(***************************************************************************)
LEMMA EntryGood ==
  ASSUME NEW c, Fees(c), NEW sig, LongSignal(sig, c), NEW bar \in Bars,
         NEW s, Book(s, c), s.status = "PENDING"
  PROVE  Good(s, EntryPhase(s, bar, sig, c), bar, sig, c)
<1> DEFINE raw == EntryPrice(bar, sig)
           filled == Fill(s, bar, sig, c, raw)
           after == ExitPhase(filled.state, bar, sig, c, TRUE)
           gone == Invalidate(s, bar)
           enters == Eligible(s, bar, sig) /\ raw # None
           r == EntryPhase(s, bar, sig, c)
<1>1. r = IF bar.open <= sig.stop THEN gone
          ELSE IF enters THEN After(filled.events, after)
          ELSE IF bar.low <= sig.stop THEN gone ELSE Gate(s, bar, sig, c)
  BY DEF EntryPhase
<1>2. Good(s, gone, bar, sig, c)
  <2>1. gone = Invalidate(s, bar)
    OBVIOUS
  <2> HIDE DEF gone
  <2>2. /\ Proper(gone) /\ Book(gone.state, c) /\ gone.state.status = "INVALIDATED"
        /\ gone.state.zone_lost = s.zone_lost /\ gone.state.trigger_hit_at = s.trigger_hit_at
        /\ gone.state.frozen_reasons = s.frozen_reasons
        /\ gone.state.stop_active_from = s.stop_active_from
        /\ \A e \in Range(gone.events) : e.type = "INVALIDATED"
    BY <2>1, InvalidateResult
  <2>3. Priced(gone, bar, sig) /\ Gated(s, gone, bar, sig) /\ WorstCase(s, gone, bar)
    BY <2>2 DEF Priced, Gated, WorstCase, Has, Targets, ZoneTypes
  <2> QED
    BY <2>2, <2>3 DEF Good, Moved, StopMoves
<1>3. Good(s, Gate(s, bar, sig, c), bar, sig, c)
  BY GateGood
<1>4. ASSUME enters PROVE Good(s, After(filled.events, after), bar, sig, c)
  <2> DEFINE t == filled.state
             all == After(filled.events, after)
  <2>1. raw \in sig.low..sig.high /\ bar.low <= raw /\ raw <= bar.high
    BY <1>4, EntryPriceTraded
  <2>2. filled = Fill(s, bar, sig, c, raw) /\ after = ExitPhase(t, bar, sig, c, TRUE)
        /\ all = After(filled.events, after)
    OBVIOUS
  <2>3. s.zone_lost = FALSE /\ (sig.trigger # None => s.trigger_hit_at # None)
    BY <1>4 DEF Eligible, Book
  <2> HIDE DEF raw, filled, after, t, all
  <2>4. /\ Proper(filled) /\ Book(t, c) /\ t.status = "OPEN"
        /\ t.zone_lost = s.zone_lost /\ t.trigger_hit_at = s.trigger_hit_at
        /\ t.frozen_reasons = s.frozen_reasons
        /\ t.stop_active_from = None
        /\ Range(filled.events) # {}
        /\ \A e \in Range(filled.events) : e.type = "FILLED" /\ e.ts = bar.ts /\ e.level = raw
    BY <2>1, <2>2, FillResult DEF t
  <2>5. StopActive(t, bar)
    BY <2>4 DEF StopActive
  <2> DEFINE u == SeenOn(t, bar, TRUE)
  <2>6. after = Exit(u, bar, sig, c, TRUE)
    <3>1. Book(t, c)
      BY <2>4
    <3>2. ExitPhase(t, bar, sig, c, TRUE) = Exit(u, bar, sig, c, TRUE)
      BY <2>5, <3>1, ExitPhaseIsExit
    <3> QED
      BY <2>2, <3>2
  <2>7. /\ Book(u, c) /\ u.status = "OPEN" /\ u.zone_lost = s.zone_lost
        /\ u.trigger_hit_at = s.trigger_hit_at /\ u.frozen_reasons = s.frozen_reasons
        /\ u.stop_active_from = None
    BY <2>4, SeenKeeps DEF SeenOn
  <2> HIDE DEF u
  <2>9. /\ Proper(after) /\ Book(after.state, c) /\ after.state.status \in {"OPEN", "CLOSED"}
        /\ after.state.zone_lost = s.zone_lost /\ after.state.trigger_hit_at = s.trigger_hit_at
        /\ after.state.frozen_reasons = s.frozen_reasons
        /\ after.state.stop_active_from = None
        /\ \A e \in Range(after.events) : /\ e.type = "STOPPED" /\ e.level \in Int
                                          /\ bar.low <= e.level /\ e.level <= bar.high
    <3> DEFINE x == Exit(u, bar, sig, c, TRUE)
    <3>1. Book(u, c) /\ u.status = "OPEN"
      BY <2>7
    <3>2. /\ Proper(x) /\ Book(x.state, c) /\ x.state.status \in {"OPEN", "CLOSED"}
          /\ x.state.zone_lost = u.zone_lost /\ x.state.trigger_hit_at = u.trigger_hit_at
          /\ x.state.frozen_reasons = u.frozen_reasons
          /\ x.state.stop_active_from = u.stop_active_from
          /\ \A e \in Range(x.events) : /\ e.type = "STOPPED" /\ e.level \in Int
                                        /\ bar.low <= e.level /\ e.level <= bar.high
      BY <3>1, EntryBarExit
    <3>3. after = x
      BY <2>6
    <3> HIDE DEF x
    <3> QED
      BY <2>7, <3>2, <3>3
  <2>10. /\ Proper(all) /\ all.state = after.state
         /\ Range(all.events) = Range(filled.events) \cup Range(after.events)
    <3>1. Log(filled.events) /\ Proper(after)
      BY <2>4, <2>9 DEF Proper
    <3>2. all = After(filled.events, after)
      BY <2>2
    <3> QED
      BY <3>1, <3>2, AfterEvents
  <2>11. \A e \in Range(all.events) :
           \/ e.type = "FILLED" /\ e.ts = bar.ts /\ e.level = raw
           \/ e.type = "STOPPED" /\ e.level \in Int /\ bar.low <= e.level /\ e.level <= bar.high
    BY <2>4, <2>9, <2>10
  <2>12. raw \in Int /\ sig.low <= raw /\ raw <= sig.high
    BY <2>1 DEF LongSignal
  <2>13. Priced(all, bar, sig)
    BY <2>1, <2>11, <2>12 DEF Priced, Targets
  <2>14. Gated(s, all, bar, sig)
    BY <2>3, <2>9, <2>10, <2>11 DEF Gated, Has, ZoneTypes, Targets
  <2>15. WorstCase(s, all, bar)
    BY DEF WorstCase
  <2>16. Moved(s, all.state)
    BY <2>3, <2>9, <2>10 DEF Moved
  <2>17. StopMoves(s, all, bar)
    BY <2>9, <2>10 DEF StopMoves, Book
  <2> QED
    BY <2>9, <2>10, <2>13, <2>14, <2>15, <2>16, <2>17 DEF Good, all
<1> HIDE DEF raw, filled, after, gone, enters
<1> QED
  BY <1>1, <1>2, <1>3, <1>4

\* The end of the window: a pending order expires, a position is closed.
Ended(s, r, bar, c) ==
  /\ Proper(r) /\ Book(r.state, c)
  /\ r.state.status = IF s.status = "PENDING" THEN "EXPIRED" ELSE "CLOSED"
  /\ r.state.zone_lost = s.zone_lost /\ r.state.trigger_hit_at = s.trigger_hit_at
  /\ r.state.frozen_reasons = s.frozen_reasons
  /\ r.state.stop_active_from = s.stop_active_from /\ r.state.last_bar_ts = s.last_bar_ts
  /\ \A e \in Range(r.events) : \/ e.type = "EXPIRED"
                                \/ e.type = "TIME_EXIT" /\ e.level = bar.close

(***************************************************************************)
(* The end of the window: a pending order expires, a position is closed.   *)
(***************************************************************************)
LEMMA ValidityEndResult ==
  ASSUME NEW c, NEW s, Book(s, c), s.status \in {"PENDING", "OPEN", "PARTIAL"}, NEW bar
  PROVE  Ended(s, ValidityEnd(s, bar, c), bar, c)
<1> DEFINE r == ValidityEnd(s, bar, c)
<1>1. CASE s.status = "PENDING"
  <2> DEFINE t == [s EXCEPT !.status = "EXPIRED", !.final_event_ts = c.until]
             e == Event("EXPIRED", None)
  <2>1. r = StepResult(t, <<e>>)
    BY <1>1 DEF ValidityEnd
  <2> HIDE DEF r
  <2>2. /\ Shape(t) /\ t.status = "EXPIRED" /\ t.qty_open = s.qty_open /\ t.zone_lost = s.zone_lost
        /\ t.trigger_hit_at = s.trigger_hit_at /\ t.frozen_reasons = s.frozen_reasons
        /\ t.stop_active_from = s.stop_active_from /\ t.t1_done = s.t1_done
        /\ t.last_bar_ts = s.last_bar_ts
        /\ t.qty_total = s.qty_total /\ t.stop_current = s.stop_current
    BY DEF Book, Shape
  <2>3. Entry(e) /\ e.type = "EXPIRED"
    BY DEF Event, Entry
  <2> HIDE DEF t, e
  <2>4. Book(t, c)
    BY <1>1, <2>2 DEF Book, Statuses
  <2>5. Proper(r) /\ r.state = t /\ Range(r.events) = {e}
    BY <2>1, <2>3, FewEvents
  <2> QED
    BY <1>1, <2>2, <2>3, <2>4, <2>5 DEF Ended, r
<1>2. CASE s.status # "PENDING"
  <2> DEFINE price == AdverseSell(bar.close, c.config.stop_slip)
  <2>1. r = Close(s, bar, c, "TIME_EXIT", price, bar.close, "TIME_EXIT")
    BY <1>2 DEF ValidityEnd
  <2> HIDE DEF price, r
  <2>2. /\ Proper(r) /\ Book(r.state, c) /\ r.state.status = "CLOSED"
        /\ r.state.zone_lost = s.zone_lost /\ r.state.trigger_hit_at = s.trigger_hit_at
        /\ r.state.frozen_reasons = s.frozen_reasons
        /\ r.state.stop_active_from = s.stop_active_from /\ r.state.last_bar_ts = s.last_bar_ts
        /\ Range(r.events) # {}
        /\ \A e \in Range(r.events) :
             /\ e.type = "TIME_EXIT" /\ e.ts = bar.ts
             /\ e.price = price /\ e.level = bar.close
    BY <2>1, CloseResult
  <2> QED
    BY <1>2, <2>2 DEF Ended, r
<1> QED
  BY <1>1, <1>2

(***************************************************************************)
(* One phase of an order that is neither final nor frozen.                 *)
(***************************************************************************)
LEMMA PhaseGood ==
  ASSUME NEW c, Fees(c), NEW sig, LongSignal(sig, c), NEW bar \in Bars,
         NextExpectedMinute(bar.ts) \in Int,
         NEW s, Book(s, c), s.status \in {"PENDING", "OPEN", "PARTIAL"}, StopActive(s, bar)
  PROVE  Good(s, IF s.status = "PENDING" THEN EntryPhase(s, bar, sig, c)
                 ELSE ExitPhase(s, bar, sig, c, FALSE), bar, sig, c)
<1>1. CASE s.status = "PENDING"
  BY <1>1, EntryGood
<1>2. CASE s.status \in {"OPEN", "PARTIAL"}
  <2> DEFINE u == SeenOn(s, bar, FALSE)
             r == ExitPhase(s, bar, sig, c, FALSE)
  <2>1. r = Exit(u, bar, sig, c, FALSE)
    BY ExitPhaseIsExit
  <2>2. /\ Book(u, c) /\ u.status = s.status /\ u.zone_lost = s.zone_lost
        /\ u.trigger_hit_at = s.trigger_hit_at /\ u.frozen_reasons = s.frozen_reasons
        /\ u.stop_active_from = s.stop_active_from /\ u.stop_current = s.stop_current
    BY SeenKeeps DEF SeenOn
  <2> HIDE DEF u
  <2>3. Good(u, Exit(u, bar, sig, c, FALSE), bar, sig, c)
    BY <1>2, <2>2, ExitGood
  <2> HIDE DEF r
  <2>4. Good(u, r, bar, sig, c)
    BY <2>1, <2>3
  <2>5. Moved(s, r.state) /\ StopMoves(s, r, bar) /\ WorstCase(s, r, bar)
    BY <2>2, <2>4 DEF Good, Moved, StopMoves, WorstCase
  <2>6. Gated(s, r, bar, sig)
    BY <2>2, <2>4 DEF Good, Gated
  <2>7. Good(s, r, bar, sig, c)
    BY <2>4, <2>5, <2>6 DEF Good
  <2> QED
    BY <1>2, <2>7 DEF r
<1> QED
  BY <1>1, <1>2

\* The result with the instant of its bar.
Stamped(r, d, ts, c) ==
  /\ Proper(d) /\ d.events = r.events /\ Book(d.state, c)
  /\ d.state.last_bar_ts = ts /\ d.state.status = r.state.status
  /\ d.state.zone_lost = r.state.zone_lost
  /\ d.state.trigger_hit_at = r.state.trigger_hit_at
  /\ d.state.frozen_reasons = r.state.frozen_reasons
  /\ d.state.stop_active_from = r.state.stop_active_from

(***************************************************************************)
(* The bar that was processed is the last one.                             *)
(***************************************************************************)
LEMMA StampResult ==
  ASSUME NEW c, NEW r, Proper(r), Book(r.state, c), NEW ts
  PROVE  Stamped(r, [r EXCEPT !.state.last_bar_ts = ts], ts, c)
<1> DEFINE d == [r EXCEPT !.state.last_bar_ts = ts]
           s == r.state
           t == [s EXCEPT !.last_bar_ts = ts]
<1>1. /\ Shape(t) /\ t.status = s.status /\ t.zone_lost = s.zone_lost /\ t.qty_open = s.qty_open
      /\ t.trigger_hit_at = s.trigger_hit_at /\ t.frozen_reasons = s.frozen_reasons
      /\ t.stop_active_from = s.stop_active_from /\ t.t1_done = s.t1_done
      /\ t.qty_total = s.qty_total /\ t.stop_current = s.stop_current
      /\ t.avg_entry = s.avg_entry /\ t.last_bar_ts = ts
  BY DEF Book, Shape
<1>2. Proper(d) /\ d.state = t /\ d.events = r.events
  BY DEF Proper
<1> HIDE DEF t, d
<1>3. Book(t, c)
  BY <1>1 DEF Book
<1> QED
  BY <1>1, <1>2, <1>3 DEF Stamped, d

(***************************************************************************)
(* A bar that is not ignored, in LONG terms: all of the above, and nothing *)
(* outlives the last bar of the window.                                    *)
(***************************************************************************)
LEMMA LongStepGood ==
  ASSUME NEW c, Fees(c), NEW sig, LongSignal(sig, c), NEW bar \in Bars,
         NextExpectedMinute(bar.ts) \in Int,
         NEW s, Book(s, c), s.status \in {"PENDING", "OPEN", "PARTIAL"}, StopActive(s, bar)
  PROVE  LET r == LongStep(s, bar, sig, c) IN
         /\ Good(s, r, bar, sig, c)
         /\ r.state.last_bar_ts = bar.ts
         /\ IsLastBar(bar, c) => IsFinal(r.state)
<1> DEFINE phase == IF s.status = "PENDING" THEN EntryPhase(s, bar, sig, c)
                    ELSE ExitPhase(s, bar, sig, c, FALSE)
           done == [phase EXCEPT !.state.last_bar_ts = bar.ts]
           end == ValidityEnd(done.state, bar, c)
           r == LongStep(s, bar, sig, c)
<1>1. r = IF IsFinal(done.state) \/ ~IsLastBar(bar, c) THEN done ELSE After(done.events, end)
  BY DEF LongStep
<1>2. Good(s, phase, bar, sig, c)
  BY PhaseGood
<1>3. done = [phase EXCEPT !.state.last_bar_ts = bar.ts] /\ end = ValidityEnd(done.state, bar, c)
  OBVIOUS
<1> HIDE DEF phase, done, end, r
<1>4. /\ Proper(done) /\ done.events = phase.events /\ Book(done.state, c)
      /\ done.state.last_bar_ts = bar.ts /\ done.state.status = phase.state.status
      /\ done.state.zone_lost = phase.state.zone_lost
      /\ done.state.trigger_hit_at = phase.state.trigger_hit_at
      /\ done.state.frozen_reasons = phase.state.frozen_reasons
      /\ done.state.stop_active_from = phase.state.stop_active_from
  <2>1. Proper(phase) /\ Book(phase.state, c)
    BY <1>2 DEF Good
  <2>2. Stamped(phase, [phase EXCEPT !.state.last_bar_ts = bar.ts], bar.ts, c)
    BY <2>1, StampResult
  <2> QED
    BY <1>3, <2>2 DEF Stamped
<1>5. Good(s, done, bar, sig, c)
  <2>1. Moved(s, done.state) /\ StopMoves(s, done, bar)
    BY <1>2, <1>4 DEF Good, Moved, StopMoves
  <2>2. Priced(done, bar, sig) /\ WorstCase(s, done, bar)
    BY <1>2, <1>4 DEF Good, Priced, WorstCase
  <2>3. Gated(s, done, bar, sig)
    BY <1>2, <1>4 DEF Good, Gated, Has
  <2> QED
    BY <1>4, <2>1, <2>2, <2>3 DEF Good
<1>6. CASE IsFinal(done.state) \/ ~IsLastBar(bar, c)
  BY <1>1, <1>4, <1>5, <1>6 DEF r
<1>7. CASE ~(IsFinal(done.state) \/ ~IsLastBar(bar, c))
  <2>1. done.state.status \in {"PENDING", "OPEN", "PARTIAL"}
    BY <1>4, <1>7 DEF IsFinal, FinalStatuses, Book, Statuses
  <2>2. /\ Proper(end) /\ Book(end.state, c)
        /\ end.state.status = IF done.state.status = "PENDING" THEN "EXPIRED" ELSE "CLOSED"
        /\ end.state.zone_lost = done.state.zone_lost
        /\ end.state.trigger_hit_at = done.state.trigger_hit_at
        /\ end.state.frozen_reasons = done.state.frozen_reasons
        /\ end.state.stop_active_from = done.state.stop_active_from
        /\ end.state.last_bar_ts = done.state.last_bar_ts
        /\ \A e \in Range(end.events) : \/ e.type = "EXPIRED"
                                        \/ e.type = "TIME_EXIT" /\ e.level = bar.close
    <3>1. Ended(done.state, ValidityEnd(done.state, bar, c), bar, c)
      BY <1>4, <2>1, ValidityEndResult
    <3> QED
      BY <1>3, <3>1 DEF Ended
  <2>3. /\ Proper(r) /\ r.state = end.state
        /\ Range(r.events) = Range(done.events) \cup Range(end.events)
    <3>1. Log(done.events) /\ r = After(done.events, end)
      BY <1>1, <1>4, <1>7 DEF Proper
    <3> QED
      BY <2>2, <3>1, AfterEvents
  <2>4. bar.close \in Int /\ bar.low <= bar.close /\ bar.close <= bar.high
    BY DEF Bars, IsBar
  <2>5. Priced(r, bar, sig)
    BY <1>5, <2>2, <2>3, <2>4 DEF Good, Priced, Targets
  <2>6. Gated(s, r, bar, sig)
    <3>1. \A type \in {"FILLED", "TRIGGER_HIT"} \cup ZoneTypes : Has(r, type) <=> Has(done, type)
      BY <2>2, <2>3 DEF Has, ZoneTypes
    <3>2. Gated(s, done, bar, sig)
      BY <1>5 DEF Good
    <3>3. \A e \in Range(end.events) : e.type \notin {"FILLED", "TRIGGER_HIT"} \cup ZoneTypes \cup Targets
      BY <2>2 DEF ZoneTypes, Targets
    <3>4. r.state.status # "PENDING"
      BY <2>2, <2>3
    <3>5. r.state.trigger_hit_at = done.state.trigger_hit_at /\ r.state.zone_lost = done.state.zone_lost
      BY <2>2, <2>3
    <3>6. /\ Has(r, "FILLED") <=> Has(done, "FILLED")
          /\ Has(r, "TRIGGER_HIT") <=> Has(done, "TRIGGER_HIT")
          /\ Has(r, "ZONE_LOST") <=> Has(done, "ZONE_LOST")
          /\ Has(r, "ZONE_RECLAIMED") <=> Has(done, "ZONE_RECLAIMED")
      BY <3>1 DEF ZoneTypes
    <3> QED
      BY <2>3, <3>2, <3>3, <3>4, <3>5, <3>6 DEF Gated
  <2>7. WorstCase(s, r, bar)
    BY <1>5, <2>1 DEF Good, WorstCase
  <2>8. Moved(s, r.state) /\ StopMoves(s, r, bar)
    BY <1>5, <2>1, <2>2, <2>3 DEF Good, Moved, StopMoves
  <2>9. r.state.last_bar_ts = bar.ts /\ IsFinal(r.state)
    BY <1>4, <2>2, <2>3 DEF IsFinal, FinalStatuses
  <2> QED
    BY <2>2, <2>3, <2>5, <2>6, <2>7, <2>8, <2>9 DEF Good, r
<1> QED
  BY <1>6, <1>7

-----------------------------------------------------------------------------
(* The mirror. *)

(***************************************************************************)
(* A mirrored price is a price, and the mirror is its own inverse.         *)
(***************************************************************************)
LEMMA MirrorPrice ==
  ASSUME NEW p \in Price
  PROVE  Neg(p) \in Price /\ (Neg(p) = None <=> p = None) /\ (p \in Int => Neg(p) = -p /\ Neg(p) \in Int)
BY NoneAssumption DEF Neg, Price

\* What a mirrored state, or event, keeps.
SameGates(s, t) ==
  /\ t.status = s.status /\ t.zone_lost = s.zone_lost /\ t.trigger_hit_at = s.trigger_hit_at
  /\ t.frozen_reasons = s.frozen_reasons /\ t.stop_active_from = s.stop_active_from
  /\ t.last_bar_ts = s.last_bar_ts

(***************************************************************************)
(* A mirrored state holds what the state holds.                            *)
(***************************************************************************)
LEMMA MirrorStateKeeps ==
  ASSUME NEW c, NEW s, Book(s, c)
  PROVE  /\ Book(MirrorState(s), c) /\ SameGates(s, MirrorState(s))
         /\ MirrorState(s).stop_current = -s.stop_current
<1> DEFINE t == MirrorState(s)
<1>1. /\ Shape(t) /\ t.status = s.status /\ t.zone_lost = s.zone_lost
      /\ t.trigger_hit_at = s.trigger_hit_at /\ t.frozen_reasons = s.frozen_reasons
      /\ t.stop_active_from = s.stop_active_from /\ t.t1_done = s.t1_done
      /\ t.qty_total = s.qty_total /\ t.qty_open = s.qty_open /\ t.last_bar_ts = s.last_bar_ts
      /\ t.stop_current = Neg(s.stop_current) /\ t.avg_entry = Neg(s.avg_entry)
  BY DEF Book, Shape, MirrorState
<1> HIDE DEF t
<1>2. s.stop_current \in Int /\ (s.status \in {"OPEN", "PARTIAL"} => s.avg_entry \in Int)
  BY DEF Book
<1>3. t.stop_current \in Int /\ t.stop_current = -s.stop_current
  BY <1>1, <1>2, MirrorPrice DEF Price
<1>4. s.status \in {"OPEN", "PARTIAL"} => t.avg_entry \in Int
  BY <1>1, <1>2, MirrorPrice DEF Price
<1>5. Book(t, c)
  BY <1>1, <1>3, <1>4 DEF Book
<1> QED
  BY <1>1, <1>3, <1>5 DEF SameGates, t

(***************************************************************************)
(* A mirrored event is that event at the negated prices.                   *)
(***************************************************************************)
LEMMA MirrorEventKeeps ==
  ASSUME NEW e, Entry(e)
  PROVE  /\ Entry(MirrorEvent(e)) /\ MirrorEvent(e).type = e.type /\ MirrorEvent(e).ts = e.ts
         /\ MirrorEvent(e).price = Neg(e.price) /\ MirrorEvent(e).level = Neg(e.level)
BY DEF Entry, MirrorEvent

(***************************************************************************)
(* A mirrored result has the mirrored events.                              *)
(***************************************************************************)
LEMMA MirrorResultKeeps ==
  ASSUME NEW r, Proper(r)
  PROVE  /\ Proper(MirrorResult(r)) /\ MirrorResult(r).state = MirrorState(r.state)
         /\ Range(MirrorResult(r).events) = {MirrorEvent(e) : e \in Range(r.events)}
<1> DEFINE t == MirrorState(r.state)
           evs == [i \in DOMAIN r.events |-> MirrorEvent(r.events[i])]
           m == StepResult(t, evs)
<1>1. MirrorResult(r) = m
  BY DEF MirrorResult
<1>2. r.events \in Seq(Range(r.events)) /\ \A e \in Range(r.events) : Entry(e)
  BY DEF Proper, Log
<1>3. DOMAIN r.events = 1..Len(r.events) /\ Len(r.events) \in Nat
  BY <1>2
<1>4. Range(evs) = {MirrorEvent(e) : e \in Range(r.events)}
  BY DEF Range
<1>5. evs \in Seq(Range(evs))
  <2>1. \A i \in 1..Len(r.events) : evs[i] \in Range(evs)
    BY <1>3 DEF Range
  <2>2. evs = [i \in 1..Len(r.events) |-> MirrorEvent(r.events[i])]
    BY <1>3
  <2> HIDE DEF evs
  <2>3. evs = [i \in 1..Len(r.events) |-> evs[i]]
    BY <2>2
  <2> QED
    BY <1>3, <2>1, <2>3, SeqDef
<1>6. \A e \in Range(evs) : Entry(e)
  BY <1>2, <1>4, MirrorEventKeeps
<1> HIDE DEF t, evs
<1>7. Proper(m) /\ m.state = t /\ m.events = evs
  BY <1>5, <1>6 DEF Proper, Log, StepResult
<1> QED
  BY <1>1, <1>4, <1>7 DEF t

\* A signal of either direction, as validate_signal lets it through.
Chain(sig, c) ==
  /\ sig \in [direction : {"LONG", "SHORT"}, low : Int, high : Int, stop : Int,
              target1 : Int, target2 : Price, trigger : Price]
  /\ ValidSignal(sig)
  /\ \A raw \in sig.low..sig.high :
       Sized(c.config, c.config.entry_slip + IF sig.direction = "LONG" THEN raw - sig.stop
                                             ELSE sig.stop - raw)

(***************************************************************************)
(* The mirror of a SHORT signal is a LONG one.                             *)
(***************************************************************************)
LEMMA MirrorSignalIsLong ==
  ASSUME NEW c, NEW sig, Chain(sig, c), sig.direction = "SHORT"
  PROVE  /\ LongSignal(MirrorSignal(sig), c)
         /\ MirrorSignal(sig).low = -sig.high /\ MirrorSignal(sig).high = -sig.low
         /\ MirrorSignal(sig).trigger = None <=> sig.trigger = None
<1> DEFINE m == MirrorSignal(sig)
<1>1. sig \in [direction : {"LONG", "SHORT"}, low : Int, high : Int, stop : Int,
               target1 : Int, target2 : Price, trigger : Price]
  BY DEF Chain
<1>2. Neg(sig.stop) = -sig.stop /\ Neg(sig.target2) \in Price /\ Neg(sig.trigger) \in Price
  BY <1>1, MirrorPrice DEF Price
<1>3. /\ m.direction = "SHORT" /\ m.low = -sig.high /\ m.high = -sig.low /\ m.stop = -sig.stop
      /\ m.target1 = -sig.target1 /\ m.target2 = Neg(sig.target2) /\ m.trigger = Neg(sig.trigger)
  BY <1>1 DEF MirrorSignal
<1>4. m \in [direction : {m.direction}, low : {m.low}, high : {m.high}, stop : {m.stop},
              target1 : {m.target1}, target2 : {m.target2}, trigger : {m.trigger}]
  BY <1>1 DEF MirrorSignal
<1> HIDE DEF m
<1>5. m.low \in Int /\ m.high \in Int /\ m.stop \in Int /\ m.target1 \in Int
  BY <1>1, <1>3
<1>6. m \in [direction : {m.direction}, low : Int, high : Int, stop : Int, target1 : Int,
             target2 : Price, trigger : Price]
  BY <1>2, <1>3, <1>4, <1>5
<1>7. /\ sig.low <= sig.high /\ sig.stop > sig.high /\ sig.low > sig.target1
      /\ sig.target2 # None => sig.target1 > sig.target2
  BY DEF Chain, ValidSignal
<1>8. /\ sig.low \in Int /\ sig.high \in Int /\ sig.stop \in Int /\ sig.target1 \in Int
      /\ sig.target2 \in Price /\ sig.trigger \in Price
  BY <1>1
<1>9. m.stop < m.low /\ m.low <= m.high /\ m.high < m.target1
  BY <1>3, <1>7, <1>8
<1>10. m.target2 # None => m.target1 < m.target2
  <2>1. (Neg(sig.target2) = None <=> sig.target2 = None)
        /\ (sig.target2 \in Int => Neg(sig.target2) = -sig.target2)
    BY <1>8, MirrorPrice
  <2> QED
    BY <1>3, <1>7, <1>8, <2>1 DEF Price
<1>11. ASSUME NEW raw \in m.low..m.high
      PROVE  Sized(c.config, c.config.entry_slip + (raw - m.stop))
  <2>1. -raw \in sig.low..sig.high /\ sig.stop - (-raw) = raw - m.stop
    BY <1>3, <1>8, <1>11
  <2>2. Sized(c.config, c.config.entry_slip + (sig.stop - (-raw)))
    BY <2>1 DEF Chain
  <2> QED
    BY <2>1, <2>2
<1>12. m.trigger = None <=> sig.trigger = None
  BY <1>3, <1>8, MirrorPrice
<1> QED
  BY <1>3, <1>6, <1>9, <1>10, <1>11, <1>12 DEF LongSignal, m

(***************************************************************************)
(* The mirror of a bar is a bar.                                           *)
(***************************************************************************)
LEMMA MirrorBarIsBar ==
  ASSUME NEW bar \in Bars
  PROVE  /\ MirrorBar(bar) \in Bars /\ MirrorBar(bar).ts = bar.ts
         /\ MirrorBar(bar).open = -bar.open /\ MirrorBar(bar).close = -bar.close
         /\ MirrorBar(bar).low = -bar.high /\ MirrorBar(bar).high = -bar.low
<1> DEFINE m == MirrorBar(bar)
<1>1. /\ bar \in [ts : Int, open : Int, high : Int, low : Int, close : Int]
      /\ bar.low <= bar.open /\ bar.open <= bar.high /\ bar.low <= bar.close /\ bar.close <= bar.high
  BY DEF Bars, IsBar
<1>2. /\ m \in [ts : {m.ts}, open : {m.open}, high : {m.high}, low : {m.low}, close : {m.close}]
      /\ m.ts = bar.ts
      /\ m.open = -bar.open /\ m.close = -bar.close /\ m.low = -bar.high /\ m.high = -bar.low
  BY <1>1 DEF MirrorBar
<1> HIDE DEF m
<1>3. /\ m \in [ts : Int, open : Int, high : Int, low : Int, close : Int] /\ m.ts = bar.ts
      /\ m.open = -bar.open /\ m.close = -bar.close /\ m.low = -bar.high /\ m.high = -bar.low
  BY <1>1, <1>2
<1>4. m.low <= m.open /\ m.open <= m.high /\ m.low <= m.close /\ m.close <= m.high
  BY <1>1, <1>3
<1>5. IsBar(m)
  BY <1>4 DEF IsBar
<1> QED
  BY <1>3, <1>5 DEF Bars, m

-----------------------------------------------------------------------------
(* One bar, in the prices of the order's own direction. *)

\* p is at or beyond q, on the losing or the winning side.
Losing(c, p, q) == IF c.signal.direction = "LONG" THEN p <= q ELSE q <= p
Winning(c, p, q) == IF c.signal.direction = "LONG" THEN p >= q ELSE q >= p
Worst(c, bar) == IF c.signal.direction = "LONG" THEN bar.low ELSE bar.high
Best(c, bar) == IF c.signal.direction = "LONG" THEN bar.high ELSE bar.low

\* Priced, WorstCase and Good once mirrored back.
OwnPriced(r, bar, c) ==
  \A e \in Range(r.events) :
    /\ e.type \in {"FILLED", "STOPPED", "TIME_EXIT"} =>
         e.level \in Int /\ bar.low <= e.level /\ e.level <= bar.high
    /\ e.type \in Targets => e.price \in Int /\ Winning(c, Best(c, bar), e.price)
    /\ e.type = "FILLED" => c.signal.low <= e.level /\ e.level <= c.signal.high

OwnWorstCase(s, r, bar, c) ==
  s.status \in {"OPEN", "PARTIAL"} /\ Losing(c, Worst(c, bar), s.stop_current) =>
    /\ r.state.status = "CLOSED" /\ Range(r.events) # {}
    /\ \A e \in Range(r.events) :
         /\ e.type = "STOPPED" /\ e.price \in Int /\ Losing(c, e.price, s.stop_current)
         /\ Losing(c, bar.open, s.stop_current) => Losing(c, e.price, bar.open)

Stepped(s, r, bar, c) ==
  /\ Proper(r) /\ Book(r.state, c) /\ Moved(s, r.state)
  /\ OwnPriced(r, bar, c) /\ Gated(s, r, bar, c.signal) /\ OwnWorstCase(s, r, bar, c)
  /\ StopMoves(s, r, bar) /\ r.state.last_bar_ts = bar.ts
  /\ IsLastBar(bar, c) => IsFinal(r.state)

(***************************************************************************)
(* A bar that is not ignored, whatever the direction of the order.         *)
(***************************************************************************)
LEMMA StepGood ==
  ASSUME NEW c, Fees(c), Chain(c.signal, c), NEW bar \in Bars, NextExpectedMinute(bar.ts) \in Int,
         NEW s, Book(s, c), StopActive(s, bar), ~Ignored(s, bar, c)
  PROVE  Stepped(s, Step(s, bar, c), bar, c)
<1> DEFINE r == Step(s, bar, c)
           sig == c.signal
<1>0. s.status \in {"PENDING", "OPEN", "PARTIAL"}
  BY DEF Ignored, IsFinal, FinalStatuses, Book, Statuses
<1>1. CASE sig.direction = "LONG"
  <2>1. LongSignal(sig, c)
    BY <1>1 DEF Chain, ValidSignal, LongSignal
  <2>2. r = LongStep(s, bar, sig, c)
    BY <1>1 DEF Step
  <2>3. LET x == LongStep(s, bar, sig, c) IN
        /\ Good(s, x, bar, sig, c)
        /\ x.state.last_bar_ts = bar.ts
        /\ IsLastBar(bar, c) => IsFinal(x.state)
    BY <1>0, <2>1, LongStepGood
  <2> HIDE DEF r
  <2>4. Good(s, r, bar, sig, c) /\ r.state.last_bar_ts = bar.ts /\ (IsLastBar(bar, c) => IsFinal(r.state))
    BY <2>2, <2>3
  <2>5. OwnPriced(r, bar, c)
    BY <1>1, <2>4 DEF Good, Priced, OwnPriced, Winning, Best, Bars
  <2>6. OwnWorstCase(s, r, bar, c)
    BY <1>1, <2>4 DEF Good, WorstCase, OwnWorstCase, Losing, Worst
  <2> QED
    BY <2>4, <2>5, <2>6 DEF Good, Stepped, r
<1>2. CASE sig.direction # "LONG"
  <2> DEFINE t == MirrorState(s)
             mbar == MirrorBar(bar)
             msig == MirrorSignal(sig)
             x == LongStep(t, mbar, msig, c)
  <2>1. sig.direction = "SHORT"
    BY <1>2 DEF Chain
  <2>2. /\ LongSignal(msig, c) /\ msig.low = -sig.high /\ msig.high = -sig.low
        /\ msig.trigger = None <=> sig.trigger = None
    BY <2>1, MirrorSignalIsLong
  <2>3. /\ mbar \in Bars /\ mbar.ts = bar.ts /\ mbar.open = -bar.open
        /\ mbar.low = -bar.high /\ mbar.high = -bar.low
    BY MirrorBarIsBar
  <2>4. Book(t, c) /\ SameGates(s, t) /\ t.stop_current = -s.stop_current
    BY MirrorStateKeeps
  <2>5. r = MirrorResult(x)
    BY <1>2 DEF Step
  <2> HIDE DEF t, mbar, msig
  <2>6. /\ Good(t, x, mbar, msig, c) /\ x.state.last_bar_ts = mbar.ts
        /\ IsLastBar(mbar, c) => IsFinal(x.state)
    <3>1. t.status \in {"PENDING", "OPEN", "PARTIAL"} /\ StopActive(t, mbar)
      BY <1>0, <2>3, <2>4 DEF SameGates, StopActive
    <3>2. NextExpectedMinute(mbar.ts) \in Int
      BY <2>3
    <3> QED
      BY <2>2, <2>3, <2>4, <3>1, <3>2, LongStepGood
  <2> HIDE DEF x, r
  <2>7. Proper(x) /\ Book(x.state, c)
    BY <2>6 DEF Good
  <2>8. /\ Proper(r) /\ r.state = MirrorState(x.state)
        /\ Range(r.events) = {MirrorEvent(e) : e \in Range(x.events)}
    BY <2>5, <2>7, MirrorResultKeeps
  <2>9. Book(r.state, c) /\ SameGates(x.state, r.state)
    BY <2>7, <2>8, MirrorStateKeeps
  <2>10. \A e \in Range(x.events) :
           /\ MirrorEvent(e).type = e.type /\ MirrorEvent(e).ts = e.ts
           /\ MirrorEvent(e).price = Neg(e.price) /\ MirrorEvent(e).level = Neg(e.level)
    BY <2>7, MirrorEventKeeps DEF Proper, Log
  <2>11. /\ Moved(s, r.state) /\ StopMoves(s, r, bar) /\ r.state.last_bar_ts = bar.ts
         /\ IsLastBar(bar, c) => IsFinal(r.state)
    BY <2>3, <2>4, <2>6, <2>9 DEF Good, SameGates, Moved, StopMoves, IsLastBar, IsFinal
  <2>12. Gated(s, r, bar, sig)
    <3>1. \A type : Has(r, type) <=> Has(x, type)
      BY <2>8, <2>10 DEF Has
    <3>2. \A e \in Range(r.events) : \E f \in Range(x.events) : f.type = e.type /\ f.ts = e.ts
      BY <2>8, <2>10
    <3>3. Gated(t, x, mbar, msig)
      BY <2>6 DEF Good
    <3> QED
      BY <2>2, <2>3, <2>4, <2>9, <3>1, <3>2, <3>3 DEF Gated, SameGates
  <2>13. /\ bar.ts \in Int /\ bar.open \in Int /\ bar.low \in Int /\ bar.high \in Int
         /\ sig.low \in Int /\ sig.high \in Int /\ s.stop_current \in Int
    BY DEF Bars, Chain, Book
  <2>14. \A p \in Int : Neg(p) = -p /\ Neg(p) \in Int
    BY MirrorPrice DEF Price
  <2>15. OwnPriced(r, bar, c)
    <3> SUFFICES ASSUME NEW e \in Range(x.events)
                 PROVE  LET f == MirrorEvent(e) IN
                        /\ f.type \in {"FILLED", "STOPPED", "TIME_EXIT"} =>
                             f.level \in Int /\ bar.low <= f.level /\ f.level <= bar.high
                        /\ f.type \in Targets => f.price \in Int /\ bar.low <= f.price
                        /\ f.type = "FILLED" => sig.low <= f.level /\ f.level <= sig.high
      BY <1>2, <2>8, <2>13 DEF OwnPriced, Winning, Best
    <3>1. /\ e.type \in {"FILLED", "STOPPED", "TIME_EXIT"} =>
               e.level \in Int /\ mbar.low <= e.level /\ e.level <= mbar.high
          /\ e.type \in Targets => e.price \in Int /\ e.price <= mbar.high
          /\ e.type = "FILLED" => msig.low <= e.level /\ e.level <= msig.high
      BY <2>6 DEF Good, Priced
    <3>2. CASE e.type \in {"FILLED", "STOPPED", "TIME_EXIT"}
      <4>1. /\ e.level \in Int /\ mbar.low <= e.level /\ e.level <= mbar.high
            /\ Neg(e.level) = -e.level
        BY <2>14, <3>1, <3>2
      <4>2. e.type \notin Targets
        BY <3>2 DEF Targets
      <4> QED
        BY <2>2, <2>3, <2>10, <2>13, <3>1, <4>1, <4>2
    <3>3. CASE e.type \in Targets
      <4>1. e.price \in Int /\ e.price <= mbar.high /\ Neg(e.price) = -e.price
        BY <2>14, <3>1, <3>3
      <4>2. e.type \notin {"FILLED", "STOPPED", "TIME_EXIT"}
        BY <3>3 DEF Targets
      <4> QED
        BY <2>3, <2>10, <2>13, <4>1, <4>2
    <3> QED
      BY <2>10, <3>2, <3>3
  <2>16. OwnWorstCase(s, r, bar, c)
    <3> SUFFICES ASSUME s.status \in {"OPEN", "PARTIAL"}, s.stop_current <= bar.high
                 PROVE  /\ r.state.status = "CLOSED" /\ Range(r.events) # {}
                        /\ \A e \in Range(r.events) :
                             /\ e.type = "STOPPED" /\ e.price \in Int /\ s.stop_current <= e.price
                             /\ s.stop_current <= bar.open => bar.open <= e.price
      BY <1>2 DEF OwnWorstCase, Losing, Worst
    <3>1. t.status \in {"OPEN", "PARTIAL"} /\ mbar.low <= t.stop_current
      BY <2>3, <2>4, <2>13 DEF SameGates
    <3>2. /\ x.state.status = "CLOSED" /\ Range(x.events) # {}
          /\ \A e \in Range(x.events) :
               /\ e.type = "STOPPED" /\ e.price \in Int /\ e.price <= t.stop_current
               /\ mbar.open <= t.stop_current => e.price <= mbar.open
      BY <2>6, <3>1 DEF Good, WorstCase
    <3>3. \A e \in Range(x.events) :
            /\ MirrorEvent(e).type = "STOPPED" /\ MirrorEvent(e).price = -e.price
            /\ -e.price \in Int /\ s.stop_current <= -e.price
            /\ s.stop_current <= bar.open => bar.open <= -e.price
      BY <2>3, <2>4, <2>10, <2>13, <2>14, <3>2
    <3> QED
      BY <2>8, <2>9, <3>2, <3>3 DEF SameGates
  <2> QED
    BY <2>8, <2>9, <2>11, <2>12, <2>15, <2>16 DEF Stepped, r
<1> QED
  BY <1>1, <1>2

-----------------------------------------------------------------------------
(* What the ledger says of the entry. *)

GateTypes == {"FILLED", "TRIGGER_HIT"} \cup ZoneTypes

\* The gates speak at processed bars.
Dated(evs, s) ==
  \A e \in Range(evs) :
    e.type \in GateTypes => e.ts \in Int /\ s.last_bar_ts \in Int /\ e.ts <= s.last_bar_ts

\* A trigger that was hit has its event.
Triggered(evs, s) ==
  s.trigger_hit_at # None => \E e \in Range(evs) : e.type = "TRIGGER_HIT" /\ e.ts = s.trigger_hit_at

\* A pending order has no fill.
Unfilled(evs, s) == s.status = "PENDING" => \A e \in Range(evs) : e.type # "FILLED"

\* Every loss of a zone that is not lost was made good.
Reclaimed(evs, s) ==
  ~s.zone_lost =>
    \A lost \in Range(evs) : lost.type = "ZONE_LOST" =>
      \E back \in Range(evs) : back.type = "ZONE_RECLAIMED" /\ lost.ts <= back.ts

\* A fill has the trigger behind it, and no zone still lost.
Entered(evs, c) ==
  \A fill \in Range(evs) : fill.type = "FILLED" =>
    /\ c.signal.trigger # None => \E hit \in Range(evs) : hit.type = "TRIGGER_HIT" /\ hit.ts < fill.ts
    /\ \A lost \in Range(evs) : lost.type = "ZONE_LOST" =>
         \E back \in Range(evs) : /\ back.type = "ZONE_RECLAIMED"
                                  /\ lost.ts <= back.ts /\ back.ts < fill.ts

EntryBacked(evs, s, c) ==
  /\ Dated(evs, s) /\ Triggered(evs, s) /\ Unfilled(evs, s)
  /\ Reclaimed(evs, s) /\ Entered(evs, c)

(***************************************************************************)
(* A bar keeps what the ledger says of the entry.                          *)
(***************************************************************************)
LEMMA BarKeepsEntry ==
  ASSUME NEW c, NEW s, NEW evs, NEW r, NEW bar, bar.ts \in Int,
         EntryBacked(evs, s, c), Book(s, c), Book(r.state, c),
         Gated(s, r, bar, c.signal), Moved(s, r.state), r.state.last_bar_ts = bar.ts,
         s.last_bar_ts \in Int => s.last_bar_ts < bar.ts,
         NEW all, Range(all) = Range(evs) \cup Range(r.events)
  PROVE  EntryBacked(all, r.state, c)
<1>1. \A e \in Range(evs) :
        e.type \in GateTypes => /\ e.ts \in Int /\ s.last_bar_ts \in Int
                                /\ e.ts <= s.last_bar_ts /\ e.ts < bar.ts
  BY DEF EntryBacked, Dated
<1>2. \A e \in Range(r.events) : e.type \in GateTypes => e.ts = bar.ts /\ s.status = "PENDING"
  BY DEF Gated, GateTypes
<1>3. Dated(all, r.state)
  BY <1>1, <1>2 DEF Dated
<1>4. Triggered(all, r.state)
  <2>1. CASE r.state.trigger_hit_at = s.trigger_hit_at
    BY <2>1 DEF EntryBacked, Triggered
  <2>2. CASE r.state.trigger_hit_at = bar.ts /\ Has(r, "TRIGGER_HIT")
    BY <1>2, <2>2 DEF Triggered, Has, GateTypes
  <2> QED
    BY <2>1, <2>2 DEF Gated
<1>5. Unfilled(all, r.state)
  <2> SUFFICES ASSUME r.state.status = "PENDING" PROVE \A e \in Range(all) : e.type # "FILLED"
    BY DEF Unfilled
  <2>1. s.status = "PENDING" /\ ~Has(r, "FILLED")
    BY DEF Moved, Gated
  <2> QED
    BY <2>1 DEF EntryBacked, Unfilled, Has
<1>6. Reclaimed(all, r.state)
  <2> SUFFICES ASSUME ~r.state.zone_lost, NEW lost \in Range(all), lost.type = "ZONE_LOST"
               PROVE  \E back \in Range(all) : back.type = "ZONE_RECLAIMED" /\ lost.ts <= back.ts
    BY DEF Reclaimed
  <2>1. CASE s.zone_lost \/ Has(r, "ZONE_LOST")
    <3>1. PICK back \in Range(r.events) : back.type = "ZONE_RECLAIMED"
      BY <2>1 DEF Gated, Has
    <3>2. back.ts = bar.ts
      BY <1>2, <3>1 DEF GateTypes, ZoneTypes
    <3>3. lost.ts \in Int /\ lost.ts <= bar.ts
      BY <1>1, <1>2 DEF GateTypes, ZoneTypes
    <3> QED
      BY <3>1, <3>2, <3>3
  <2>2. CASE ~(s.zone_lost \/ Has(r, "ZONE_LOST"))
    <3>1. lost \in Range(evs)
      BY <2>2 DEF Has
    <3>2. \E back \in Range(evs) : back.type = "ZONE_RECLAIMED" /\ lost.ts <= back.ts
      BY <2>2, <3>1 DEF EntryBacked, Reclaimed
    <3> QED
      BY <3>2
  <2> QED
    BY <2>1, <2>2
<1>7. Entered(all, c)
  <2> SUFFICES ASSUME NEW fill \in Range(all), fill.type = "FILLED"
               PROVE  /\ c.signal.trigger # None =>
                           \E hit \in Range(all) : hit.type = "TRIGGER_HIT" /\ hit.ts < fill.ts
                      /\ \A lost \in Range(all) : lost.type = "ZONE_LOST" =>
                           \E back \in Range(all) : /\ back.type = "ZONE_RECLAIMED"
                                                    /\ lost.ts <= back.ts /\ back.ts < fill.ts
    BY DEF Entered
  <2>1. CASE fill \in Range(evs)
    <3>1. s.status # "PENDING"
      BY <2>1 DEF EntryBacked, Unfilled
    <3>2. \A e \in Range(all) : e.type = "ZONE_LOST" => e \in Range(evs)
      BY <1>2, <3>1 DEF GateTypes, ZoneTypes
    <3>3. /\ c.signal.trigger # None =>
               \E hit \in Range(evs) : hit.type = "TRIGGER_HIT" /\ hit.ts < fill.ts
          /\ \A lost \in Range(evs) : lost.type = "ZONE_LOST" =>
               \E back \in Range(evs) : /\ back.type = "ZONE_RECLAIMED"
                                        /\ lost.ts <= back.ts /\ back.ts < fill.ts
      BY <2>1 DEF EntryBacked, Entered
    <3> QED
      BY <3>2, <3>3
  <2>2. CASE fill \in Range(r.events)
    <3>1. Has(r, "FILLED") /\ fill.ts = bar.ts
      BY <1>2, <2>2 DEF Has, GateTypes
    <3>2. /\ ~s.zone_lost /\ (c.signal.trigger # None => s.trigger_hit_at # None)
          /\ \A e \in Range(r.events) : e.type \notin ZoneTypes
      BY <3>1 DEF Gated
    <3>3. ASSUME c.signal.trigger # None
          PROVE  \E hit \in Range(all) : hit.type = "TRIGGER_HIT" /\ hit.ts < fill.ts
      <4>1. PICK hit \in Range(evs) : hit.type = "TRIGGER_HIT" /\ hit.ts = s.trigger_hit_at
        BY <3>2, <3>3 DEF EntryBacked, Triggered
      <4>2. hit.ts < bar.ts
        BY <1>1, <4>1 DEF GateTypes
      <4> QED
        BY <3>1, <4>1, <4>2
    <3>4. ASSUME NEW lost \in Range(all), lost.type = "ZONE_LOST"
          PROVE  \E back \in Range(all) : /\ back.type = "ZONE_RECLAIMED"
                                          /\ lost.ts <= back.ts /\ back.ts < fill.ts
      <4>1. lost \in Range(evs)
        BY <3>2, <3>4 DEF ZoneTypes
      <4>2. PICK back \in Range(evs) : back.type = "ZONE_RECLAIMED" /\ lost.ts <= back.ts
        BY <3>2, <3>4, <4>1 DEF EntryBacked, Reclaimed
      <4>3. back.ts < bar.ts
        BY <1>1, <4>2 DEF GateTypes, ZoneTypes
      <4> QED
        BY <3>1, <4>2, <4>3
    <3> QED
      BY <3>3, <3>4
  <2> QED
    BY <2>1, <2>2
<1> QED
  BY <1>3, <1>4, <1>5, <1>6, <1>7 DEF EntryBacked

(***************************************************************************)
(* So does a command: it says nothing of the entry.                        *)
(***************************************************************************)
LEMMA CommandKeepsEntry ==
  ASSUME NEW c, NEW s, NEW evs, NEW r, EntryBacked(evs, s, c),
         \A e \in Range(r.events) : e.type \notin GateTypes,
         r.state.zone_lost = s.zone_lost, r.state.trigger_hit_at = s.trigger_hit_at,
         r.state.last_bar_ts = s.last_bar_ts, r.state.status = "PENDING" => s.status = "PENDING",
         NEW all, Range(all) = Range(evs) \cup Range(r.events)
  PROVE  EntryBacked(all, r.state, c)
<1>1. \A e \in Range(all) : e.type \in GateTypes => e \in Range(evs)
  OBVIOUS
<1>2. "FILLED" \in GateTypes /\ "ZONE_LOST" \in GateTypes
  BY DEF GateTypes, ZoneTypes
<1>3. Dated(all, r.state) /\ Triggered(all, r.state)
  BY <1>1 DEF EntryBacked, Dated, Triggered
<1>4. Unfilled(all, r.state) /\ Reclaimed(all, r.state)
  BY <1>1, <1>2 DEF EntryBacked, Unfilled, Reclaimed
<1>5. Entered(all, c)
  BY <1>1, <1>2 DEF EntryBacked, Entered
<1> QED
  BY <1>3, <1>4, <1>5 DEF EntryBacked

-----------------------------------------------------------------------------
(* The commands. *)

\* What the commands and the end of validity write, never a bar's gates or targets.
CommandTypes == {"CANCELED", "FROZEN", "NEEDS_REVIEW", "DIVIDEND", "EXPIRED", "TIME_EXIT"}

SameHolding(s, t) == t.qty_open = s.qty_open /\ t.qty_total = s.qty_total

\* The moves of design 3.5 that a command can make.
Decided(s, t) ==
  \/ /\ t.status = s.status /\ SameHolding(s, t)
     /\ t.frozen_reasons = s.frozen_reasons \/ (~IsFinal(s) /\ t.frozen_reasons # {})
  \/ /\ ~IsFinal(s) /\ t.status = "CANCELED" /\ SameHolding(s, t)
     /\ t.frozen_reasons = s.frozen_reasons
  \/ /\ ~Frozen(s) /\ t.frozen_reasons = s.frozen_reasons
     /\ \/ s.status = "PENDING" /\ t.status = "EXPIRED"
        \/ s.status \in {"OPEN", "PARTIAL"} /\ t.status = "CLOSED"

\* A command leaves the bars and the gates alone; only a time exit has a price.
Commanded(s, r, bar, c) ==
  /\ Proper(r) /\ Book(r.state, c) /\ Decided(s, r.state)
  /\ r.state.zone_lost = s.zone_lost /\ r.state.trigger_hit_at = s.trigger_hit_at
  /\ r.state.stop_active_from = s.stop_active_from /\ r.state.last_bar_ts = s.last_bar_ts
  /\ \A e \in Range(r.events) :
       /\ e.type \in CommandTypes
       /\ e.type = "TIME_EXIT" => bar # None /\ s.status # "PENDING" /\ e.level = bar.close

(***************************************************************************)
(* A command that changes nothing is a command.                            *)
(***************************************************************************)
LEMMA NothingCommanded ==
  ASSUME NEW c, NEW s, Book(s, c), NEW bar
  PROVE  Commanded(s, Unchanged(s), bar, c)
<1>1. Proper(Unchanged(s)) /\ Unchanged(s).state = s /\ Range(Unchanged(s).events) = {}
  BY NoEvents
<1> QED
  BY <1>1 DEF Commanded, Decided, SameHolding

\* Marked for a review, and nothing else.
Flagged(s, r, bar, c) ==
  /\ Commanded(s, r, bar, c) /\ r.state.status = s.status
  /\ r.state.frozen_reasons = s.frozen_reasons /\ SameHolding(s, r.state)
  /\ \A e \in Range(r.events) : e.type = "NEEDS_REVIEW"

(***************************************************************************)
(* flag_review only marks the order.                                       *)
(***************************************************************************)
LEMMA FlagResult ==
  ASSUME NEW c, NEW s, Book(s, c), NEW reason, NEW ref, NEW bar
  PROVE  Flagged(s, FlagReview(s, reason, ref), bar, c)
<1> DEFINE r == FlagReview(s, reason, ref)
           t == [s EXCEPT !.review_reasons = @ \cup {reason}]
           e == [Event("NEEDS_REVIEW", None) EXCEPT !.reason = reason, !.level = ref]
<1>1. r = StepResult(t, <<e>>)
  BY DEF FlagReview
<1>2. /\ Shape(t) /\ t.status = s.status /\ t.zone_lost = s.zone_lost /\ t.qty_open = s.qty_open
      /\ t.trigger_hit_at = s.trigger_hit_at /\ t.frozen_reasons = s.frozen_reasons
      /\ t.stop_active_from = s.stop_active_from /\ t.t1_done = s.t1_done
      /\ t.qty_total = s.qty_total /\ t.stop_current = s.stop_current
      /\ t.avg_entry = s.avg_entry /\ t.last_bar_ts = s.last_bar_ts
  BY DEF Book, Shape
<1>3. Entry(e) /\ e.type = "NEEDS_REVIEW"
  BY DEF Event, Entry
<1> HIDE DEF t, e, r
<1>4. Book(t, c)
  BY <1>2 DEF Book
<1>5. Proper(r) /\ r.state = t /\ Range(r.events) = {e}
  BY <1>1, <1>3, FewEvents
<1> QED
  BY <1>2, <1>3, <1>4, <1>5 DEF Flagged, Commanded, Decided, SameHolding, CommandTypes, r

(***************************************************************************)
(* cancel: a final order stays what it is.                                 *)
(***************************************************************************)
LEMMA CancelResult ==
  ASSUME NEW c, NEW s, Book(s, c), NEW at, NEW bar
  PROVE  Commanded(s, Cancel(s, at), bar, c)
<1>1. CASE IsFinal(s)
  BY <1>1, NothingCommanded DEF Cancel
<1>2. CASE ~IsFinal(s)
  <2> DEFINE r == Cancel(s, at)
             t == [s EXCEPT !.status = "CANCELED", !.final_event_ts = at]
             e == [Event("CANCELED", None) EXCEPT !.level = at]
  <2>1. r = StepResult(t, <<e>>)
    BY <1>2 DEF Cancel
  <2>2. /\ Shape(t) /\ t.status = "CANCELED" /\ t.zone_lost = s.zone_lost
        /\ t.trigger_hit_at = s.trigger_hit_at /\ t.frozen_reasons = s.frozen_reasons
        /\ t.stop_active_from = s.stop_active_from /\ t.t1_done = s.t1_done
        /\ t.qty_total = s.qty_total /\ t.qty_open = s.qty_open
        /\ t.stop_current = s.stop_current /\ t.last_bar_ts = s.last_bar_ts
    BY DEF Book, Shape
  <2>3. Entry(e) /\ e.type = "CANCELED"
    BY DEF Event, Entry
  <2> HIDE DEF t, e, r
  <2>4. Book(t, c)
    BY <2>2 DEF Book, Statuses
  <2>5. Proper(r) /\ r.state = t /\ Range(r.events) = {e}
    BY <2>1, <2>3, FewEvents
  <2> QED
    BY <1>2, <2>2, <2>3, <2>4, <2>5 DEF Commanded, Decided, SameHolding, CommandTypes, r
<1> QED
  BY <1>1, <1>2

(***************************************************************************)
(* freeze: an order that is not final leaves the market, holding what it   *)
(* holds.                                                                  *)
(***************************************************************************)
LEMMA FreezeResult ==
  ASSUME NEW c, NEW s, Book(s, c), NEW reason, NEW ref, NEW bar
  PROVE  Commanded(s, Freeze(s, reason, ref), bar, c)
<1>1. CASE IsFinal(s) \/ reason \in s.frozen_reasons
  BY <1>1, NothingCommanded DEF Freeze
<1>2. CASE ~(IsFinal(s) \/ reason \in s.frozen_reasons)
  <2> DEFINE r == Freeze(s, reason, ref)
             t == [s EXCEPT !.frozen_reasons = @ \cup {reason}]
             e == [Event("FROZEN", None) EXCEPT !.reason = reason, !.level = ref]
             flag == FlagReview(t, reason, ref)
  <2>1. r = After(<<e>>, flag)
    BY <1>2 DEF Freeze
  <2>2. /\ Shape(t) /\ t.status = s.status /\ t.zone_lost = s.zone_lost
        /\ t.trigger_hit_at = s.trigger_hit_at /\ t.frozen_reasons = s.frozen_reasons \cup {reason}
        /\ t.stop_active_from = s.stop_active_from /\ t.t1_done = s.t1_done
        /\ t.qty_total = s.qty_total /\ t.qty_open = s.qty_open /\ t.avg_entry = s.avg_entry
        /\ t.stop_current = s.stop_current /\ t.last_bar_ts = s.last_bar_ts
    BY DEF Book, Shape
  <2>3. Entry(e) /\ e.type = "FROZEN"
    BY DEF Event, Entry
  <2> HIDE DEF t, e, r
  <2>4. Range(<<e>>) = {e} /\ <<e>> \in Seq({e})
    BY DEF Range
  <2>5. Book(t, c)
    BY <2>2 DEF Book
  <2>6. Flagged(t, flag, bar, c)
    BY <2>5, FlagResult
  <2>7. /\ Commanded(t, flag, bar, c) /\ flag.state.status = t.status
        /\ flag.state.frozen_reasons = t.frozen_reasons /\ SameHolding(t, flag.state)
        /\ \A f \in Range(flag.events) : f.type = "NEEDS_REVIEW"
    BY <2>6 DEF Flagged
  <2> HIDE DEF flag
  <2>8. Log(<<e>>) /\ Proper(flag)
    BY <2>3, <2>4, <2>7 DEF Log, Commanded
  <2>9. Proper(r) /\ r.state = flag.state /\ Range(r.events) = {e} \cup Range(flag.events)
    BY <2>1, <2>4, <2>8, AfterEvents
  <2>10. Decided(s, r.state)
    BY <1>2, <2>2, <2>7, <2>9 DEF Decided, SameHolding
  <2> QED
    BY <2>2, <2>3, <2>7, <2>9, <2>10 DEF Commanded, CommandTypes, r
<1> QED
  BY <1>1, <1>2

(***************************************************************************)
(* apply_dividend credits cash and nothing else.                           *)
(***************************************************************************)
LEMMA DividendResult ==
  ASSUME NEW c, NEW s, Book(s, c), NEW exDate, NEW amount, NEW validated, NEW bar
  PROVE  Commanded(s, ApplyDividend(s, c, exDate, amount, validated), bar, c)
<1> DEFINE r == ApplyDividend(s, c, exDate, amount, validated)
           cash == (IF c.signal.direction = "LONG" THEN amount ELSE -amount) * s.qty_open
           t == [s EXCEPT !.dividends = @ + cash]
           e == [Event("DIVIDEND", None) EXCEPT !.level = amount, !.qty = s.qty_open, !.pnl = cash]
           idle == IsFinal(s) \/ Frozen(s) \/ s.qty_open <= 0
<1>1. r = IF idle THEN Unchanged(s)
          ELSE IF ~validated THEN FlagReview(s, "DIVIDEND_UNVERIFIED", exDate)
          ELSE StepResult(t, <<e>>)
  BY DEF ApplyDividend
<1> HIDE DEF cash
<1>2. /\ Shape(t) /\ t.status = s.status /\ t.zone_lost = s.zone_lost /\ t.qty_open = s.qty_open
      /\ t.trigger_hit_at = s.trigger_hit_at /\ t.frozen_reasons = s.frozen_reasons
      /\ t.stop_active_from = s.stop_active_from /\ t.t1_done = s.t1_done
      /\ t.qty_total = s.qty_total /\ t.stop_current = s.stop_current
      /\ t.avg_entry = s.avg_entry /\ t.last_bar_ts = s.last_bar_ts
  BY DEF Book, Shape
<1>3. Entry(e) /\ e.type = "DIVIDEND"
  BY DEF Event, Entry
<1> HIDE DEF t, e, r, idle
<1>4. Book(t, c)
  BY <1>2 DEF Book
<1>5. CASE idle
  BY <1>1, <1>5, NothingCommanded DEF r
<1>6. CASE ~idle /\ ~validated
  <2>1. Flagged(s, FlagReview(s, "DIVIDEND_UNVERIFIED", exDate), bar, c)
    BY FlagResult
  <2> QED
    BY <1>1, <1>6, <2>1 DEF Flagged, r
<1>7. CASE ~idle /\ validated
  <2>1. r = StepResult(t, <<e>>)
    BY <1>1, <1>7
  <2>2. Proper(r) /\ r.state = t /\ Range(r.events) = {e}
    BY <2>1, <1>3, FewEvents
  <2> QED
    BY <1>2, <1>3, <1>4, <2>2 DEF Commanded, Decided, SameHolding, CommandTypes, r
<1> QED
  BY <1>5, <1>6, <1>7

(***************************************************************************)
(* apply_validity_end: a time exit at the close of the last processed bar, *)
(* in the order's own direction, or a mark for a review.                   *)
(***************************************************************************)
LEMMA FinalizeResult ==
  ASSUME NEW c, NEW s, Book(s, c), NEW bar, bar # None => bar \in Bars
  PROVE  Commanded(s, ApplyValidityEnd(s, c, bar), bar, c)
<1> DEFINE r == ApplyValidityEnd(s, c, bar)
           direct == ValidityEnd(s, bar, c)
           mirrored == MirrorResult(ValidityEnd(MirrorState(s), MirrorBar(bar), c))
           ended == IF c.signal.direction = "LONG" THEN direct ELSE mirrored
           flag == FlagReview(ended.state, "STALE_EXIT_BAR", c.until)
           none == FlagReview(s, "NO_EXIT_BAR", c.until)
<1>1. r = IF IsFinal(s) \/ Frozen(s) THEN Unchanged(s)
          ELSE IF s.status = "PENDING" THEN direct
          ELSE IF bar = None THEN none
          ELSE IF IsLastBar(bar, c) THEN ended
          ELSE After(ended.events, flag)
  BY DEF ApplyValidityEnd
<1>2. CASE IsFinal(s) \/ Frozen(s)
  BY <1>1, <1>2, NothingCommanded
<1>3. ASSUME ~(IsFinal(s) \/ Frozen(s)) PROVE s.status \in {"PENDING", "OPEN", "PARTIAL"}
  BY <1>3 DEF IsFinal, FinalStatuses, Book, Statuses
<1>4. CASE ~(IsFinal(s) \/ Frozen(s)) /\ s.status = "PENDING"
  <2>1. Ended(s, direct, bar, c)
    BY <1>4, ValidityEndResult
  <2>2. r = direct
    BY <1>1, <1>4
  <2> HIDE DEF direct, r
  <2>3. \A e \in Range(direct.events) : e.type = "EXPIRED"
    <3>1. direct = StepResult(direct.state, <<Event("EXPIRED", None)>>)
      BY <1>4 DEF direct, ValidityEnd, StepResult
    <3>2. Entry(Event("EXPIRED", None)) /\ Event("EXPIRED", None).type = "EXPIRED"
      BY DEF Entry, Event
    <3> DEFINE e == Event("EXPIRED", None)
               t == direct.state
    <3> HIDE DEF e, t
    <3>3. Range(StepResult(t, <<e>>).events) = {e}
      BY <3>2, FewEvents DEF e
    <3> QED
      BY <3>1, <3>2, <3>3 DEF e, t
  <2> QED
    BY <1>4, <2>1, <2>2, <2>3 DEF Ended, Commanded, Decided, CommandTypes, r
<1>5. CASE ~(IsFinal(s) \/ Frozen(s)) /\ s.status # "PENDING" /\ bar = None
  <2>1. Flagged(s, none, bar, c)
    BY FlagResult
  <2> QED
    BY <1>1, <1>5, <2>1 DEF Flagged
<1>6. CASE ~(IsFinal(s) \/ Frozen(s)) /\ s.status # "PENDING" /\ bar # None
  <2>1. s.status \in {"OPEN", "PARTIAL"} /\ bar \in Bars
    BY <1>3, <1>6
  <2>2. /\ Proper(ended) /\ Book(ended.state, c) /\ ended.state.status = "CLOSED"
        /\ ended.state.zone_lost = s.zone_lost /\ ended.state.trigger_hit_at = s.trigger_hit_at
        /\ ended.state.frozen_reasons = s.frozen_reasons
        /\ ended.state.stop_active_from = s.stop_active_from
        /\ ended.state.last_bar_ts = s.last_bar_ts
        /\ \A e \in Range(ended.events) :
             e.type \in CommandTypes /\ (e.type = "TIME_EXIT" => e.level = bar.close)
    <3>1. CASE c.signal.direction = "LONG"
      <4>1. Ended(s, direct, bar, c)
        BY <2>1, ValidityEndResult
      <4>2. ended = direct
        BY <3>1
      <4> HIDE DEF direct, ended
      <4> QED
        BY <2>1, <4>1, <4>2 DEF Ended, CommandTypes
    <3>2. CASE c.signal.direction # "LONG"
      <4> DEFINE t == MirrorState(s)
                 mbar == MirrorBar(bar)
                 x == ValidityEnd(t, mbar, c)
      <4>1. mbar.close = -bar.close /\ bar.close \in Int
        BY <2>1, MirrorBarIsBar DEF Bars
      <4>2. Book(t, c) /\ SameGates(s, t)
        BY MirrorStateKeeps
      <4>3. ended = MirrorResult(x)
        BY <3>2
      <4> HIDE DEF t, mbar, ended
      <4>4. t.status \in {"PENDING", "OPEN", "PARTIAL"}
        BY <2>1, <4>2 DEF SameGates
      <4>5. Ended(t, x, mbar, c)
        BY <4>2, <4>4, ValidityEndResult
      <4> HIDE DEF x
      <4>6. Proper(x) /\ Book(x.state, c)
        BY <4>5 DEF Ended
      <4>7. /\ Proper(ended) /\ ended.state = MirrorState(x.state)
            /\ Range(ended.events) = {MirrorEvent(e) : e \in Range(x.events)}
        BY <4>3, <4>6, MirrorResultKeeps
      <4>8. Book(ended.state, c) /\ SameGates(x.state, ended.state)
        BY <4>6, <4>7, MirrorStateKeeps
      <4>9. \A e \in Range(x.events) :
              MirrorEvent(e).type = e.type /\ MirrorEvent(e).level = Neg(e.level)
        BY <4>6, MirrorEventKeeps DEF Proper, Log
      <4>10. Neg(-bar.close) = bar.close
        BY <4>1, MirrorPrice DEF Price
      <4>11. \A e \in Range(x.events) :
               \/ MirrorEvent(e).type = "EXPIRED"
               \/ MirrorEvent(e).type = "TIME_EXIT" /\ MirrorEvent(e).level = bar.close
        BY <4>1, <4>5, <4>9, <4>10 DEF Ended
      <4> QED
        BY <2>1, <4>2, <4>5, <4>7, <4>8, <4>11 DEF Ended, SameGates, CommandTypes
    <3> QED
      BY <3>1, <3>2
  <2> HIDE DEF ended, r
  <2>3. CASE IsLastBar(bar, c)
    <3>1. r = ended
      BY <1>1, <1>6, <2>3
    <3> QED
      BY <1>6, <2>1, <2>2, <3>1 DEF Commanded, Decided, r
  <2>4. CASE ~IsLastBar(bar, c)
    <3>1. r = After(ended.events, flag) /\ Log(ended.events)
      BY <1>1, <1>6, <2>2, <2>4 DEF Proper
    <3>2. Flagged(ended.state, flag, bar, c)
      BY <2>2, FlagResult
    <3> HIDE DEF flag
    <3>3. /\ Commanded(ended.state, flag, bar, c) /\ flag.state.status = ended.state.status
          /\ flag.state.frozen_reasons = ended.state.frozen_reasons
          /\ \A e \in Range(flag.events) : e.type = "NEEDS_REVIEW"
      BY <3>2 DEF Flagged
    <3>4. Proper(flag)
      BY <3>3 DEF Commanded
    <3>5. Proper(r) /\ r.state = flag.state /\ Range(r.events) = Range(ended.events) \cup Range(flag.events)
      BY <3>1, <3>4, AfterEvents
    <3>6. Decided(s, r.state)
      BY <1>6, <2>1, <2>2, <3>3, <3>5 DEF Decided
    <3>7. \A e \in Range(r.events) :
            e.type \in CommandTypes /\ (e.type = "TIME_EXIT" => e.level = bar.close)
      BY <2>2, <3>3, <3>5 DEF CommandTypes
    <3> QED
      BY <1>6, <2>2, <3>3, <3>5, <3>6, <3>7 DEF Commanded, r
  <2> QED
    BY <2>3, <2>4
<1> QED
  BY <1>2, <1>4, <1>5, <1>6

-----------------------------------------------------------------------------
(* The sums of a log. *)

Plus(p, x, sum) == x + sum
FieldAt(p, i) == p.evs[i][p.field]
AnyOf(p, s) == CHOOSE x \in s : TRUE
Whole(p, s, sum) == sum \in Int

Adding == INSTANCE FoldProofs WITH Apply <- Plus, Item <- FieldAt, Pick <- AnyOf, Holds <- Whole

\* What the events of some types have in a field, altogether.
Column(evs, field) == [evs |-> evs, field |-> field]
Chosen(evs, types) == {i \in DOMAIN evs : evs[i].type \in types}
Tally(evs, types, field) == Adding!Fold(Column(evs, field), 0, Chosen(evs, types))

(***************************************************************************)
(* A finite set is finite for the instance of FoldProofs.                  *)
(***************************************************************************)
LEMMA Finite ==
  ASSUME NEW S, IsFiniteSet(S)
  PROVE  Adding!IsFiniteSet(S)
BY DEF IsFiniteSet, Adding!IsFiniteSet

(***************************************************************************)
(* MapThenSumSet takes any element of a set that has one.                  *)
(***************************************************************************)
LEMMA AnyPicks ==
  ASSUME NEW p, NEW S
  PROVE  Adding!Picks(p, S)
BY DEF Adding!Picks, AnyOf

\* p has an integer at every index of S.
Integral(p, S) == \A i \in S : FieldAt(p, i) \in Int

(***************************************************************************)
(* A sum of integers is an integer.                                        *)
(***************************************************************************)
LEMMA AddingType ==
  ASSUME NEW p, NEW S, IsFiniteSet(S), Integral(p, S)
  PROVE  Adding!Fold(p, 0, S) \in Int
<1>1. Adding!Picks(p, S)
  BY AnyPicks
<1>2. Whole(p, {}, 0)
  BY DEF Whole
<1>3. \A s \in SUBSET S : s # {} =>
        \A acc : Whole(p, s \ {AnyOf(p, s)}, acc) => Whole(p, s, Plus(p, FieldAt(p, AnyOf(p, s)), acc))
  <2>1. \A s \in SUBSET S : s # {} => FieldAt(p, AnyOf(p, s)) \in Int
    BY DEF AnyOf, Integral
  <2> QED
    BY <2>1 DEF Whole, Plus
<1>4. Whole(p, S, Adding!Fold(p, 0, S))
  BY <1>1, <1>2, <1>3, Finite, Adding!FoldHolds
<1> QED
  BY <1>4 DEF Whole

(***************************************************************************)
(* A sum is one of its summands and the sum of the rest.                   *)
(***************************************************************************)
LEMMA AddingStep ==
  ASSUME NEW p, NEW S, IsFiniteSet(S), S # {}
  PROVE  \E c \in S : Adding!Fold(p, 0, S) = FieldAt(p, c) + Adding!Fold(p, 0, S \ {c})
<1>1. Adding!Picks(p, S) /\ AnyOf(p, S) \in S
  BY AnyPicks DEF AnyOf
<1>2. Adding!Fold(p, 0, S) = Plus(p, FieldAt(p, AnyOf(p, S)), Adding!Fold(p, 0, S \ {AnyOf(p, S)}))
  BY <1>1, Finite, Adding!FoldStep
<1> QED
  BY <1>1, <1>2 DEF Plus

(***************************************************************************)
(* The sum of nothing is 0.                                                *)
(***************************************************************************)
LEMMA AddingNothing ==
  ASSUME NEW p
  PROVE  Adding!Fold(p, 0, {}) = 0
<1>1. Adding!Picks(p, {}) /\ IsFiniteSet({})
  BY AnyPicks, FS_EmptySet
<1> QED
  BY <1>1, Finite, Adding!FoldStep

\* The sum is the same in any order.
Removes(p, S) ==
  \A x \in S : Adding!Fold(p, 0, S) = FieldAt(p, x) + Adding!Fold(p, 0, S \ {x})

(***************************************************************************)
(* Any summand can be taken out first: by the least size of a set for      *)
(* which one cannot.                                                       *)
(***************************************************************************)
LEMMA AddingRemove ==
  ASSUME NEW p, NEW S, IsFiniteSet(S), Integral(p, S)
  PROVE  Removes(p, S)
<1> DEFINE Bad == {n \in Nat : \E s \in SUBSET S : Cardinality(s) = n /\ ~Removes(p, s)}
<1>1. SUFFICES ASSUME Bad # {} PROVE FALSE
  BY FS_CardinalityType
<1>2. PICK n \in Bad : \A m \in Bad : n <= m
  BY <1>1, Least
<1>3. PICK s \in SUBSET S : Cardinality(s) = n /\ ~Removes(p, s)
  BY <1>2
<1>4. IsFiniteSet(s) /\ n \in Nat
  BY <1>2, FS_Subset
<1>5. PICK x \in s : Adding!Fold(p, 0, s) # FieldAt(p, x) + Adding!Fold(p, 0, s \ {x})
  BY <1>3 DEF Removes
<1>6. PICK c \in s : Adding!Fold(p, 0, s) = FieldAt(p, c) + Adding!Fold(p, 0, s \ {c})
  BY <1>4, <1>5, AddingStep
<1>7. c # x
  BY <1>5, <1>6
<1>8. \A y \in s : Removes(p, s \ {y})
  <2> HIDE DEF Bad
  <2>1. SUFFICES ASSUME NEW y \in s PROVE Removes(p, s \ {y})
    OBVIOUS
  <2>2. Cardinality(s \ {y}) = n - 1 /\ n # 0
    BY <1>3, <1>4, FS_RemoveElement, FS_EmptySet
  <2>3. n - 1 \in Nat /\ n - 1 \notin Bad
    BY <1>2, <1>4, <2>2
  <2> QED
    BY <2>2, <2>3 DEF Bad
<1>9. Adding!Fold(p, 0, s \ {c}) = FieldAt(p, x) + Adding!Fold(p, 0, (s \ {c}) \ {x})
  BY <1>7, <1>8 DEF Removes
<1>10. Adding!Fold(p, 0, s \ {x}) = FieldAt(p, c) + Adding!Fold(p, 0, (s \ {x}) \ {c})
  BY <1>7, <1>8 DEF Removes
<1>11. (s \ {c}) \ {x} = (s \ {x}) \ {c}
  OBVIOUS
<1>12. Adding!Fold(p, 0, (s \ {c}) \ {x}) \in Int
  <2>1. IsFiniteSet((s \ {c}) \ {x}) /\ Integral(p, (s \ {c}) \ {x})
    BY <1>4, FS_Subset DEF Integral
  <2> QED
    BY <2>1, AddingType
<1>13. FieldAt(p, x) \in Int /\ FieldAt(p, c) \in Int
  BY DEF Integral
<1> QED
  BY <1>5, <1>6, <1>9, <1>10, <1>11, <1>12, <1>13

-----------------------------------------------------------------------------

\* The field is an integer wherever it is added.
Counts(evs, types, field) ==
  /\ evs \in Seq(Range(evs))
  /\ \A e \in Range(evs) : e.type \in types => e[field] \in Int

(***************************************************************************)
(* A log has finitely many events of a type.                               *)
(***************************************************************************)
LEMMA ChosenFinite ==
  ASSUME NEW evs, evs \in Seq(Range(evs)), NEW types
  PROVE  IsFiniteSet(Chosen(evs, types))
<1>1. DOMAIN evs = 1..Len(evs) /\ Len(evs) \in Nat
  OBVIOUS
<1>2. Chosen(evs, types) \in SUBSET (1..Len(evs))
  BY <1>1 DEF Chosen
<1>3. IsFiniteSet(1..Len(evs))
  BY <1>1, FS_Interval
<1> QED
  BY <1>2, <1>3, FS_Subset

(***************************************************************************)
(* A tally is an integer.                                                  *)
(***************************************************************************)
LEMMA TallyType ==
  ASSUME NEW evs, NEW types, NEW field, Counts(evs, types, field)
  PROVE  Tally(evs, types, field) \in Int
<1>1. IsFiniteSet(Chosen(evs, types))
  BY ChosenFinite DEF Counts
<1>2. Integral(Column(evs, field), Chosen(evs, types))
  BY DEF Integral, Column, FieldAt, Chosen, Counts, Range
<1> QED
  BY <1>1, <1>2, AddingType DEF Tally

(***************************************************************************)
(* A tally reads no other field of the events than its own.                *)
(***************************************************************************)
LEMMA TallySame ==
  ASSUME NEW evs, evs \in Seq(Range(evs)), NEW more, NEW types, NEW field,
         NEW S, S \in SUBSET Chosen(evs, types), \A i \in S : evs[i][field] = more[i][field]
  PROVE  Adding!Fold(Column(evs, field), 0, S) = Adding!Fold(Column(more, field), 0, S)
<1> DEFINE p == Column(evs, field)
           q == Column(more, field)
<1>1. IsFiniteSet(S) /\ Adding!Picks(p, S)
  BY ChosenFinite, AnyPicks, FS_Subset
<1>2. ASSUME NEW s \in SUBSET S, s # {}
      PROVE  /\ AnyOf(p, s) = AnyOf(q, s)
             /\ \A sum : Plus(p, FieldAt(p, AnyOf(p, s)), sum) = Plus(q, FieldAt(q, AnyOf(p, s)), sum)
  <2>1. AnyOf(p, s) = AnyOf(q, s) /\ AnyOf(p, s) \in S
    BY <1>2 DEF AnyOf
  <2>2. FieldAt(p, AnyOf(p, s)) = FieldAt(q, AnyOf(p, s))
    BY <2>1 DEF FieldAt, Column
  <2> QED
    BY <2>1, <2>2 DEF Plus
<1> QED
  BY <1>1, <1>2, Finite, Adding!FoldSame

(***************************************************************************)
(* The tally of an empty log is 0.                                         *)
(***************************************************************************)
LEMMA TallyNone ==
  ASSUME NEW types, NEW field
  PROVE  Tally(<<>>, types, field) = 0
<1>1. Chosen(<<>>, types) = {}
  BY DEF Chosen
<1> QED
  BY <1>1, AddingNothing DEF Tally

(***************************************************************************)
(* An event adds its own field to the tallies of its type.                 *)
(***************************************************************************)
LEMMA TallyAppend ==
  ASSUME NEW evs, NEW e, NEW types, NEW field, Counts(Append(evs, e), types, field),
         evs \in Seq(Range(evs))
  PROVE  Tally(Append(evs, e), types, field)
           = Tally(evs, types, field) + (IF e.type \in types THEN e[field] ELSE 0)
<1> DEFINE all == Append(evs, e)
           n == Len(evs) + 1
           S == Chosen(evs, types)
<1>1. /\ Len(evs) \in Nat /\ DOMAIN evs = 1..Len(evs) /\ DOMAIN all = 1..n
      /\ all[n] = e /\ \A i \in 1..Len(evs) : all[i] = evs[i]
  OBVIOUS
<1>2. Range(all) = Range(evs) \cup {e}
  BY <1>1 DEF Range
<1>3. Counts(evs, types, field)
  BY <1>2 DEF Counts
<1>4. n \notin S /\ \A i \in S : all[i] = evs[i]
  BY <1>1 DEF Chosen
<1>5. Adding!Fold(Column(evs, field), 0, S) = Adding!Fold(Column(all, field), 0, S)
  <2> HIDE DEF all
  <2>1. S \in SUBSET Chosen(evs, types) /\ \A i \in S : evs[i][field] = all[i][field]
    BY <1>4
  <2> HIDE DEF S
  <2> QED
    BY <2>1, TallySame
<1>6. CASE e.type \in types
  <2>1. Chosen(all, types) = S \cup {n}
    BY <1>1, <1>6 DEF Chosen
  <2>2. IsFiniteSet(Chosen(all, types)) /\ Integral(Column(all, field), Chosen(all, types))
    <3>1. all \in Seq(Range(all))
      BY DEF Counts
    <3> QED
      BY <3>1, ChosenFinite DEF Integral, Column, FieldAt, Chosen, Counts, Range
  <2>3. Removes(Column(all, field), Chosen(all, types))
    BY <2>2, AddingRemove
  <2>4. Chosen(all, types) \ {n} = S /\ n \in Chosen(all, types)
    BY <1>4, <2>1
  <2>5. Adding!Fold(Column(all, field), 0, Chosen(all, types))
          = FieldAt(Column(all, field), n) + Adding!Fold(Column(all, field), 0, S)
    BY <2>3, <2>4 DEF Removes
  <2>6. FieldAt(Column(all, field), n) = e[field] /\ e[field] \in Int
    BY <1>1, <1>2, <1>6 DEF FieldAt, Column, Counts
  <2>7. Tally(evs, types, field) \in Int
    BY <1>3, TallyType
  <2> QED
    BY <1>5, <1>6, <2>5, <2>6, <2>7 DEF Tally
<1>7. CASE e.type \notin types
  <2>1. Chosen(all, types) = S
    BY <1>1, <1>7 DEF Chosen
  <2>2. Tally(evs, types, field) \in Int
    BY <1>3, TallyType
  <2> QED
    BY <1>5, <1>7, <2>1, <2>2 DEF Tally
<1> QED
  BY <1>6, <1>7

(***************************************************************************)
(* A sequence of events of a log is a log.                                 *)
(***************************************************************************)
LEMMA PartOfLog ==
  ASSUME NEW evs, Log(evs), NEW a \in Seq(Range(evs))
  PROVE  Log(a) /\ Range(a) \subseteq Range(evs)
<1>1. DOMAIN a = 1..Len(a) /\ Len(a) \in Nat /\ a = [i \in 1..Len(a) |-> a[i]]
  OBVIOUS
<1>2. \A i \in 1..Len(a) : a[i] \in Range(a)
  BY <1>1 DEF Range
<1>3. a \in Seq(Range(a))
  BY <1>1, <1>2, SeqDef
<1>4. Range(a) \subseteq Range(evs)
  <2>1. \A i \in 1..Len(a) : a[i] \in Range(evs)
    BY <1>1
  <2> QED
    BY <1>1, <2>1 DEF Range
<1> QED
  BY <1>3, <1>4 DEF Log

\* The tally of two logs is the sum of theirs.
Adds(evs, more, types, field) ==
  /\ Counts(evs \o more, types, field)
  /\ Tally(evs \o more, types, field) = Tally(evs, types, field) + Tally(more, types, field)

(***************************************************************************)
(* The tallies of two logs add up: by the least length of a second log for *)
(* which they do not.                                                      *)
(***************************************************************************)
LEMMA TallyConcat ==
  ASSUME NEW evs, NEW more, NEW types, NEW field, Log(evs), Log(more),
         Counts(evs, types, field), Counts(more, types, field)
  PROVE  Adds(evs, more, types, field)
<1> DEFINE Bad == {n \in Nat : \E b \in Seq(Range(more)) : Len(b) = n /\ ~Adds(evs, b, types, field)}
<1>1. more \in Seq(Range(more)) /\ Len(more) \in Nat
  BY DEF Log
<1>2. SUFFICES ASSUME Bad # {} PROVE FALSE
  BY <1>1
<1>3. PICK n \in Bad : \A m \in Bad : n <= m
  BY <1>2, Least
<1>4. PICK b \in Seq(Range(more)) : Len(b) = n /\ ~Adds(evs, b, types, field)
  BY <1>3
<1>5. n \in Nat /\ evs \in Seq(Range(evs)) /\ Range(b) \subseteq Range(more)
  BY <1>3, <1>4 DEF Log, Range
<1>6. CASE n = 0
  <2>1. b = <<>>
    BY <1>4, <1>6
  <2>2. evs \o b = evs
    BY <1>5, <2>1
  <2>3. Tally(evs, types, field) \in Int
    BY TallyType
  <2> QED
    BY <1>4, <2>1, <2>2, <2>3, TallyNone DEF Adds
<1>7. CASE n > 0
  <2> DEFINE a == SubSeq(b, 1, n - 1)
             e == b[n]
  <2>1. a \in Seq(Range(more)) /\ Len(a) = n - 1 /\ e \in Range(more) /\ b = Append(a, e)
        /\ n - 1 \in Nat
    BY <1>4, <1>5, <1>7
  <2> HIDE DEF a, e
  <2>2. Adds(evs, a, types, field)
    <3> HIDE DEF Bad
    <3>1. n - 1 \notin Bad
      BY <1>3, <1>5, <2>1
    <3> QED
      BY <2>1, <3>1 DEF Bad
  <2>3. evs \o b = Append(evs \o a, e)
    <3> DEFINE S == Range(evs) \cup Range(more)
    <3>1. evs \in Seq(S) /\ a \in Seq(S) /\ e \in S
      BY <1>5, <2>1
    <3> HIDE DEF S
    <3> QED
      BY <2>1, <3>1
  <2>4. Counts(evs \o b, types, field) /\ Counts(b, types, field) /\ Counts(a, types, field)
    <3>1. Range(a) \subseteq Range(more) /\ Log(a)
      BY <2>1, PartOfLog
    <3>2. Log(b)
      BY <1>4, PartOfLog
    <3>3. Range(evs \o b) = Range(evs) \cup Range(b) /\ Log(evs \o b)
      BY <3>2, ConcatEvents
    <3> QED
      BY <1>5, <3>1, <3>2, <3>3 DEF Counts, Log
  <2>5. /\ Tally(evs \o b, types, field)
            = Tally(evs \o a, types, field) + (IF e.type \in types THEN e[field] ELSE 0)
        /\ Tally(b, types, field)
            = Tally(a, types, field) + (IF e.type \in types THEN e[field] ELSE 0)
    <3>1. Counts(Append(evs \o a, e), types, field) /\ (evs \o a) \in Seq(Range(evs \o a))
      BY <2>2, <2>3, <2>4 DEF Adds, Counts
    <3>2. Counts(Append(a, e), types, field) /\ a \in Seq(Range(a))
      BY <2>1, <2>4 DEF Counts
    <3>3. Tally(Append(evs \o a, e), types, field)
            = Tally(evs \o a, types, field) + (IF e.type \in types THEN e[field] ELSE 0)
      <4> DEFINE front == evs \o a
      <4>1. Counts(Append(front, e), types, field) /\ front \in Seq(Range(front))
        BY <3>1
      <4> HIDE DEF front
      <4>2. Tally(Append(front, e), types, field)
              = Tally(front, types, field) + (IF e.type \in types THEN e[field] ELSE 0)
        BY <4>1, TallyAppend
      <4> QED
        BY <4>2 DEF front
    <3>4. Tally(Append(a, e), types, field)
            = Tally(a, types, field) + (IF e.type \in types THEN e[field] ELSE 0)
      BY <3>2, TallyAppend
    <3> QED
      BY <2>1, <2>3, <3>3, <3>4
  <2>6. /\ Tally(evs, types, field) \in Int /\ Tally(a, types, field) \in Int
        /\ e.type \in types => e[field] \in Int
    BY <2>1, <2>4, TallyType DEF Counts
  <2> QED
    BY <1>4, <2>2, <2>4, <2>5, <2>6 DEF Adds
<1> QED
  BY <1>5, <1>6, <1>7

-----------------------------------------------------------------------------
(* What a result of the engine pays. *)

\* The numbers of a state; a pending order has bought nothing.
Funds(s) ==
  /\ s.qty_total \in Int /\ s.qty_open \in Int
  /\ s.realized_pnl \in Int /\ s.costs \in Int /\ s.dividends \in Int /\ s.avg_entry \in Price
  /\ s.status = "PENDING" => s.qty_total = 0

\* The amounts of an event.
Numbers(e) == e.qty \in Int /\ e.pnl \in Int /\ e.cost \in Int

\* A log whose events have amounts.
Paid(evs) == Log(evs) /\ \A e \in Range(evs) : Numbers(e)

\* The events account for what t has and s had not.
Sums(s, t, evs) ==
  /\ t.qty_total = s.qty_total + Tally(evs, {"FILLED"}, "qty")
  /\ t.qty_open = s.qty_open + Tally(evs, {"FILLED"}, "qty") - Tally(evs, Exits, "qty")
  /\ t.realized_pnl = s.realized_pnl + Tally(evs, Exits, "pnl")
  /\ t.costs = s.costs + Tally(evs, {"FILLED"} \cup Exits, "cost")
  /\ t.dividends = s.dividends + Tally(evs, {"DIVIDEND"}, "pnl")

\* Each exit earns the distance of its own price from the entry.
Valued(evs, entry, sign) ==
  \A e \in Range(evs) : e.type \in Exits =>
    e.price \in Int /\ entry \in Int /\ e.pnl = sign * (e.price - entry) * e.qty

\* The events that move money.
Paying == {"FILLED", "DIVIDEND"} \cup Exits

\* The entry price is set by the fill, before any exit.
EntryKept(s, r) ==
  /\ s.status # "PENDING" => r.state.avg_entry = s.avg_entry /\ r.state.status # "PENDING"
  /\ r.state.status = "PENDING" => \A e \in Range(r.events) : e.type \notin Exits

\* The events of r account for what its state has and s had not.
Settled(s, r, sign) ==
  /\ Funds(r.state) /\ Paid(r.events) /\ Sums(s, r.state, r.events)
  /\ Valued(r.events, r.state.avg_entry, sign) /\ EntryKept(s, r)

(***************************************************************************)
(* The three fields are integers throughout a log that is paid.            *)
(***************************************************************************)
LEMMA PaidCounts ==
  ASSUME NEW evs, Paid(evs), NEW types, NEW field \in {"qty", "pnl", "cost"}
  PROVE  Counts(evs, types, field)
BY DEF Paid, Log, Numbers, Counts

(***************************************************************************)
(* The tallies of the three fields add up.                                 *)
(***************************************************************************)
LEMMA PaidTogether ==
  ASSUME NEW a, Paid(a), NEW b, Paid(b), NEW types, NEW field \in {"qty", "pnl", "cost"}
  PROVE  /\ Tally(a \o b, types, field) = Tally(a, types, field) + Tally(b, types, field)
         /\ Tally(a, types, field) \in Int /\ Tally(b, types, field) \in Int
<1>1. Counts(a, types, field) /\ Counts(b, types, field)
  BY PaidCounts
<1>2. Adds(a, b, types, field)
  BY <1>1, TallyConcat DEF Paid
<1> QED
  BY <1>1, <1>2, TallyType DEF Adds

(***************************************************************************)
(* The tally of one event is its field.                                    *)
(***************************************************************************)
LEMMA PaidOnce ==
  ASSUME NEW e, Entry(e), Numbers(e), NEW types, NEW field \in {"qty", "pnl", "cost"}
  PROVE  Paid(<<e>>) /\ Tally(<<e>>, types, field) = IF e.type \in types THEN e[field] ELSE 0
<1>1. Range(<<e>>) = {e} /\ <<e>> \in Seq({e}) /\ <<e>> = Append(<<>>, e)
  BY DEF Range
<1>2. Paid(<<e>>)
  BY <1>1 DEF Paid, Log
<1>3. Counts(Append(<<>>, e), types, field) /\ <<>> \in Seq(Range(<<>>))
  BY <1>1, <1>2, PaidCounts
<1>4. Tally(Append(<<>>, e), types, field)
        = Tally(<<>>, types, field) + (IF e.type \in types THEN e[field] ELSE 0)
  <2> DEFINE none == <<>>
  <2>1. Counts(Append(none, e), types, field) /\ none \in Seq(Range(none))
    BY <1>3
  <2> HIDE DEF none
  <2>2. Tally(Append(none, e), types, field)
          = Tally(none, types, field) + (IF e.type \in types THEN e[field] ELSE 0)
    BY <2>1, TallyAppend
  <2> QED
    BY <2>2 DEF none
<1>5. Tally(<<>>, types, field) = 0 /\ (e.type \in types => e[field] \in Int)
  BY TallyNone DEF Numbers
<1> QED
  BY <1>1, <1>2, <1>4, <1>5

(***************************************************************************)
(* Events of other types leave a tally at 0.                               *)
(***************************************************************************)
LEMMA TallyOther ==
  ASSUME NEW evs, NEW types, NEW field, \A e \in Range(evs) : e.type \notin types
  PROVE  Tally(evs, types, field) = 0
<1>1. Chosen(evs, types) = {}
  BY DEF Chosen, Range
<1> QED
  BY <1>1, AddingNothing DEF Tally

(***************************************************************************)
(* What two logs account for one after the other, they account for         *)
(* together.                                                               *)
(***************************************************************************)
LEMMA SumsTogether ==
  ASSUME NEW s, Funds(s), NEW t, Funds(t), NEW u, Funds(u), NEW a, Paid(a), NEW b, Paid(b),
         Sums(s, t, a), Sums(t, u, b)
  PROVE  Sums(s, u, a \o b)
<1> DEFINE Both(types, field) ==
             /\ Tally(a \o b, types, field) = Tally(a, types, field) + Tally(b, types, field)
             /\ Tally(a, types, field) \in Int /\ Tally(b, types, field) \in Int
<1>1. \A types : \A field \in {"qty", "pnl", "cost"} : Both(types, field)
  BY PaidTogether
<1> HIDE DEF Both
<1>2. /\ Both({"FILLED"}, "qty") /\ Both(Exits, "qty") /\ Both(Exits, "pnl")
      /\ Both({"FILLED"} \cup Exits, "cost") /\ Both({"DIVIDEND"}, "pnl")
  BY <1>1
<1>3. u.qty_total = s.qty_total + Tally(a \o b, {"FILLED"}, "qty")
  BY <1>2 DEF Sums, Funds, Both
<1>4. u.qty_open = s.qty_open + Tally(a \o b, {"FILLED"}, "qty") - Tally(a \o b, Exits, "qty")
  BY <1>2 DEF Sums, Funds, Both
<1>5. u.realized_pnl = s.realized_pnl + Tally(a \o b, Exits, "pnl")
  BY <1>2 DEF Sums, Funds, Both
<1>6. u.costs = s.costs + Tally(a \o b, {"FILLED"} \cup Exits, "cost")
  BY <1>2 DEF Sums, Funds, Both
<1>7. u.dividends = s.dividends + Tally(a \o b, {"DIVIDEND"}, "pnl")
  BY <1>2 DEF Sums, Funds, Both
<1> QED
  BY <1>3, <1>4, <1>5, <1>6, <1>7 DEF Sums

(***************************************************************************)
(* One event accounts for its own quantities.                              *)
(***************************************************************************)
LEMMA SumsOnce ==
  ASSUME NEW s, Funds(s), NEW t, NEW e, Entry(e), Numbers(e),
         t.qty_total = s.qty_total + (IF e.type = "FILLED" THEN e.qty ELSE 0),
         t.qty_open = s.qty_open + (IF e.type = "FILLED" THEN e.qty ELSE 0)
                                 - (IF e.type \in Exits THEN e.qty ELSE 0),
         t.realized_pnl = s.realized_pnl + (IF e.type \in Exits THEN e.pnl ELSE 0),
         t.costs = s.costs + (IF e.type \in {"FILLED"} \cup Exits THEN e.cost ELSE 0),
         t.dividends = s.dividends + (IF e.type = "DIVIDEND" THEN e.pnl ELSE 0)
  PROVE  Sums(s, t, <<e>>)
<1>1. \A types : \A field \in {"qty", "pnl", "cost"} :
        Tally(<<e>>, types, field) = IF e.type \in types THEN e[field] ELSE 0
  BY PaidOnce
<1>2. /\ Tally(<<e>>, {"FILLED"}, "qty") = IF e.type = "FILLED" THEN e.qty ELSE 0
      /\ Tally(<<e>>, Exits, "qty") = IF e.type \in Exits THEN e.qty ELSE 0
      /\ Tally(<<e>>, Exits, "pnl") = IF e.type \in Exits THEN e.pnl ELSE 0
      /\ Tally(<<e>>, {"FILLED"} \cup Exits, "cost") = IF e.type \in {"FILLED"} \cup Exits THEN e.cost ELSE 0
      /\ Tally(<<e>>, {"DIVIDEND"}, "pnl") = IF e.type = "DIVIDEND" THEN e.pnl ELSE 0
  BY <1>1
<1> QED
  BY <1>2 DEF Sums

\* The numbers of s are those of t.
SameFunds(s, t) ==
  /\ t.qty_total = s.qty_total /\ t.qty_open = s.qty_open /\ t.avg_entry = s.avg_entry
  /\ t.realized_pnl = s.realized_pnl /\ t.costs = s.costs /\ t.dividends = s.dividends

\* Events that move no money.
Quiet(evs) == Paid(evs) /\ \A e \in Range(evs) : e.type \notin Paying

(***************************************************************************)
(* A result that moves no money settles.                                   *)
(***************************************************************************)
LEMMA QuietSettled ==
  ASSUME NEW s, Funds(s), NEW r, Quiet(r.events), SameFunds(s, r.state), NEW sign,
         s.status # "PENDING" => r.state.status # "PENDING"
  PROVE  Settled(s, r, sign)
<1>1. \A types \in {{"FILLED"}, Exits, {"FILLED"} \cup Exits, {"DIVIDEND"}} :
        \A field : Tally(r.events, types, field) = 0
  <2>1. \A types \in {{"FILLED"}, Exits, {"FILLED"} \cup Exits, {"DIVIDEND"}} :
          \A e \in Range(r.events) : e.type \notin types
    BY DEF Quiet, Paying
  <2> QED
    BY <2>1, TallyOther
<1>2. /\ Tally(r.events, {"FILLED"}, "qty") = 0 /\ Tally(r.events, Exits, "qty") = 0
      /\ Tally(r.events, Exits, "pnl") = 0 /\ Tally(r.events, {"FILLED"} \cup Exits, "cost") = 0
      /\ Tally(r.events, {"DIVIDEND"}, "pnl") = 0
  BY <1>1
<1>3. Funds(r.state)
  BY DEF Funds, SameFunds
<1>4. Sums(s, r.state, r.events)
  BY <1>2 DEF Sums, SameFunds, Funds
<1>5. Valued(r.events, r.state.avg_entry, sign) /\ EntryKept(s, r)
  BY DEF Valued, EntryKept, Quiet, Paying, SameFunds
<1> QED
  BY <1>3, <1>4, <1>5 DEF Settled, Quiet

(***************************************************************************)
(* Results one after the other.                                            *)
(***************************************************************************)
LEMMA SettledAfter ==
  ASSUME NEW s, Funds(s), NEW a, Proper(a), NEW b, Proper(b), NEW sign,
         Settled(s, a, sign), Settled(a.state, b, sign)
  PROVE  Settled(s, After(a.events, b), sign)
<1> DEFINE r == After(a.events, b)
<1>1. Log(a.events) /\ Log(b.events)
  BY DEF Proper
<1>2. /\ r.state = b.state /\ r.events = a.events \o b.events
      /\ Range(r.events) = Range(a.events) \cup Range(b.events) /\ Log(r.events)
  <2>1. r.state = b.state /\ Range(r.events) = Range(a.events) \cup Range(b.events) /\ Proper(r)
    BY <1>1, AfterEvents
  <2>2. r.events = a.events \o b.events
    BY DEF After, Proper
  <2> QED
    BY <2>1, <2>2 DEF Proper
<1> HIDE DEF r
<1>3. Paid(r.events)
  BY <1>2 DEF Settled, Paid
<1>4. Sums(s, b.state, a.events \o b.events)
  BY SumsTogether DEF Settled
<1>5. \A e \in Range(a.events) : e.type \in Exits => b.state.avg_entry = a.state.avg_entry
  BY DEF Settled, EntryKept
<1>6. Valued(r.events, b.state.avg_entry, sign)
  BY <1>2, <1>5 DEF Settled, Valued
<1>7. EntryKept(s, r)
  BY <1>2 DEF Settled, EntryKept
<1> QED
  BY <1>2, <1>3, <1>4, <1>6, <1>7 DEF Settled, r

\* The charges of a configuration.
Charges(c) ==
  /\ c.config.commission \in Nat /\ c.config.sec_fee_rate \in Nat
  /\ c.config.taf_fee_per_share \in Nat /\ c.config.taf_fee_max \in Nat

(***************************************************************************)
(* The cost of an execution is an integer.                                 *)
(***************************************************************************)
LEMMA CostIsInt ==
  ASSUME NEW c, Charges(c), NEW price \in Int, NEW qty \in Int, NEW leg
  PROVE  ExecutionCost(c, price, qty, leg) \in Int
<1> DEFINE size == IF price < 0 THEN -price ELSE price
           taf == Lesser(qty * c.config.taf_fee_per_share, c.config.taf_fee_max)
           fees == size * qty * c.config.sec_fee_rate + taf
<1>1. size \in Int /\ size * qty * c.config.sec_fee_rate \in Int
  BY DEF Charges
<1>2. taf \in Int
  BY DEF Charges, Lesser
<1>3. fees \in Int
  BY <1>1, <1>2
<1> HIDE DEF fees
<1>4. ExecutionCost(c, price, qty, leg)
        = c.config.commission
            + IF c.config.sec_taf_fees_enabled
                   /\ (leg = IF c.signal.direction = "LONG" THEN "exit" ELSE "entry")
              THEN fees ELSE 0
  BY DEF ExecutionCost, fees
<1> QED
  BY <1>3, <1>4 DEF Charges

(***************************************************************************)
(* _close pays what its event says, and leaves nothing open.               *)
(***************************************************************************)
LEMMA CloseSettled ==
  ASSUME NEW c, Charges(c), NEW s, Book(s, c), Funds(s), s.status \in {"OPEN", "PARTIAL"}, NEW bar,
         NEW type \in Exits, NEW price \in Int, NEW level, NEW reason
  PROVE  Settled(s, Close(s, bar, c, type, price, level, reason), 1)
<1> DEFINE pnl == (price - s.avg_entry) * s.qty_open
           cost == ExecutionCost(c, price, s.qty_open, "exit")
           t == [s EXCEPT !.status = "CLOSED", !.qty_open = 0, !.realized_pnl = @ + pnl,
                  !.costs = @ + cost, !.close_reason = reason, !.closed_at = bar.ts,
                  !.final_event_ts = bar.ts]
           e == [Event(type, bar.ts) EXCEPT !.price = price, !.level = level,
                   !.qty = s.qty_open, !.pnl = pnl, !.cost = cost]
           r == Close(s, bar, c, type, price, level, reason)
<1>1. r = StepResult(t, <<e>>)
  BY DEF Close
<1>2. s.avg_entry \in Int /\ s.qty_open \in Int
  BY DEF Book
<1>3. pnl \in Int /\ cost \in Int /\ pnl = 1 * (price - s.avg_entry) * s.qty_open
  BY <1>2, CostIsInt
<1> HIDE DEF pnl, cost
<1>4. /\ t.status = "CLOSED" /\ t.qty_open = 0 /\ t.qty_total = s.qty_total
      /\ t.avg_entry = s.avg_entry /\ t.realized_pnl = s.realized_pnl + pnl
      /\ t.costs = s.costs + cost /\ t.dividends = s.dividends
  BY DEF Book, Shape
<1>5. /\ Entry(e) /\ e.type = type /\ e.price = price /\ e.qty = s.qty_open
      /\ e.pnl = pnl /\ e.cost = cost
  BY DEF Event, Entry
<1> HIDE DEF t, e, r
<1>6. Numbers(e) /\ Funds(t)
  BY <1>2, <1>3, <1>4, <1>5 DEF Numbers, Funds, Price
<1>7. e.type \in Exits /\ e.type # "FILLED" /\ e.type # "DIVIDEND"
  BY <1>5 DEF Exits
<1>8. Sums(s, t, <<e>>)
  BY <1>2, <1>3, <1>4, <1>5, <1>6, <1>7, SumsOnce DEF Funds
<1>9. r.state = t /\ r.events = <<e>> /\ Range(<<e>>) = {e}
  BY <1>1 DEF StepResult, Range
<1>10. Paid(r.events)
  BY <1>5, <1>6, <1>9, PaidOnce
<1>11. Valued(r.events, t.avg_entry, 1) /\ EntryKept(s, r)
  BY <1>2, <1>3, <1>4, <1>5, <1>9 DEF Valued, EntryKept
<1> QED
  BY <1>6, <1>8, <1>9, <1>10, <1>11 DEF Settled, r

(***************************************************************************)
(* The partial exit at target1 pays what its event says.                   *)
(***************************************************************************)
LEMMA ScaleOutSettled ==
  ASSUME NEW c, Fees(c), Charges(c), NEW s, Book(s, c), Funds(s), s.status = "OPEN", NEW bar,
         NEW sig, sig.target1 \in Int
  PROVE  Settled(s, ScaleOut(s, bar, sig, c), 1)
<1> DEFINE qty == Part(s.qty_total, c)
           pnl == (sig.target1 - s.avg_entry) * qty
           cost == ExecutionCost(c, sig.target1, qty, "exit")
           t == [s EXCEPT !.status = "PARTIAL", !.t1_done = TRUE, !.qty_open = @ - qty,
                  !.realized_pnl = @ + pnl, !.costs = @ + cost,
                  !.stop_previous = s.stop_current, !.stop_current = s.avg_entry,
                  !.stop_active_from = NextExpectedMinute(bar.ts)]
           e == [Event("TARGET1_HIT", bar.ts) EXCEPT !.price = sig.target1,
                  !.level = s.avg_entry, !.qty = qty, !.pnl = pnl, !.cost = cost]
           r == ScaleOut(s, bar, sig, c)
<1>1. r = StepResult(t, <<e>>)
  BY DEF ScaleOut, Part
<1>2. s.avg_entry \in Int /\ s.qty_open \in Int /\ s.qty_total \in Int
  BY DEF Book
<1>3. qty \in Int
  BY <1>2 DEF Part, Fees
<1> HIDE DEF qty
<1>4. pnl \in Int /\ cost \in Int /\ pnl = 1 * (sig.target1 - s.avg_entry) * qty
  BY <1>2, <1>3, CostIsInt
<1> HIDE DEF pnl, cost
<1>5. /\ t.status = "PARTIAL" /\ t.qty_open = s.qty_open - qty /\ t.qty_total = s.qty_total
      /\ t.avg_entry = s.avg_entry /\ t.realized_pnl = s.realized_pnl + pnl
      /\ t.costs = s.costs + cost /\ t.dividends = s.dividends
  BY DEF Book, Shape
<1>6. /\ Entry(e) /\ e.type = "TARGET1_HIT" /\ e.price = sig.target1 /\ e.qty = qty
      /\ e.pnl = pnl /\ e.cost = cost
  BY DEF Event, Entry
<1> HIDE DEF t, e, r
<1>7. Numbers(e) /\ Funds(t)
  BY <1>2, <1>3, <1>4, <1>5, <1>6 DEF Numbers, Funds, Price
<1>8. e.type \in Exits /\ e.type # "FILLED" /\ e.type # "DIVIDEND"
  BY <1>6 DEF Exits
<1>9. Sums(s, t, <<e>>)
  BY <1>2, <1>3, <1>4, <1>5, <1>6, <1>7, <1>8, SumsOnce DEF Funds
<1>10. r.state = t /\ r.events = <<e>> /\ Range(<<e>>) = {e}
  BY <1>1 DEF StepResult, Range
<1>11. Paid(r.events)
  BY <1>6, <1>7, <1>10, PaidOnce
<1>12. Valued(r.events, t.avg_entry, 1) /\ EntryKept(s, r)
  BY <1>2, <1>4, <1>5, <1>6, <1>10 DEF Valued, EntryKept
<1> QED
  BY <1>7, <1>9, <1>10, <1>11, <1>12 DEF Settled, r

(***************************************************************************)
(* A handler that returns the order as it is settles.                      *)
(***************************************************************************)
LEMMA UnchangedSettled ==
  ASSUME NEW s, Funds(s), NEW sign
  PROVE  Settled(s, Unchanged(s), sign)
<1>1. Proper(Unchanged(s)) /\ Unchanged(s).state = s /\ Range(Unchanged(s).events) = {}
  BY NoEvents
<1>2. Quiet(Unchanged(s).events)
  BY <1>1 DEF Quiet, Paid, Proper
<1> QED
  BY <1>1, <1>2, QuietSettled DEF SameFunds

(***************************************************************************)
(* The bar an order has seen moves none of its money.                      *)
(***************************************************************************)
LEMMA SeenFunds ==
  ASSUME NEW c, NEW s, Book(s, c), Funds(s), NEW best, NEW worst
  PROVE  SameFunds(s, Seen(s, best, worst)) /\ Funds(Seen(s, best, worst))
         /\ Seen(s, best, worst).status = s.status
<1>1. SameFunds(s, Seen(s, best, worst)) /\ Seen(s, best, worst).status = s.status
  BY DEF SameFunds, Seen, Book, Shape
<1> QED
  BY <1>1 DEF Funds, SameFunds

(***************************************************************************)
(* What was settled from the state that has seen the bar was settled       *)
(* before it.                                                              *)
(***************************************************************************)
LEMMA SettledSeen ==
  ASSUME NEW s, NEW t, SameFunds(s, t), t.status = s.status, NEW r, NEW sign, Settled(t, r, sign)
  PROVE  Settled(s, r, sign)
BY DEF Settled, Sums, EntryKept, SameFunds

(***************************************************************************)
(* _exit_phase: the stop, target1 and what is left at target2.             *)
(***************************************************************************)
LEMMA ExitSettled ==
  ASSUME NEW c, Fees(c), Charges(c), NEW sig, LongSignal(sig, c), NEW bar \in Bars,
         NextExpectedMinute(bar.ts) \in Int, NEW entryBar \in BOOLEAN,
         NEW s, Book(s, c), Funds(s), s.status \in {"OPEN", "PARTIAL"}
  PROVE  Settled(s, Exit(s, bar, sig, c, entryBar), 1)
<1> DEFINE r == Exit(s, bar, sig, c, entryBar)
           stopped == bar.low <= s.stop_current
           raw == Lesser(bar.open, s.stop_current)
           hit1 == ~s.t1_done /\ bar.high >= sig.target1
           scaled == IF hit1 THEN ScaleOut(s, bar, sig, c) ELSE Unchanged(s)
           hit2 == scaled.state.t1_done /\ sig.target2 # None /\ bar.high >= sig.target2
           final == Close(scaled.state, bar, c, "TARGET2_HIT", sig.target2, None, "TARGET_FINAL")
<1>1. sig.target1 \in Int /\ sig.target2 \in Price /\ bar.open \in Int /\ s.stop_current \in Int
      /\ c.config.stop_slip \in Int
  BY DEF LongSignal, Bars, Book, Fees
<1>2. CASE stopped
  <2> DEFINE price == AdverseSell(raw, c.config.stop_slip)
  <2>1. r = Close(s, bar, c, "STOPPED", price, raw, "STOPPED")
    BY <1>2 DEF Exit
  <2>2. price \in Int
    BY <1>1 DEF Lesser, AdverseSell
  <2>3. "STOPPED" \in Exits
    BY DEF Exits
  <2> HIDE DEF price, raw
  <2>4. Settled(s, Close(s, bar, c, "STOPPED", price, raw, "STOPPED"), 1)
    BY <2>2, <2>3, CloseSettled
  <2> QED
    BY <2>1, <2>4
<1>3. CASE ~stopped /\ entryBar
  <2>1. r = Unchanged(s)
    BY <1>3 DEF Exit
  <2> QED
    BY <2>1, UnchangedSettled
<1>4. CASE ~stopped /\ ~entryBar /\ (hit1 /\ sig.target2 = None)
  <2>1. r = Close(s, bar, c, "TARGET1_HIT", sig.target1, None, "TARGET_FINAL")
    BY <1>4 DEF Exit
  <2>2. "TARGET1_HIT" \in Exits
    BY DEF Exits
  <2>3. Settled(s, Close(s, bar, c, "TARGET1_HIT", sig.target1, None, "TARGET_FINAL"), 1)
    BY <1>1, <2>2, CloseSettled
  <2> QED
    BY <2>1, <2>3
<1>5. CASE ~stopped /\ ~entryBar /\ ~(hit1 /\ sig.target2 = None)
  <2>1. /\ Proper(scaled) /\ Book(scaled.state, c) /\ scaled.state.status \in {"OPEN", "PARTIAL"}
        /\ Settled(s, scaled, 1)
    <3>1. CASE hit1
      <4>1. s.status = "OPEN" /\ scaled = ScaleOut(s, bar, sig, c)
        BY <3>1 DEF Book
      <4> QED
        BY <1>1, <4>1, ScaleOutResult, ScaleOutSettled
    <3>2. CASE ~hit1
      <4>1. scaled = Unchanged(s)
        BY <3>2
      <4> HIDE DEF scaled
      <4> QED
        BY <4>1, NoEvents, UnchangedSettled
    <3> QED
      BY <3>1, <3>2
  <2>2. CASE ~hit2
    <3>1. r = scaled
      BY <1>5, <2>2 DEF Exit
    <3> QED
      BY <2>1, <3>1
  <2>3. CASE hit2
    <3>1. r = After(scaled.events, final)
      BY <1>5, <2>3 DEF Exit
    <3>2. sig.target2 \in Int
      BY <1>1, <2>3 DEF Price
    <3>3. final = Close(scaled.state, bar, c, "TARGET2_HIT", sig.target2, None, "TARGET_FINAL")
      OBVIOUS
    <3> HIDE DEF scaled, final, r
    <3>4. "TARGET2_HIT" \in Exits /\ Funds(scaled.state)
      BY <2>1 DEF Exits, Settled
    <3>5. Settled(scaled.state, final, 1)
      BY <2>1, <3>2, <3>3, <3>4, CloseSettled
    <3>6. Proper(final)
      BY <2>1, <3>3, CloseResult
    <3>7. Settled(s, After(scaled.events, final), 1)
      BY <2>1, <3>5, <3>6, SettledAfter
    <3> QED
      BY <3>1, <3>7 DEF r
  <2> QED
    BY <2>2, <2>3
<1> QED
  BY <1>2, <1>3, <1>4, <1>5

(***************************************************************************)
(* _fill buys the quantity its event says, from nothing.                   *)
(***************************************************************************)
LEMMA FillSettled ==
  ASSUME NEW c, Fees(c), Charges(c), NEW sig, LongSignal(sig, c), NEW bar,
         NEW raw \in sig.low..sig.high, NEW s, Book(s, c), Funds(s), s.status = "PENDING"
  PROVE  Settled(s, Fill(s, bar, sig, c, raw), 1)
<1> DEFINE price == AdverseBuy(raw, c.config.entry_slip)
           qty == c.config.risk_amount \div (price - sig.stop)
           cost == ExecutionCost(c, price, qty, "entry")
           t == [s EXCEPT !.status = "OPEN", !.avg_entry = price, !.initial_stop = sig.stop,
                  !.stop_current = sig.stop, !.qty_total = qty, !.qty_open = qty,
                  !.costs = @ + cost, !.opened_at = bar.ts, !.best_price = price,
                  !.entry_path = IF s.zone_ever_lost THEN "RECLAIMED" ELSE "DIRECT"]
           e == [Event("FILLED", bar.ts) EXCEPT !.price = price, !.level = raw,
                   !.qty = qty, !.cost = cost]
           r == Fill(s, bar, sig, c, raw)
<1>1. r = StepResult(t, <<e>>)
  BY DEF Fill
<1>2. /\ raw \in Int /\ sig.stop \in Int /\ sig.stop < raw /\ c.config.entry_slip \in Nat
      /\ c.config.risk_amount \in Nat
  BY DEF LongSignal, Fees
<1>3. price \in Int /\ price - sig.stop \in Nat \ {0}
  BY <1>2 DEF AdverseBuy
<1>4. qty \in Int
  BY <1>2, <1>3
<1> HIDE DEF price, qty
<1>5. cost \in Int
  BY <1>3, <1>4, CostIsInt
<1> HIDE DEF cost
<1>6. /\ t.status = "OPEN" /\ t.qty_open = qty /\ t.qty_total = qty /\ t.avg_entry = price
      /\ t.realized_pnl = s.realized_pnl /\ t.costs = s.costs + cost /\ t.dividends = s.dividends
  BY DEF Book, Shape
<1>7. Entry(e) /\ e.type = "FILLED" /\ e.qty = qty /\ e.pnl = 0 /\ e.cost = cost
  BY DEF Event, Entry
<1>8. s.qty_total = 0 /\ s.qty_open = 0
  BY DEF Book, Funds
<1> HIDE DEF t, e, r
<1>9. Numbers(e) /\ Funds(t)
  BY <1>3, <1>4, <1>5, <1>6, <1>7 DEF Numbers, Funds, Price
<1>10. e.type \notin Exits /\ e.type # "DIVIDEND"
  BY <1>7 DEF Exits
<1>11. Sums(s, t, <<e>>)
  BY <1>4, <1>5, <1>6, <1>7, <1>8, <1>9, <1>10, SumsOnce DEF Funds
<1>12. r.state = t /\ r.events = <<e>> /\ Range(<<e>>) = {e}
  BY <1>1 DEF StepResult, Range
<1>13. Paid(r.events)
  BY <1>7, <1>9, <1>12, PaidOnce
<1>14. Valued(r.events, t.avg_entry, 1) /\ EntryKept(s, r)
  BY <1>6, <1>10, <1>12 DEF Valued, EntryKept
<1> QED
  BY <1>9, <1>11, <1>12, <1>13, <1>14 DEF Settled, r

(***************************************************************************)
(* One event without amounts settles.                                      *)
(***************************************************************************)
LEMMA QuietOnce ==
  ASSUME NEW s, Funds(s), NEW t, SameFunds(s, t), s.status # "PENDING" => t.status # "PENDING",
         NEW e, Entry(e), e.qty = 0, e.pnl = 0, e.cost = 0, e.type \notin Paying, NEW sign
  PROVE  Settled(s, StepResult(t, <<e>>), sign) /\ Proper(StepResult(t, <<e>>))
<1> DEFINE r == StepResult(t, <<e>>)
<1>1. Proper(r) /\ r.state = t /\ Range(r.events) = {e}
  BY FewEvents
<1> HIDE DEF r
<1>2. Quiet(r.events)
  BY <1>1 DEF Quiet, Paid, Proper, Numbers
<1>3. Settled(s, r, sign)
  BY <1>1, <1>2, QuietSettled
<1> QED
  BY <1>1, <1>3 DEF r

(***************************************************************************)
(* An invalidated order moves no money.                                    *)
(***************************************************************************)
LEMMA InvalidateSettled ==
  ASSUME NEW c, NEW s, Book(s, c), Funds(s), NEW bar
  PROVE  Settled(s, Invalidate(s, bar), 1)
<1> DEFINE t == [s EXCEPT !.status = "INVALIDATED", !.final_event_ts = bar.ts]
           e == Event("INVALIDATED", bar.ts)
<1>1. Invalidate(s, bar) = StepResult(t, <<e>>)
  BY DEF Invalidate
<1>2. SameFunds(s, t) /\ t.status = "INVALIDATED"
  BY DEF Book, Shape, SameFunds
<1>3. Entry(e) /\ e.qty = 0 /\ e.pnl = 0 /\ e.cost = 0 /\ e.type \notin Paying
  BY DEF Event, Entry, Paying, Exits
<1> HIDE DEF t, e
<1> QED
  BY <1>1, <1>2, <1>3, QuietOnce

(***************************************************************************)
(* A zone that is lost moves no money.                                     *)
(***************************************************************************)
LEMMA LoseZoneSettled ==
  ASSUME NEW c, NEW s, Book(s, c), Funds(s), NEW bar, NEW sig
  PROVE  Settled(s, LoseZone(s, bar, sig), 1)
<1> DEFINE lost == ~s.zone_lost /\ (bar.open < sig.low \/ bar.close < sig.low)
           t == [s EXCEPT !.zone_lost = TRUE, !.zone_ever_lost = TRUE]
           e == [Event("ZONE_LOST", bar.ts) EXCEPT !.level = sig.low]
<1>1. LoseZone(s, bar, sig) = IF lost THEN StepResult(t, <<e>>) ELSE Unchanged(s)
  BY DEF LoseZone
<1>2. SameFunds(s, t) /\ t.status = s.status
  BY DEF Book, Shape, SameFunds
<1>3. Entry(e) /\ e.qty = 0 /\ e.pnl = 0 /\ e.cost = 0 /\ e.type \notin Paying
  BY DEF Event, Entry, Paying, Exits
<1> HIDE DEF t, e, lost
<1>4. Settled(s, StepResult(t, <<e>>), 1) /\ Settled(s, Unchanged(s), 1)
  BY <1>2, <1>3, QuietOnce, UnchangedSettled
<1> QED
  BY <1>1, <1>4

(***************************************************************************)
(* A zone that is reclaimed moves no money.                                *)
(***************************************************************************)
LEMMA ReclaimZoneSettled ==
  ASSUME NEW c, NEW s, Book(s, c), Funds(s), NEW bar, NEW sig
  PROVE  Settled(s, ReclaimZone(s, bar, sig), 1)
<1> DEFINE back == s.zone_lost /\ bar.close >= sig.low
           t == [s EXCEPT !.zone_lost = FALSE, !.entry_eligible_from = NextExpectedMinute(bar.ts)]
           e == Event("ZONE_RECLAIMED", bar.ts)
<1>1. ReclaimZone(s, bar, sig) = IF back THEN StepResult(t, <<e>>) ELSE Unchanged(s)
  BY DEF ReclaimZone
<1>2. SameFunds(s, t) /\ t.status = s.status
  BY DEF Book, Shape, SameFunds
<1>3. Entry(e) /\ e.qty = 0 /\ e.pnl = 0 /\ e.cost = 0 /\ e.type \notin Paying
  BY DEF Event, Entry, Paying, Exits
<1> HIDE DEF t, e, back
<1>4. Settled(s, StepResult(t, <<e>>), 1) /\ Settled(s, Unchanged(s), 1)
  BY <1>2, <1>3, QuietOnce, UnchangedSettled
<1> QED
  BY <1>1, <1>4

(***************************************************************************)
(* A trigger that is hit moves no money.                                   *)
(***************************************************************************)
LEMMA HitTriggerSettled ==
  ASSUME NEW c, NEW s, Book(s, c), Funds(s), NEW bar, NEW sig
  PROVE  Settled(s, HitTrigger(s, bar, sig), 1)
<1> DEFINE hit == sig.trigger # None /\ s.trigger_hit_at = None /\ bar.high >= sig.trigger
           t == [s EXCEPT !.trigger_hit_at = bar.ts]
           e == [Event("TRIGGER_HIT", bar.ts) EXCEPT !.price = sig.trigger]
<1>1. HitTrigger(s, bar, sig) = IF hit THEN StepResult(t, <<e>>) ELSE Unchanged(s)
  BY DEF HitTrigger
<1>2. SameFunds(s, t) /\ t.status = s.status
  BY DEF Book, Shape, SameFunds
<1>3. Entry(e) /\ e.qty = 0 /\ e.pnl = 0 /\ e.cost = 0 /\ e.type \notin Paying
  BY DEF Event, Entry, Paying, Exits
<1> HIDE DEF t, e, hit
<1>4. Settled(s, StepResult(t, <<e>>), 1) /\ Settled(s, Unchanged(s), 1)
  BY <1>2, <1>3, QuietOnce, UnchangedSettled
<1> QED
  BY <1>1, <1>4

(***************************************************************************)
(* _gate_phase: the gates move no money.                                   *)
(***************************************************************************)
LEMMA GateSettled ==
  ASSUME NEW c, NEW sig, NEW bar, NEW s, Book(s, c), Funds(s), s.status = "PENDING"
  PROVE  Settled(s, Gate(s, bar, sig, c), 1)
<1> DEFINE lost == LoseZone(s, bar, sig)
           reclaimed == ReclaimZone(lost.state, bar, sig)
           hit == HitTrigger(reclaimed.state, bar, sig)
           gone == Invalidate(lost.state, bar)
           ends == lost.events # <<>> /\ c.config.policy = "CANCEL"
           both == After(lost.events, reclaimed)
           r == Gate(s, bar, sig, c)
<1>1. r = IF ends THEN After(lost.events, gone) ELSE After(lost.events \o reclaimed.events, hit)
  BY DEF Gate
<1>2. Settled(s, lost, 1) /\ WhilePending(s, lost, bar, c, "ZONE_LOST")
  BY LoseZoneSettled, LoseZoneResult
<1>3. reclaimed = ReclaimZone(lost.state, bar, sig) /\ gone = Invalidate(lost.state, bar)
      /\ hit = HitTrigger(reclaimed.state, bar, sig) /\ both = After(lost.events, reclaimed)
  OBVIOUS
<1> HIDE DEF lost, reclaimed, hit, gone, ends, both, r
<1>4. Funds(lost.state) /\ Book(lost.state, c) /\ Proper(lost) /\ lost.state.status = "PENDING"
  BY <1>2 DEF Settled, WhilePending
<1>5. Settled(lost.state, reclaimed, 1) /\ WhilePending(lost.state, reclaimed, bar, c, "ZONE_RECLAIMED")
  BY <1>3, <1>4, ReclaimZoneSettled, ReclaimZoneResult
<1>6. Funds(reclaimed.state) /\ Book(reclaimed.state, c) /\ Proper(reclaimed)
      /\ reclaimed.state.status = "PENDING"
  BY <1>5 DEF Settled, WhilePending
<1>7. Settled(reclaimed.state, hit, 1) /\ WhilePending(reclaimed.state, hit, bar, c, "TRIGGER_HIT")
  BY <1>3, <1>6, HitTriggerSettled, HitTriggerResult
<1>8. Settled(lost.state, gone, 1) /\ Proper(gone)
  BY <1>3, <1>4, InvalidateSettled, InvalidateResult
<1>9. Settled(s, both, 1)
  BY <1>2, <1>3, <1>4, <1>5, <1>6, SettledAfter
<1>10. Proper(both) /\ both.state = reclaimed.state /\ both.events = lost.events \o reclaimed.events
  <2>1. Proper(both) /\ both.state = reclaimed.state
    BY <1>3, <1>4, <1>6, AfterEvents DEF Proper
  <2> QED
    BY <1>3, <1>6, <2>1 DEF After, Proper
<1>11. CASE ends
  <2>1. Settled(s, After(lost.events, gone), 1)
    BY <1>2, <1>4, <1>8, SettledAfter
  <2> QED
    BY <1>1, <1>11, <2>1 DEF r
<1>12. CASE ~ends
  <2>1. Proper(hit)
    BY <1>7 DEF WhilePending
  <2>2. Settled(s, After(both.events, hit), 1)
    BY <1>7, <1>9, <1>10, <2>1, SettledAfter
  <2> QED
    BY <1>1, <1>10, <1>12, <2>2 DEF r
<1> QED
  BY <1>11, <1>12

(***************************************************************************)
(* _entry_phase: the gates, the fill, and the exits of the same bar.       *)
(***************************************************************************)
LEMMA EntrySettled ==
  ASSUME NEW c, Fees(c), Charges(c), NEW sig, LongSignal(sig, c), NEW bar \in Bars,
         NextExpectedMinute(bar.ts) \in Int,
         NEW s, Book(s, c), Funds(s), s.status = "PENDING"
  PROVE  Settled(s, EntryPhase(s, bar, sig, c), 1)
<1> DEFINE raw == EntryPrice(bar, sig)
           filled == Fill(s, bar, sig, c, raw)
           after == ExitPhase(filled.state, bar, sig, c, TRUE)
           gone == Invalidate(s, bar)
           enters == Eligible(s, bar, sig) /\ raw # None
           r == EntryPhase(s, bar, sig, c)
<1>1. r = IF bar.open <= sig.stop THEN gone
          ELSE IF enters THEN After(filled.events, after)
          ELSE IF bar.low <= sig.stop THEN gone ELSE Gate(s, bar, sig, c)
  BY DEF EntryPhase
<1>2. Settled(s, gone, 1) /\ Settled(s, Gate(s, bar, sig, c), 1)
  BY InvalidateSettled, GateSettled
<1>3. ASSUME enters PROVE Settled(s, After(filled.events, after), 1)
  <2> DEFINE t == filled.state
             u == SeenOn(t, bar, TRUE)
  <2>1. raw \in sig.low..sig.high
    BY <1>3, EntryPriceTraded
  <2>2. filled = Fill(s, bar, sig, c, raw) /\ after = ExitPhase(t, bar, sig, c, TRUE)
    OBVIOUS
  <2> HIDE DEF raw, filled, after
  <2>3. /\ Proper(filled) /\ Book(t, c) /\ t.status = "OPEN" /\ t.stop_active_from = None
        /\ Settled(s, filled, 1)
    BY <2>1, <2>2, FillResult, FillSettled
  <2>4. StopActive(t, bar) /\ Funds(t)
    BY <2>3 DEF StopActive, Settled
  <2> HIDE DEF t
  <2>5. after = Exit(u, bar, sig, c, TRUE)
    BY <2>2, <2>3, <2>4, ExitPhaseIsExit
  <2>6. Book(u, c) /\ u.status = "OPEN"
    BY <2>3, SeenKeeps DEF SeenOn
  <2>7. SameFunds(t, u) /\ Funds(u) /\ u.status = t.status
    BY <2>3, <2>4, SeenFunds DEF SeenOn
  <2> HIDE DEF u
  <2>8. Settled(u, Exit(u, bar, sig, c, TRUE), 1)
    BY <2>6, <2>7, ExitSettled
  <2>9. Settled(t, after, 1)
    BY <2>5, <2>7, <2>8, SettledSeen
  <2>10. Proper(after)
    <3>1. LET x == Exit(u, bar, sig, c, TRUE) IN Proper(x)
      BY <2>6, EntryBarExit
    <3> QED
      BY <2>5, <3>1
  <2>11. Settled(filled.state, after, 1)
    BY <2>9 DEF t
  <2> QED
    BY <2>3, <2>10, <2>11, SettledAfter
<1> HIDE DEF raw, filled, after, gone, enters
<1> QED
  BY <1>1, <1>2, <1>3

(***************************************************************************)
(* The end of the validity expires a pending order for nothing, and sells  *)
(* what is open.                                                           *)
(***************************************************************************)
LEMMA ValidityEndSettled ==
  ASSUME NEW c, Fees(c), Charges(c), NEW s, Book(s, c), Funds(s),
         s.status \in {"PENDING", "OPEN", "PARTIAL"}, NEW bar,
         s.status # "PENDING" => bar.close \in Int
  PROVE  Settled(s, ValidityEnd(s, bar, c), 1)
<1>1. CASE s.status = "PENDING"
  <2> DEFINE t == [s EXCEPT !.status = "EXPIRED", !.final_event_ts = c.until]
             e == Event("EXPIRED", None)
  <2>1. ValidityEnd(s, bar, c) = StepResult(t, <<e>>)
    BY <1>1 DEF ValidityEnd
  <2>2. SameFunds(s, t) /\ t.status = "EXPIRED"
    BY DEF Book, Shape, SameFunds
  <2>3. Entry(e) /\ e.qty = 0 /\ e.pnl = 0 /\ e.cost = 0 /\ e.type \notin Paying
    BY DEF Event, Entry, Paying, Exits
  <2> HIDE DEF t, e
  <2> QED
    BY <2>1, <2>2, <2>3, QuietOnce
<1>2. CASE s.status # "PENDING"
  <2> DEFINE price == AdverseSell(bar.close, c.config.stop_slip)
  <2>1. ValidityEnd(s, bar, c) = Close(s, bar, c, "TIME_EXIT", price, bar.close, "TIME_EXIT")
    BY <1>2 DEF ValidityEnd
  <2>2. price \in Int /\ "TIME_EXIT" \in Exits
    BY <1>2 DEF AdverseSell, Fees, Exits
  <2> HIDE DEF price
  <2>3. Settled(s, Close(s, bar, c, "TIME_EXIT", price, bar.close, "TIME_EXIT"), 1)
    BY <1>2, <2>2, CloseSettled
  <2> QED
    BY <2>1, <2>3
<1> QED
  BY <1>1, <1>2

(***************************************************************************)
(* step for a LONG order: a phase and, on the last bar, the end of the     *)
(* validity.                                                               *)
(***************************************************************************)
LEMMA LongStepSettled ==
  ASSUME NEW c, Fees(c), Charges(c), NEW sig, LongSignal(sig, c), NEW bar \in Bars,
         NextExpectedMinute(bar.ts) \in Int, NEW s, Book(s, c), Funds(s),
         s.status \in {"PENDING", "OPEN", "PARTIAL"}, StopActive(s, bar)
  PROVE  Settled(s, LongStep(s, bar, sig, c), 1)
<1> DEFINE phase == IF s.status = "PENDING" THEN EntryPhase(s, bar, sig, c)
                    ELSE ExitPhase(s, bar, sig, c, FALSE)
           done == [phase EXCEPT !.state.last_bar_ts = bar.ts]
           end == ValidityEnd(done.state, bar, c)
           r == LongStep(s, bar, sig, c)
<1>1. r = IF IsFinal(done.state) \/ ~IsLastBar(bar, c) THEN done ELSE After(done.events, end)
  BY DEF LongStep
<1>2. Settled(s, phase, 1)
  <2>1. CASE s.status = "PENDING"
    BY <2>1, EntrySettled
  <2>2. CASE s.status # "PENDING"
    <3> DEFINE u == SeenOn(s, bar, FALSE)
    <3>1. phase = Exit(u, bar, sig, c, FALSE)
      BY <2>2, ExitPhaseIsExit
    <3>2. Book(u, c) /\ u.status = s.status
      BY SeenKeeps DEF SeenOn
    <3>3. SameFunds(s, u) /\ Funds(u)
      BY SeenFunds DEF SeenOn
    <3> HIDE DEF u
    <3>4. Settled(u, Exit(u, bar, sig, c, FALSE), 1)
      BY <2>2, <3>2, <3>3, ExitSettled
    <3> QED
      BY <3>1, <3>2, <3>3, <3>4, SettledSeen
  <2> QED
    BY <2>1, <2>2
<1>3. Proper(phase) /\ Book(phase.state, c)
  BY PhaseGood DEF Good
<1>4. done = [phase EXCEPT !.state.last_bar_ts = bar.ts] /\ end = ValidityEnd(done.state, bar, c)
  OBVIOUS
<1> HIDE DEF phase, done, end, r
<1>5. /\ Proper(done) /\ done.events = phase.events /\ Book(done.state, c)
      /\ done.state.status = phase.state.status /\ SameFunds(phase.state, done.state)
  <2>1. Stamped(phase, [phase EXCEPT !.state.last_bar_ts = bar.ts], bar.ts, c)
    BY <1>3, StampResult
  <2>2. SameFunds(phase.state, [phase EXCEPT !.state.last_bar_ts = bar.ts].state)
    BY <1>3 DEF SameFunds, Proper, Book, Shape
  <2> QED
    BY <1>4, <2>1, <2>2 DEF Stamped
<1>6. Settled(s, done, 1)
  <2>1. Funds(done.state)
    BY <1>2, <1>5 DEF Settled, Funds, SameFunds
  <2> QED
    BY <1>2, <1>5, <2>1 DEF Settled, Sums, EntryKept, SameFunds
<1>7. CASE IsFinal(done.state) \/ ~IsLastBar(bar, c)
  BY <1>1, <1>6, <1>7 DEF r
<1>8. CASE ~(IsFinal(done.state) \/ ~IsLastBar(bar, c))
  <2>1. done.state.status \in {"PENDING", "OPEN", "PARTIAL"} /\ bar.close \in Int
    BY <1>5, <1>8 DEF IsFinal, FinalStatuses, Book, Statuses, Bars
  <2>2. Funds(done.state)
    BY <1>6 DEF Settled
  <2>3. Settled(done.state, end, 1) /\ Proper(end)
    BY <1>4, <1>5, <2>1, <2>2, ValidityEndSettled, ValidityEndResult DEF Ended
  <2>4. Settled(s, After(done.events, end), 1)
    BY <1>5, <1>6, <2>3, SettledAfter
  <2> QED
    BY <1>1, <1>8, <2>4 DEF r
<1> QED
  BY <1>7, <1>8

(***************************************************************************)
(* The mirror of an order has its numbers.                                 *)
(***************************************************************************)
LEMMA MirrorFunds ==
  ASSUME NEW c, NEW s, Book(s, c), Funds(s)
  PROVE  Funds(MirrorState(s))
<1> DEFINE t == MirrorState(s)
<1>1. /\ t.status = s.status /\ t.qty_total = s.qty_total /\ t.qty_open = s.qty_open
      /\ t.realized_pnl = s.realized_pnl /\ t.costs = s.costs /\ t.dividends = s.dividends
      /\ t.avg_entry = Neg(s.avg_entry)
  BY DEF MirrorState, Book, Shape
<1>2. Neg(s.avg_entry) \in Price
  BY MirrorPrice DEF Funds
<1> HIDE DEF t
<1> QED
  BY <1>1, <1>2 DEF Funds, t

(***************************************************************************)
(* A mirrored log has the tallies of the log.                              *)
(***************************************************************************)
LEMMA MirrorTally ==
  ASSUME NEW r, Proper(r), NEW types, NEW field \in {"qty", "pnl", "cost"}
  PROVE  Tally(MirrorResult(r).events, types, field) = Tally(r.events, types, field)
<1> DEFINE evs == r.events
           more == [i \in DOMAIN evs |-> MirrorEvent(evs[i])]
           S == Chosen(evs, types)
<1>1. MirrorResult(r).events = more
  BY DEF MirrorResult, StepResult
<1>2. evs \in Seq(Range(evs)) /\ \A i \in DOMAIN evs : Entry(evs[i])
  BY DEF Proper, Log, Range
<1>3. \A i \in DOMAIN evs : /\ more[i].type = evs[i].type /\ more[i][field] = evs[i][field]
  <2>1. \A e : Entry(e) => MirrorEvent(e).type = e.type /\ MirrorEvent(e)[field] = e[field]
    BY DEF MirrorEvent, Entry
  <2> QED
    BY <1>2, <2>1
<1>4. DOMAIN more = DOMAIN evs
  OBVIOUS
<1> HIDE DEF more, evs
<1>5. Chosen(more, types) = S
  BY <1>3, <1>4 DEF Chosen
<1>6. S \in SUBSET Chosen(evs, types) /\ \A i \in S : evs[i][field] = more[i][field]
  BY <1>3 DEF Chosen
<1> HIDE DEF S
<1>7. Adding!Fold(Column(evs, field), 0, S) = Adding!Fold(Column(more, field), 0, S)
  BY <1>2, <1>6, TallySame
<1> QED
  BY <1>1, <1>5, <1>7 DEF Tally, S, evs

(***************************************************************************)
(* What settles the mirrored order with sign 1 settles the SHORT order     *)
(* with sign -1.                                                           *)
(***************************************************************************)
LEMMA MirrorSettled ==
  ASSUME NEW c, NEW s, Book(s, c), Funds(s), NEW x, Proper(x), Book(x.state, c),
         Settled(MirrorState(s), x, 1)
  PROVE  Settled(s, MirrorResult(x), -1)
<1> DEFINE r == MirrorResult(x)
           t == MirrorState(s)
<1>1. /\ Proper(r) /\ r.state = MirrorState(x.state)
      /\ Range(r.events) = {MirrorEvent(e) : e \in Range(x.events)}
  BY MirrorResultKeeps
<1>2. \A types : \A field \in {"qty", "pnl", "cost"} :
        Tally(r.events, types, field) = Tally(x.events, types, field)
  BY MirrorTally
<1>3. \A e \in Range(x.events) :
        /\ MirrorEvent(e).type = e.type /\ MirrorEvent(e).price = Neg(e.price)
        /\ MirrorEvent(e).qty = e.qty /\ MirrorEvent(e).pnl = e.pnl /\ MirrorEvent(e).cost = e.cost
  BY DEF MirrorEvent, Proper, Log, Entry
<1>4. /\ t.status = s.status /\ t.qty_total = s.qty_total /\ t.qty_open = s.qty_open
      /\ t.realized_pnl = s.realized_pnl /\ t.costs = s.costs /\ t.dividends = s.dividends
      /\ t.avg_entry = Neg(s.avg_entry)
  BY DEF MirrorState, Book, Shape
<1>5. /\ r.state.status = x.state.status /\ r.state.qty_total = x.state.qty_total
      /\ r.state.qty_open = x.state.qty_open /\ r.state.realized_pnl = x.state.realized_pnl
      /\ r.state.costs = x.state.costs /\ r.state.dividends = x.state.dividends
      /\ r.state.avg_entry = Neg(x.state.avg_entry)
  BY <1>1 DEF MirrorState, Book, Shape
<1> HIDE DEF r, t
<1>6. Funds(r.state)
  BY <1>1, MirrorFunds DEF Settled
<1>7. Paid(r.events)
  BY <1>1, <1>3 DEF Settled, Paid, Proper, Numbers
<1>8. Sums(s, r.state, r.events)
  <2>1. Sums(t, x.state, x.events)
    BY DEF Settled, t
  <2>2. /\ Tally(r.events, {"FILLED"}, "qty") = Tally(x.events, {"FILLED"}, "qty")
        /\ Tally(r.events, Exits, "qty") = Tally(x.events, Exits, "qty")
        /\ Tally(r.events, Exits, "pnl") = Tally(x.events, Exits, "pnl")
        /\ Tally(r.events, {"FILLED"} \cup Exits, "cost") = Tally(x.events, {"FILLED"} \cup Exits, "cost")
        /\ Tally(r.events, {"DIVIDEND"}, "pnl") = Tally(x.events, {"DIVIDEND"}, "pnl")
    BY <1>2
  <2> QED
    BY <1>4, <1>5, <2>1, <2>2 DEF Sums
<1>9. Valued(r.events, r.state.avg_entry, -1)
  <2>1. ASSUME NEW e \in Range(x.events), e.type \in Exits
        PROVE  /\ Neg(e.price) \in Int /\ Neg(x.state.avg_entry) \in Int
               /\ e.pnl = (-1) * (Neg(e.price) - Neg(x.state.avg_entry)) * e.qty
    <3>1. /\ e.price \in Int /\ x.state.avg_entry \in Int /\ e.qty \in Int
          /\ e.pnl = 1 * (e.price - x.state.avg_entry) * e.qty
      BY <2>1 DEF Settled, Valued, Paid, Numbers
    <3>2. Neg(e.price) = -e.price /\ Neg(x.state.avg_entry) = -x.state.avg_entry
      BY <3>1, MirrorPrice DEF Price
    <3>3. (-1) * (-e.price - (-x.state.avg_entry)) = 1 * (e.price - x.state.avg_entry)
      BY <3>1
    <3> QED
      BY <3>1, <3>2, <3>3
  <2>2. ASSUME NEW f \in Range(r.events), f.type \in Exits
        PROVE  /\ f.price \in Int /\ r.state.avg_entry \in Int
               /\ f.pnl = (-1) * (f.price - r.state.avg_entry) * f.qty
    <3>1. PICK e \in Range(x.events) : f = MirrorEvent(e)
      BY <1>1
    <3>2. f.type = e.type /\ f.price = Neg(e.price) /\ f.qty = e.qty /\ f.pnl = e.pnl
      BY <1>3, <3>1
    <3> QED
      BY <1>5, <2>1, <2>2, <3>2
  <2> QED
    BY <2>2 DEF Valued
<1>10. EntryKept(s, r)
  <2>1. EntryKept(t, x)
    BY DEF Settled, t
  <2>2. s.status # "PENDING" => r.state.avg_entry = s.avg_entry
    <3>1. s.avg_entry \in Price
      BY DEF Funds
    <3>2. x.state.avg_entry = Neg(s.avg_entry) => Neg(x.state.avg_entry) = s.avg_entry
      <4>1. CASE s.avg_entry = None
        BY <4>1 DEF Neg
      <4>2. CASE s.avg_entry \in Int
        <5>1. Neg(s.avg_entry) = -s.avg_entry /\ Neg(-s.avg_entry) = -(-s.avg_entry)
          BY <4>2, MirrorPrice DEF Price
        <5> QED
          BY <4>2, <5>1
      <4> QED
        BY <3>1, <4>1, <4>2 DEF Price
    <3> QED
      BY <1>4, <1>5, <2>1, <3>2 DEF EntryKept
  <2> QED
    BY <1>1, <1>3, <1>4, <1>5, <2>1, <2>2 DEF EntryKept
<1> QED
  BY <1>6, <1>7, <1>8, <1>9, <1>10 DEF Settled, r

\* The sign of a direction, and of its profits.
Direction(c) == IF c.signal.direction = "LONG" THEN 1 ELSE -1

(***************************************************************************)
(* step settles an order of either direction.                              *)
(***************************************************************************)
LEMMA StepSettled ==
  ASSUME NEW c, Fees(c), Charges(c), Chain(c.signal, c), NEW bar \in Bars,
         NextExpectedMinute(bar.ts) \in Int,
         NEW s, Book(s, c), Funds(s), StopActive(s, bar), ~Ignored(s, bar, c)
  PROVE  Settled(s, Step(s, bar, c), Direction(c))
<1> DEFINE sig == c.signal
<1>0. s.status \in {"PENDING", "OPEN", "PARTIAL"}
  BY DEF Ignored, IsFinal, FinalStatuses, Book, Statuses
<1>1. CASE sig.direction = "LONG"
  <2>1. LongSignal(sig, c)
    BY <1>1 DEF Chain, ValidSignal, LongSignal
  <2>2. Settled(s, LongStep(s, bar, sig, c), 1)
    BY <1>0, <2>1, LongStepSettled
  <2> QED
    BY <1>1, <2>2 DEF Step, Direction
<1>2. CASE sig.direction # "LONG"
  <2> DEFINE t == MirrorState(s)
             mbar == MirrorBar(bar)
             msig == MirrorSignal(sig)
             x == LongStep(t, mbar, msig, c)
  <2>1. LongSignal(msig, c)
    <3>1. sig.direction = "SHORT"
      BY <1>2 DEF Chain
    <3> QED
      BY <3>1, MirrorSignalIsLong
  <2>2. mbar \in Bars /\ mbar.ts = bar.ts
    BY MirrorBarIsBar
  <2>3. Book(t, c) /\ SameGates(s, t) /\ Funds(t)
    BY MirrorStateKeeps, MirrorFunds
  <2>4. Step(s, bar, c) = MirrorResult(x)
    BY <1>2 DEF Step
  <2> HIDE DEF t, mbar, msig
  <2>5. t.status \in {"PENDING", "OPEN", "PARTIAL"} /\ StopActive(t, mbar)
    BY <1>0, <2>2, <2>3 DEF SameGates, StopActive
  <2>6. NextExpectedMinute(mbar.ts) \in Int
    BY <2>2
  <2>7. Settled(t, x, 1)
    BY <2>1, <2>2, <2>3, <2>5, <2>6, LongStepSettled
  <2>8. Good(t, x, mbar, msig, c)
    BY <2>1, <2>2, <2>3, <2>5, <2>6, LongStepGood
  <2> HIDE DEF x
  <2>9. Settled(s, MirrorResult(x), -1)
    BY <2>7, <2>8, MirrorSettled DEF Good, t
  <2> QED
    BY <1>2, <2>4, <2>9 DEF Direction
<1> QED
  BY <1>1, <1>2

-----------------------------------------------------------------------------
(* The commands. *)

(***************************************************************************)
(* flag_review moves no money.                                             *)
(***************************************************************************)
LEMMA FlagSettled ==
  ASSUME NEW c, NEW s, Book(s, c), Funds(s), NEW reason, NEW ref, NEW sign
  PROVE  Settled(s, FlagReview(s, reason, ref), sign)
<1> DEFINE t == [s EXCEPT !.review_reasons = @ \cup {reason}]
           e == [Event("NEEDS_REVIEW", None) EXCEPT !.reason = reason, !.level = ref]
<1>1. FlagReview(s, reason, ref) = StepResult(t, <<e>>)
  BY DEF FlagReview
<1>2. SameFunds(s, t) /\ t.status = s.status
  BY DEF Book, Shape, SameFunds
<1>3. Entry(e) /\ e.qty = 0 /\ e.pnl = 0 /\ e.cost = 0 /\ e.type \notin Paying
  BY DEF Event, Entry, Paying, Exits
<1> HIDE DEF t, e
<1> QED
  BY <1>1, <1>2, <1>3, QuietOnce

(***************************************************************************)
(* cancel moves no money.                                                  *)
(***************************************************************************)
LEMMA CancelSettled ==
  ASSUME NEW c, NEW s, Book(s, c), Funds(s), NEW at, NEW sign
  PROVE  Settled(s, Cancel(s, at), sign)
<1> DEFINE t == [s EXCEPT !.status = "CANCELED", !.final_event_ts = at]
           e == [Event("CANCELED", None) EXCEPT !.level = at]
<1>1. Cancel(s, at) = IF IsFinal(s) THEN Unchanged(s) ELSE StepResult(t, <<e>>)
  BY DEF Cancel
<1>2. SameFunds(s, t) /\ t.status = "CANCELED"
  BY DEF Book, Shape, SameFunds
<1>3. Entry(e) /\ e.qty = 0 /\ e.pnl = 0 /\ e.cost = 0 /\ e.type \notin Paying
  BY DEF Event, Entry, Paying, Exits
<1> HIDE DEF t, e
<1>4. Settled(s, StepResult(t, <<e>>), sign) /\ Settled(s, Unchanged(s), sign)
  BY <1>2, <1>3, QuietOnce, UnchangedSettled
<1> QED
  BY <1>1, <1>4

(***************************************************************************)
(* freeze, and the review it asks for, moves no money.                     *)
(***************************************************************************)
LEMMA FreezeSettled ==
  ASSUME NEW c, NEW s, Book(s, c), Funds(s), NEW reason, NEW ref, NEW sign
  PROVE  Settled(s, Freeze(s, reason, ref), sign)
<1> DEFINE t == [s EXCEPT !.frozen_reasons = @ \cup {reason}]
           e == [Event("FROZEN", None) EXCEPT !.reason = reason, !.level = ref]
           flag == FlagReview(t, reason, ref)
           one == StepResult(t, <<e>>)
<1>1. Freeze(s, reason, ref)
        = IF IsFinal(s) \/ reason \in s.frozen_reasons THEN Unchanged(s) ELSE After(<<e>>, flag)
  BY DEF Freeze
<1>2. SameFunds(s, t) /\ t.status = s.status /\ Shape(t) /\ t.zone_lost = s.zone_lost
      /\ t.t1_done = s.t1_done /\ t.stop_current = s.stop_current
      /\ t.stop_active_from = s.stop_active_from
  BY DEF Book, Shape, SameFunds
<1>3. Entry(e) /\ e.qty = 0 /\ e.pnl = 0 /\ e.cost = 0 /\ e.type \notin Paying
  BY DEF Event, Entry, Paying, Exits
<1>4. flag = FlagReview(t, reason, ref) /\ one.events = <<e>> /\ one.state = t
  BY DEF StepResult
<1> HIDE DEF t, e, flag
<1>5. Settled(s, one, sign) /\ Proper(one)
  BY <1>2, <1>3, QuietOnce
<1> HIDE DEF one
<1>6. Book(t, c) /\ Funds(t)
  BY <1>2 DEF Book, SameFunds, Funds
<1>7. Settled(t, flag, sign) /\ Flagged(t, flag, None, c)
  BY <1>4, <1>6, FlagSettled, FlagResult
<1>8. Proper(flag)
  BY <1>7 DEF Flagged, Commanded
<1>9. Settled(s, After(one.events, flag), sign)
  BY <1>4, <1>5, <1>7, <1>8, SettledAfter
<1> QED
  BY <1>1, <1>4, <1>9, UnchangedSettled

(***************************************************************************)
(* apply_dividend pays a LONG order, and charges a SHORT one, for what is  *)
(* open.                                                                   *)
(***************************************************************************)
LEMMA DividendSettled ==
  ASSUME NEW c, NEW s, Book(s, c), Funds(s), NEW exDate, NEW amount \in Int, NEW validated, NEW sign
  PROVE  Settled(s, ApplyDividend(s, c, exDate, amount, validated), sign)
<1> DEFINE r == ApplyDividend(s, c, exDate, amount, validated)
           cash == (IF c.signal.direction = "LONG" THEN amount ELSE -amount) * s.qty_open
           t == [s EXCEPT !.dividends = @ + cash]
           e == [Event("DIVIDEND", None) EXCEPT !.level = amount, !.qty = s.qty_open, !.pnl = cash]
           idle == IsFinal(s) \/ Frozen(s) \/ s.qty_open <= 0
           one == StepResult(t, <<e>>)
<1>1. r = IF idle THEN Unchanged(s)
          ELSE IF ~validated THEN FlagReview(s, "DIVIDEND_UNVERIFIED", exDate) ELSE one
  BY DEF ApplyDividend
<1>2. cash \in Int
  BY DEF Funds
<1> HIDE DEF cash
<1>3. /\ t.status = s.status /\ t.qty_total = s.qty_total /\ t.qty_open = s.qty_open
      /\ t.avg_entry = s.avg_entry /\ t.realized_pnl = s.realized_pnl /\ t.costs = s.costs
      /\ t.dividends = s.dividends + cash
  BY DEF Book, Shape
<1>4. Entry(e) /\ e.type = "DIVIDEND" /\ e.qty = s.qty_open /\ e.pnl = cash /\ e.cost = 0
  BY DEF Event, Entry
<1>5. one.state = t /\ one.events = <<e>> /\ Range(<<e>>) = {e}
  BY DEF StepResult, Range
<1> HIDE DEF t, e, r, idle, one
<1>6. Funds(t) /\ Numbers(e)
  BY <1>2, <1>3, <1>4 DEF Funds, Numbers
<1>7. e.type \notin Exits /\ e.type # "FILLED"
  BY <1>4 DEF Exits
<1>8. Sums(s, t, <<e>>)
  BY <1>2, <1>3, <1>4, <1>6, <1>7, SumsOnce DEF Funds
<1>9. Paid(<<e>>)
  BY <1>4, <1>6, PaidOnce
<1>10. Valued(<<e>>, t.avg_entry, sign) /\ EntryKept(s, one)
  BY <1>3, <1>5, <1>7 DEF Valued, EntryKept
<1>11. Settled(s, one, sign)
  BY <1>5, <1>6, <1>8, <1>9, <1>10 DEF Settled
<1> QED
  BY <1>1, <1>11, UnchangedSettled, FlagSettled DEF r

(***************************************************************************)
(* apply_validity_end closes at the last bar, or asks for a review when    *)
(* that bar is stale or missing.                                           *)
(***************************************************************************)
LEMMA FinalizeSettled ==
  ASSUME NEW c, Fees(c), Charges(c), NEW s, Book(s, c), Funds(s), NEW bar, bar # None => bar \in Bars
  PROVE  Settled(s, ApplyValidityEnd(s, c, bar), Direction(c))
<1> DEFINE r == ApplyValidityEnd(s, c, bar)
           direct == ValidityEnd(s, bar, c)
           mirrored == MirrorResult(ValidityEnd(MirrorState(s), MirrorBar(bar), c))
           ended == IF c.signal.direction = "LONG" THEN direct ELSE mirrored
           flag == FlagReview(ended.state, "STALE_EXIT_BAR", c.until)
           none == FlagReview(s, "NO_EXIT_BAR", c.until)
<1>1. r = IF IsFinal(s) \/ Frozen(s) THEN Unchanged(s)
          ELSE IF s.status = "PENDING" THEN direct
          ELSE IF bar = None THEN none
          ELSE IF IsLastBar(bar, c) THEN ended
          ELSE After(ended.events, flag)
  BY DEF ApplyValidityEnd
<1>2. Settled(s, Unchanged(s), Direction(c)) /\ Settled(s, none, Direction(c))
  BY UnchangedSettled, FlagSettled
<1>3. ASSUME ~(IsFinal(s) \/ Frozen(s)) PROVE s.status \in {"PENDING", "OPEN", "PARTIAL"}
  BY <1>3 DEF IsFinal, FinalStatuses, Book, Statuses
<1>4. ASSUME s.status = "PENDING" PROVE Settled(s, direct, Direction(c))
  <2> DEFINE t == [s EXCEPT !.status = "EXPIRED", !.final_event_ts = c.until]
             e == Event("EXPIRED", None)
  <2>1. direct = StepResult(t, <<e>>)
    BY <1>4 DEF ValidityEnd
  <2>2. SameFunds(s, t) /\ t.status = "EXPIRED"
    BY DEF Book, Shape, SameFunds
  <2>3. Entry(e) /\ e.qty = 0 /\ e.pnl = 0 /\ e.cost = 0 /\ e.type \notin Paying
    BY DEF Event, Entry, Paying, Exits
  <2> HIDE DEF t, e, direct
  <2> QED
    BY <2>1, <2>2, <2>3, QuietOnce
<1>5. ASSUME ~(IsFinal(s) \/ Frozen(s)), s.status # "PENDING", bar # None
      PROVE  /\ Settled(s, ended, Direction(c))
             /\ Settled(s, After(ended.events, flag), Direction(c))
  <2>1. s.status \in {"OPEN", "PARTIAL"} /\ bar \in Bars
    BY <1>3, <1>5
  <2>2. Settled(s, ended, Direction(c)) /\ Proper(ended) /\ Book(ended.state, c)
    <3>1. CASE c.signal.direction = "LONG"
      <4>1. bar.close \in Int
        BY <2>1 DEF Bars
      <4>2. Settled(s, direct, 1) /\ Ended(s, direct, bar, c)
        BY <2>1, <4>1, ValidityEndSettled, ValidityEndResult
      <4> QED
        BY <3>1, <4>2 DEF Direction, Ended
    <3>2. CASE c.signal.direction # "LONG"
      <4> DEFINE t == MirrorState(s)
                 mbar == MirrorBar(bar)
                 x == ValidityEnd(t, mbar, c)
      <4>1. mbar.close \in Int
        BY <2>1, MirrorBarIsBar DEF Bars
      <4>2. Book(t, c) /\ SameGates(s, t) /\ Funds(t)
        BY MirrorStateKeeps, MirrorFunds
      <4>3. ended = MirrorResult(x)
        BY <3>2
      <4> HIDE DEF t, mbar, ended
      <4>4. t.status \in {"PENDING", "OPEN", "PARTIAL"}
        BY <2>1, <4>2 DEF SameGates
      <4>5. Settled(t, x, 1) /\ Ended(t, x, mbar, c)
        BY <4>1, <4>2, <4>4, ValidityEndSettled, ValidityEndResult
      <4> HIDE DEF x
      <4>6. Proper(x) /\ Book(x.state, c)
        BY <4>5 DEF Ended
      <4>7. Settled(s, ended, -1)
        BY <4>3, <4>5, <4>6, MirrorSettled DEF t
      <4>8. Proper(ended) /\ Book(ended.state, c)
        BY <4>3, <4>6, MirrorResultKeeps, MirrorStateKeeps
      <4> QED
        BY <3>2, <4>7, <4>8 DEF Direction
    <3> QED
      BY <3>1, <3>2
  <2>3. flag = FlagReview(ended.state, "STALE_EXIT_BAR", c.until)
    OBVIOUS
  <2> HIDE DEF ended, flag
  <2>4. Funds(ended.state)
    BY <2>2 DEF Settled
  <2>5. Settled(ended.state, flag, Direction(c)) /\ Flagged(ended.state, flag, bar, c)
    BY <2>2, <2>3, <2>4, FlagSettled, FlagResult
  <2>6. Proper(flag)
    BY <2>5 DEF Flagged, Commanded
  <2>7. Settled(s, After(ended.events, flag), Direction(c))
    BY <2>2, <2>5, <2>6, SettledAfter
  <2> QED
    BY <2>2, <2>7
<1> HIDE DEF direct, ended, flag, none, r
<1> QED
  BY <1>1, <1>2, <1>4, <1>5 DEF r

-----------------------------------------------------------------------------
(* A bar, and a run of bars: which events they write. *)

(***************************************************************************)
(* A set of integers between two bounds that is not empty has its Max and  *)
(* its Min.                                                                *)
(***************************************************************************)
LEMMA Extremes ==
  ASSUME NEW a \in Int, NEW b \in Int, NEW S \in SUBSET (a..b), S # {}
  PROVE  /\ Max(S) \in S /\ \A x \in S : x <= Max(S)
         /\ Min(S) \in S /\ \A x \in S : Min(S) <= x
<1> DEFINE Up == {x - a : x \in S}
           Down == {b - x : x \in S}
<1>1. Up \in SUBSET Nat /\ Up # {} /\ Down \in SUBSET Nat /\ Down # {}
  <2>1. \A x \in S : x - a \in Nat /\ b - x \in Nat
    OBVIOUS
  <2>2. PICK x \in S : TRUE
    OBVIOUS
  <2>3. x - a \in Up /\ b - x \in Down
    BY <2>2
  <2> QED
    BY <2>1, <2>3
<1>2. \E x \in S : \A y \in S : x <= y
  <2>1. PICK u \in Up : \A v \in Up : u <= v
    BY <1>1, Least
  <2>2. PICK x \in S : u = x - a
    BY <2>1
  <2>3. \A y \in S : u <= y - a
    BY <2>1
  <2> QED
    BY <2>2, <2>3
<1>3. \E x \in S : \A y \in S : x >= y
  <2>1. PICK u \in Down : \A v \in Down : u <= v
    BY <1>1, Least
  <2>2. PICK x \in S : u = b - x
    BY <2>1
  <2>3. \A y \in S : u <= b - y
    BY <2>1
  <2> QED
    BY <2>2, <2>3
<1>4. Max(S) \in S /\ \A x \in S : Max(S) >= x
  BY <1>3 DEF Max
<1>5. Min(S) \in S /\ \A x \in S : Min(S) <= x
  BY <1>2 DEF Min
<1> QED
  BY <1>4, <1>5

\* The fold that orders minutes.

Greatest(p, s) == Max(s)

(***************************************************************************)
(* A sequence picks its greatest index.                                    *)
(***************************************************************************)
LEMMA Indices ==
  ASSUME NEW R, NEW seq \in Seq(R)
  PROVE  /\ IsFiniteSet(DOMAIN seq) /\ \A t \in SUBSET DOMAIN seq : t # {} => Max(t) \in t
         /\ \A i \in DOMAIN seq : seq[i] \in R
<1> DEFINE n == Len(seq)
<1>1. n \in Nat /\ DOMAIN seq = 1..n /\ \A i \in 1..n : seq[i] \in R
  OBVIOUS
<1> HIDE DEF n
<1>2. IsFiniteSet(1..n)
  BY <1>1, FS_Interval
<1>3. ASSUME NEW t \in SUBSET (1..n), t # {} PROVE Max(t) \in t
  <2>1. 1 \in Int /\ n \in Int
    BY <1>1
  <2> QED
    BY <1>3, <2>1, Extremes
<1> QED
  BY <1>1, <1>2, <1>3

-----------------------------------------------------------------------------
(* What a bar writes, whatever the state was. *)

BarTypes == MarketEventTypes \cup {"EXPIRED"}

\* The result r of a bar at ts in the state s.
OfBar(s, r, ts) ==
  /\ Proper(r) /\ DOMAIN r.state = DOMAIN s
  /\ \A e \in Range(r.events) : e.type \in BarTypes /\ (e.type # "EXPIRED" => e.ts = ts)

(***************************************************************************)
(* No event, one event, and results one after the other.                   *)
(***************************************************************************)
LEMMA NothingOfBar ==
  ASSUME NEW s, NEW t, DOMAIN t = DOMAIN s, NEW ts
  PROVE  OfBar(s, Unchanged(t), ts)
<1>1. /\ Proper(Unchanged(t)) /\ Unchanged(t).state = t /\ Range(Unchanged(t).events) = {}
  BY NoEvents
<1> QED
  BY <1>1 DEF OfBar

(***************************************************************************)
(* One event of the bar.                                                   *)
(***************************************************************************)
LEMMA OneOfBar ==
  ASSUME NEW s, NEW t, DOMAIN t = DOMAIN s, NEW ts, NEW e, Entry(e),
         e.type \in BarTypes, e.type # "EXPIRED" => e.ts = ts
  PROVE  OfBar(s, StepResult(t, <<e>>), ts)
<1> DEFINE r == StepResult(t, <<e>>)
<1>1. Proper(r) /\ r.state = t /\ Range(r.events) = {e}
  BY FewEvents
<1> HIDE DEF r
<1>2. OfBar(s, r, ts)
  BY <1>1 DEF OfBar
<1> QED
  BY <1>2 DEF r

(***************************************************************************)
(* One result after another.                                               *)
(***************************************************************************)
LEMMA AfterOfBar ==
  ASSUME NEW s, NEW r, NEW q, NEW ts, OfBar(s, r, ts), OfBar(r.state, q, ts)
  PROVE  OfBar(s, After(r.events, q), ts)
<1> DEFINE a == After(r.events, q)
<1>1. Log(r.events) /\ Proper(q)
  BY DEF OfBar, Proper
<1>2. Proper(a) /\ a.state = q.state /\ Range(a.events) = Range(r.events) \cup Range(q.events)
  BY <1>1, AfterEvents
<1> HIDE DEF a
<1>3. OfBar(s, a, ts)
  BY <1>2 DEF OfBar
<1> QED
  BY <1>3 DEF a

(***************************************************************************)
(* A position is closed by one event of the bar.                           *)
(***************************************************************************)
LEMMA CloseOfBar ==
  ASSUME NEW s, NEW t, DOMAIN t = DOMAIN s, NEW bar, NEW c, NEW type \in Exits, NEW price,
         NEW level, NEW reason
  PROVE  OfBar(s, Close(t, bar, c, type, price, level, reason), bar.ts)
<1> DEFINE pnl == (price - t.avg_entry) * t.qty_open
           cost == ExecutionCost(c, price, t.qty_open, "exit")
           u == [t EXCEPT !.status = "CLOSED", !.qty_open = 0, !.realized_pnl = @ + pnl,
                  !.costs = @ + cost, !.close_reason = reason, !.closed_at = bar.ts,
                  !.final_event_ts = bar.ts]
           e == [Event(type, bar.ts) EXCEPT !.price = price, !.level = level,
                   !.qty = t.qty_open, !.pnl = pnl, !.cost = cost]
<1>1. Close(t, bar, c, type, price, level, reason) = StepResult(u, <<e>>)
  BY DEF Close
<1> HIDE DEF pnl, cost
<1>2. DOMAIN u = DOMAIN s
  OBVIOUS
<1>3. Entry(e) /\ e.type = type /\ e.ts = bar.ts
  BY DEF Entry, Event
<1> HIDE DEF u, e
<1>4. e.type \in BarTypes
  BY <1>3 DEF Exits, BarTypes, MarketEventTypes
<1> QED
  BY <1>1, <1>2, <1>3, <1>4, OneOfBar

(***************************************************************************)
(* So is a part of it sold.                                                *)
(***************************************************************************)
LEMMA ScaleOutOfBar ==
  ASSUME NEW s, NEW t, DOMAIN t = DOMAIN s, NEW bar, NEW sig, NEW c
  PROVE  OfBar(s, ScaleOut(t, bar, sig, c), bar.ts)
<1> DEFINE qty == (t.qty_total * c.config.scale_out_pct) \div 100
           pnl == (sig.target1 - t.avg_entry) * qty
           cost == ExecutionCost(c, sig.target1, qty, "exit")
           u == [t EXCEPT !.status = "PARTIAL", !.t1_done = TRUE, !.qty_open = @ - qty,
                  !.realized_pnl = @ + pnl, !.costs = @ + cost,
                  !.stop_previous = t.stop_current, !.stop_current = t.avg_entry,
                  !.stop_active_from = NextExpectedMinute(bar.ts)]
           e == [Event("TARGET1_HIT", bar.ts) EXCEPT !.price = sig.target1,
                   !.level = t.avg_entry, !.qty = qty, !.pnl = pnl, !.cost = cost]
<1>1. ScaleOut(t, bar, sig, c) = StepResult(u, <<e>>)
  BY DEF ScaleOut
<1> HIDE DEF qty, pnl, cost
<1>2. DOMAIN u = DOMAIN s
  OBVIOUS
<1>3. Entry(e) /\ e.type = "TARGET1_HIT" /\ e.ts = bar.ts
  BY DEF Entry, Event
<1> HIDE DEF u, e
<1>4. e.type \in BarTypes
  BY <1>3 DEF BarTypes, MarketEventTypes
<1> QED
  BY <1>1, <1>2, <1>3, <1>4, OneOfBar

(***************************************************************************)
(* The exit phase.                                                         *)
(***************************************************************************)
LEMMA ExitOfBar ==
  ASSUME NEW s, NEW t, DOMAIN t = DOMAIN s, NEW bar, NEW sig, NEW c, NEW entryBar
  PROVE  OfBar(s, ExitPhase(t, bar, sig, c, entryBar), bar.ts)
<1> DEFINE stop == IF t.stop_active_from # None /\ bar.ts < t.stop_active_from
                   THEN t.stop_previous ELSE t.stop_current
           stopped == bar.low <= stop
           seen == [t EXCEPT !.best_price = IF entryBar \/ stopped THEN @ ELSE Greater(@, bar.high),
                             !.worst_price = Lesser(@, bar.low)]
           raw == Lesser(bar.open, stop)
           hit1 == ~t.t1_done /\ bar.high >= sig.target1
           scaled == IF hit1 THEN ScaleOut(seen, bar, sig, c) ELSE Unchanged(seen)
           asStop == Close(seen, bar, c, "STOPPED", AdverseSell(raw, c.config.stop_slip), raw, "STOPPED")
           asOne == Close(seen, bar, c, "TARGET1_HIT", sig.target1, None, "TARGET_FINAL")
           asTwo == Close(scaled.state, bar, c, "TARGET2_HIT", sig.target2, None, "TARGET_FINAL")
<1>1. ExitPhase(t, bar, sig, c, entryBar)
        = IF stopped THEN asStop ELSE IF entryBar THEN Unchanged(seen)
          ELSE IF hit1 /\ sig.target2 = None THEN asOne
          ELSE IF scaled.state.t1_done /\ sig.target2 # None /\ bar.high >= sig.target2
          THEN After(scaled.events, asTwo) ELSE scaled
  BY DEF ExitPhase
<1>2. DOMAIN seen = DOMAIN s
  OBVIOUS
<1>3. "STOPPED" \in Exits /\ "TARGET1_HIT" \in Exits /\ "TARGET2_HIT" \in Exits
  BY DEF Exits
<1> HIDE DEF stop, stopped, seen, raw, hit1
<1>4. OfBar(s, asStop, bar.ts) /\ OfBar(s, asOne, bar.ts)
  BY <1>2, <1>3, CloseOfBar
<1>5. OfBar(s, Unchanged(seen), bar.ts) /\ OfBar(s, ScaleOut(seen, bar, sig, c), bar.ts)
  BY <1>2, NothingOfBar, ScaleOutOfBar
<1>6. OfBar(s, scaled, bar.ts)
  BY <1>5
<1> HIDE DEF scaled
<1>7. OfBar(scaled.state, asTwo, bar.ts)
  BY <1>3, CloseOfBar
<1> HIDE DEF asStop, asOne, asTwo
<1>8. OfBar(s, After(scaled.events, asTwo), bar.ts)
  BY <1>6, <1>7, AfterOfBar
<1> QED
  BY <1>1, <1>4, <1>5, <1>6, <1>8

(***************************************************************************)
(* The entry.                                                              *)
(***************************************************************************)
LEMMA FillOfBar ==
  ASSUME NEW s, NEW bar, NEW sig, NEW c, NEW raw
  PROVE  OfBar(s, Fill(s, bar, sig, c, raw), bar.ts)
<1> DEFINE price == AdverseBuy(raw, c.config.entry_slip)
           qty == c.config.risk_amount \div (price - sig.stop)
           cost == ExecutionCost(c, price, qty, "entry")
           u == [s EXCEPT !.status = "OPEN", !.avg_entry = price, !.initial_stop = sig.stop,
                  !.stop_current = sig.stop, !.qty_total = qty, !.qty_open = qty,
                  !.costs = @ + cost, !.opened_at = bar.ts, !.best_price = price,
                  !.entry_path = IF s.zone_ever_lost THEN "RECLAIMED" ELSE "DIRECT"]
           e == [Event("FILLED", bar.ts) EXCEPT !.price = price, !.level = raw,
                   !.qty = qty, !.cost = cost]
<1>1. Fill(s, bar, sig, c, raw) = StepResult(u, <<e>>)
  BY DEF Fill
<1> HIDE DEF price, qty, cost
<1>2. DOMAIN u = DOMAIN s
  OBVIOUS
<1>3. Entry(e) /\ e.type = "FILLED" /\ e.ts = bar.ts
  BY DEF Entry, Event
<1> HIDE DEF u, e
<1>4. e.type \in BarTypes
  BY <1>3 DEF BarTypes, MarketEventTypes
<1> QED
  BY <1>1, <1>2, <1>3, <1>4, OneOfBar

(***************************************************************************)
(* An invalidation.                                                        *)
(***************************************************************************)
LEMMA InvalidateOfBar ==
  ASSUME NEW s, NEW t, DOMAIN t = DOMAIN s, NEW bar
  PROVE  OfBar(s, Invalidate(t, bar), bar.ts)
<1> DEFINE u == [t EXCEPT !.status = "INVALIDATED", !.final_event_ts = bar.ts]
           e == Event("INVALIDATED", bar.ts)
<1>1. Invalidate(t, bar) = StepResult(u, <<e>>) /\ DOMAIN u = DOMAIN s
  BY DEF Invalidate
<1>2. Entry(e) /\ e.type \in BarTypes /\ e.ts = bar.ts
  BY DEF Entry, Event, BarTypes, MarketEventTypes
<1> HIDE DEF u, e
<1> QED
  BY <1>1, <1>2, OneOfBar

(***************************************************************************)
(* The rules of the zone, and the trigger.                                 *)
(***************************************************************************)
LEMMA ZoneOfBar ==
  ASSUME NEW s, NEW bar, NEW sig
  PROVE  /\ OfBar(s, LoseZone(s, bar, sig), bar.ts)
         /\ OfBar(s, ReclaimZone(s, bar, sig), bar.ts)
         /\ OfBar(s, HitTrigger(s, bar, sig), bar.ts)
<1> DEFINE lost == [s EXCEPT !.zone_lost = TRUE, !.zone_ever_lost = TRUE]
           loss == [Event("ZONE_LOST", bar.ts) EXCEPT !.level = sig.low]
           back == [s EXCEPT !.zone_lost = FALSE, !.entry_eligible_from = NextExpectedMinute(bar.ts)]
           reclaim == Event("ZONE_RECLAIMED", bar.ts)
           hit == [s EXCEPT !.trigger_hit_at = bar.ts]
           trigger == [Event("TRIGGER_HIT", bar.ts) EXCEPT !.price = sig.trigger]
<1>1. /\ LoseZone(s, bar, sig) = StepResult(lost, <<loss>>) \/ LoseZone(s, bar, sig) = Unchanged(s)
      /\ ReclaimZone(s, bar, sig) = StepResult(back, <<reclaim>>)
           \/ ReclaimZone(s, bar, sig) = Unchanged(s)
      /\ HitTrigger(s, bar, sig) = StepResult(hit, <<trigger>>)
           \/ HitTrigger(s, bar, sig) = Unchanged(s)
  BY DEF LoseZone, ReclaimZone, HitTrigger
<1>2. DOMAIN lost = DOMAIN s /\ DOMAIN back = DOMAIN s /\ DOMAIN hit = DOMAIN s
  OBVIOUS
<1>3. /\ Entry(loss) /\ loss.type \in BarTypes /\ loss.ts = bar.ts
      /\ Entry(reclaim) /\ reclaim.type \in BarTypes /\ reclaim.ts = bar.ts
      /\ Entry(trigger) /\ trigger.type \in BarTypes /\ trigger.ts = bar.ts
  BY DEF Entry, Event, BarTypes, MarketEventTypes
<1> HIDE DEF lost, loss, back, reclaim, hit, trigger
<1>4. OfBar(s, Unchanged(s), bar.ts)
  BY NothingOfBar
<1>5. /\ OfBar(s, StepResult(lost, <<loss>>), bar.ts)
      /\ OfBar(s, StepResult(back, <<reclaim>>), bar.ts)
      /\ OfBar(s, StepResult(hit, <<trigger>>), bar.ts)
  BY <1>2, <1>3, OneOfBar
<1> QED
  BY <1>1, <1>4, <1>5

(***************************************************************************)
(* A bar without an entry.                                                 *)
(***************************************************************************)
LEMMA GateOfBar ==
  ASSUME NEW s, NEW bar, NEW sig, NEW c
  PROVE  OfBar(s, Gate(s, bar, sig, c), bar.ts)
<1> DEFINE lost == LoseZone(s, bar, sig)
           reclaimed == ReclaimZone(lost.state, bar, sig)
           both == After(lost.events, reclaimed)
           hit == HitTrigger(reclaimed.state, bar, sig)
           out == Invalidate(lost.state, bar)
<1>1. OfBar(s, lost, bar.ts) /\ OfBar(lost.state, reclaimed, bar.ts)
  BY ZoneOfBar
<1>2. OfBar(s, both, bar.ts)
  BY <1>1, AfterOfBar
<1>3. OfBar(lost.state, out, bar.ts) /\ OfBar(reclaimed.state, hit, bar.ts)
  BY InvalidateOfBar, ZoneOfBar
<1>4. both.events = lost.events \o reclaimed.events /\ both.state = reclaimed.state
  <2> HIDE DEF lost, reclaimed
  <2>1. reclaimed \in [state : {reclaimed.state}, events : {reclaimed.events}]
    BY <1>1 DEF OfBar, Proper
  <2> QED
    BY <2>1 DEF After
<1>5. Gate(s, bar, sig, c)
        = IF lost.events # <<>> /\ c.config.policy = "CANCEL" THEN After(lost.events, out)
          ELSE After(lost.events \o reclaimed.events, hit)
  BY DEF Gate
<1> HIDE DEF lost, reclaimed, both, hit, out
<1>6. OfBar(s, After(lost.events, out), bar.ts)
  BY <1>1, <1>3, AfterOfBar
<1>7. OfBar(s, After(both.events, hit), bar.ts)
  BY <1>2, <1>3, <1>4, AfterOfBar
<1> QED
  BY <1>4, <1>5, <1>6, <1>7

(***************************************************************************)
(* The entry phase.                                                        *)
(***************************************************************************)
LEMMA EntryOfBar ==
  ASSUME NEW s, NEW bar, NEW sig, NEW c
  PROVE  OfBar(s, EntryPhase(s, bar, sig, c), bar.ts)
<1> DEFINE raw == EntryPrice(bar, sig)
           filled == Fill(s, bar, sig, c, raw)
           exit == ExitPhase(filled.state, bar, sig, c, TRUE)
<1>1. EntryPhase(s, bar, sig, c) \in
        {Invalidate(s, bar), After(filled.events, exit), Gate(s, bar, sig, c)}
  BY DEF EntryPhase
<1>2. OfBar(s, filled, bar.ts) /\ OfBar(filled.state, exit, bar.ts)
  BY FillOfBar, ExitOfBar
<1>3. OfBar(s, Invalidate(s, bar), bar.ts) /\ OfBar(s, Gate(s, bar, sig, c), bar.ts)
  BY InvalidateOfBar, GateOfBar
<1> HIDE DEF raw, filled, exit
<1>4. OfBar(s, After(filled.events, exit), bar.ts)
  BY <1>2, AfterOfBar
<1> QED
  BY <1>1, <1>3, <1>4

(***************************************************************************)
(* The end of the window: an expiry, or a time exit.                       *)
(***************************************************************************)
LEMMA EndOfBar ==
  ASSUME NEW s, NEW bar, NEW c
  PROVE  /\ OfBar(s, ValidityEnd(s, bar, c), bar.ts)
         /\ \A e \in Range(ValidityEnd(s, bar, c).events) : e.type \in {"EXPIRED", "TIME_EXIT"}
<1> DEFINE u == [s EXCEPT !.status = "EXPIRED", !.final_event_ts = c.until]
           e == Event("EXPIRED", None)
           out == Close(s, bar, c, "TIME_EXIT", AdverseSell(bar.close, c.config.stop_slip),
                        bar.close, "TIME_EXIT")
<1>1. ValidityEnd(s, bar, c) = IF s.status = "PENDING" THEN StepResult(u, <<e>>) ELSE out
  BY DEF ValidityEnd
<1>2. Entry(e) /\ e.type = "EXPIRED" /\ e.type \in BarTypes
  BY DEF Entry, Event, BarTypes, MarketEventTypes
<1>3. DOMAIN u = DOMAIN s
  OBVIOUS
<1>4. OfBar(s, out, bar.ts)
  BY CloseOfBar DEF Exits
<1>5. \A x \in Range(out.events) : x.type = "TIME_EXIT"
  <2> DEFINE pnl == (AdverseSell(bar.close, c.config.stop_slip) - s.avg_entry) * s.qty_open
             cost == ExecutionCost(c, AdverseSell(bar.close, c.config.stop_slip), s.qty_open, "exit")
             f == [Event("TIME_EXIT", bar.ts) EXCEPT
                     !.price = AdverseSell(bar.close, c.config.stop_slip), !.level = bar.close,
                     !.qty = s.qty_open, !.pnl = pnl, !.cost = cost]
  <2>1. out.events = <<f>>
    BY DEF Close, StepResult
  <2> HIDE DEF out, pnl, cost
  <2>2. f.type = "TIME_EXIT"
    BY DEF Event
  <2> HIDE DEF f
  <2> QED
    BY <2>1, <2>2 DEF Range
<1> HIDE DEF u, e, out
<1>6. OfBar(s, StepResult(u, <<e>>), bar.ts)
  BY <1>2, <1>3, OneOfBar
<1>7. Range(StepResult(u, <<e>>).events) = {e}
  BY <1>2, FewEvents
<1> QED
  BY <1>1, <1>2, <1>4, <1>5, <1>6, <1>7

(***************************************************************************)
(* A bar, in LONG terms.                                                   *)
(***************************************************************************)
LEMMA LongStepOfBar ==
  ASSUME NEW s, NEW bar, NEW sig, NEW c
  PROVE  OfBar(s, LongStep(s, bar, sig, c), bar.ts)
<1> DEFINE phase == IF s.status = "PENDING" THEN EntryPhase(s, bar, sig, c)
                    ELSE ExitPhase(s, bar, sig, c, FALSE)
           done == [phase EXCEPT !.state.last_bar_ts = bar.ts]
           end == ValidityEnd(done.state, bar, c)
<1>1. LongStep(s, bar, sig, c)
        = IF IsFinal(done.state) \/ ~IsLastBar(bar, c) THEN done ELSE After(done.events, end)
  BY DEF LongStep
<1>2. OfBar(s, phase, bar.ts)
  BY EntryOfBar, ExitOfBar
<1> HIDE DEF phase
<1>3. OfBar(s, done, bar.ts)
  <2> DEFINE t == [phase.state EXCEPT !.last_bar_ts = bar.ts]
             evs == phase.events
  <2>1. phase \in [state : {phase.state}, events : {phase.events}] /\ Log(evs)
    BY <1>2 DEF OfBar, Proper
  <2>2. done \in [state : {t}, events : {evs}]
    BY <2>1
  <2> HIDE DEF done
  <2>3. done.state = t /\ done.events = evs
    BY <2>2
  <2>4. DOMAIN t = DOMAIN phase.state
    OBVIOUS
  <2> HIDE DEF t, evs
  <2>5. done \in [state : {done.state}, events : {done.events}] /\ Log(done.events)
    BY <2>1, <2>2, <2>3
  <2> QED
    BY <1>2, <2>3, <2>4, <2>5 DEF OfBar, Proper, evs
<1> HIDE DEF done
<1>4. OfBar(done.state, end, bar.ts)
  BY EndOfBar
<1> HIDE DEF end
<1>5. OfBar(s, After(done.events, end), bar.ts)
  BY <1>3, <1>4, AfterOfBar
<1> QED
  BY <1>1, <1>3, <1>5

(***************************************************************************)
(* The mirror keeps what a bar writes.                                     *)
(***************************************************************************)
LEMMA MirrorOfBar ==
  ASSUME NEW s, NEW r, NEW ts, OfBar(MirrorState(s), r, ts)
  PROVE  /\ OfBar(s, MirrorResult(r), ts)
         /\ {e.type : e \in Range(MirrorResult(r).events)} = {e.type : e \in Range(r.events)}
<1> DEFINE m == MirrorResult(r)
<1>1. /\ Proper(r) /\ Proper(m) /\ m.state = MirrorState(r.state)
      /\ Range(m.events) = {MirrorEvent(e) : e \in Range(r.events)}
  BY MirrorResultKeeps DEF OfBar
<1> HIDE DEF m
<1>2. DOMAIN MirrorState(r.state) = DOMAIN r.state /\ DOMAIN MirrorState(s) = DOMAIN s
  BY DEF MirrorState
<1>3. \A e \in Range(r.events) : MirrorEvent(e).type = e.type /\ MirrorEvent(e).ts = e.ts
  BY <1>1, MirrorEventKeeps DEF Proper, Log
<1>4. OfBar(s, m, ts)
  BY <1>1, <1>2, <1>3 DEF OfBar
<1>5. {e.type : e \in Range(m.events)} = {e.type : e \in Range(r.events)}
  BY <1>1, <1>3
<1> QED
  BY <1>4, <1>5 DEF m

(***************************************************************************)
(* A bar, in either direction; an order that is frozen ignores it.         *)
(***************************************************************************)
LEMMA StepOfBar ==
  ASSUME NEW s, NEW bar, "ts" \in DOMAIN bar, NEW c
  PROVE  OfBar(s, Step(s, bar, c), bar.ts) /\ (Frozen(s) => Step(s, bar, c) = Unchanged(s))
<1> DEFINE msig == MirrorSignal(c.signal)
           mbar == MirrorBar(bar)
           r == LongStep(MirrorState(s), mbar, msig, c)
<1>1. Step(s, bar, c) = IF Ignored(s, bar, c) THEN Unchanged(s)
                        ELSE IF c.signal.direction = "LONG" THEN LongStep(s, bar, c.signal, c)
                        ELSE MirrorResult(r)
  BY DEF Step
<1>2. Frozen(s) => Ignored(s, bar, c)
  BY DEF Ignored
<1>3. OfBar(s, Unchanged(s), bar.ts) /\ OfBar(s, LongStep(s, bar, c.signal, c), bar.ts)
  BY NothingOfBar, LongStepOfBar
<1>4. OfBar(MirrorState(s), r, mbar.ts)
  BY LongStepOfBar
<1>6. mbar.ts = bar.ts
  BY DEF MirrorBar
<1> HIDE DEF r
<1>5. OfBar(s, MirrorResult(r), mbar.ts)
  BY <1>4, MirrorOfBar
<1> QED
  BY <1>1, <1>2, <1>3, <1>5, <1>6

-----------------------------------------------------------------------------
(* What a run of bars writes. *)

StepOn(p, bar, result) == After(result.events, Step(result.state, bar, p.ctx))
BarAt(p, i) == p.bars[i]

\* The result of running bars from the state s: nothing in a frozen order, and
\* otherwise events of those bars.
Ran(s, bars, r) ==
  /\ Proper(r) /\ DOMAIN r.state = DOMAIN s
  /\ \A e \in Range(r.events) :
       e.type \in BarTypes /\ (e.type # "EXPIRED" => \E bar \in Range(bars) : e.ts = bar.ts)
  /\ Frozen(s) => r.state = s /\ Range(r.events) = {}
RanSoFar(p, s, result) == Ran(p.state, p.bars, result)

Running == INSTANCE FoldProofs WITH Apply <- StepOn, Item <- BarAt, Pick <- Greatest, Holds <- RanSoFar

(***************************************************************************)
(* One bar more.                                                           *)
(***************************************************************************)
LEMMA RunsOn ==
  ASSUME NEW s, NEW bars, NEW c, NEW r, Ran(s, bars, r), NEW bar \in Range(bars), "ts" \in DOMAIN bar
  PROVE  Ran(s, bars, After(r.events, Step(r.state, bar, c)))
<1> DEFINE q == Step(r.state, bar, c)
           a == After(r.events, q)
<1>1. OfBar(r.state, q, bar.ts) /\ (Frozen(r.state) => q = Unchanged(r.state))
  BY StepOfBar
<1> HIDE DEF q
<1>2. Log(r.events) /\ Proper(q)
  BY <1>1 DEF Ran, OfBar, Proper
<1>3. Proper(a) /\ a.state = q.state /\ Range(a.events) = Range(r.events) \cup Range(q.events)
  BY <1>2, AfterEvents
<1> HIDE DEF a
<1>4. \A e \in Range(a.events) :
        e.type \in BarTypes /\ (e.type # "EXPIRED" => \E b \in Range(bars) : e.ts = b.ts)
  BY <1>1, <1>3 DEF Ran, OfBar
<1>5. DOMAIN a.state = DOMAIN s
  BY <1>1, <1>3 DEF Ran, OfBar
<1>6. ASSUME Frozen(s) PROVE a.state = s /\ Range(a.events) = {}
  <2>1. r.state = s /\ Range(r.events) = {} /\ q = Unchanged(r.state)
    BY <1>1, <1>6 DEF Ran
  <2>2. q.state = s /\ Range(q.events) = {}
    BY <2>1, NoEvents
  <2> QED
    BY <1>3, <2>1, <2>2
<1>7. Ran(s, bars, a)
  BY <1>3, <1>4, <1>5, <1>6 DEF Ran
<1> QED
  BY <1>7 DEF a, q

(***************************************************************************)
(* run_bars, over any number of bars.                                      *)
(***************************************************************************)
LEMMA RunBarsRan ==
  ASSUME NEW s, NEW bars, bars \in Seq(Range(bars)),
         \A bar \in Range(bars) : "ts" \in DOMAIN bar, NEW c
  PROVE  Ran(s, bars, RunBars(s, bars, c))
<1> DEFINE p == [state |-> s, bars |-> bars, ctx |-> c]
           S == DOMAIN bars
<1>1. S = 1..Len(bars) /\ Len(bars) \in Nat
  OBVIOUS
<1>2. Running!IsFiniteSet(S)
  <2>1. IsFiniteSet(1..Len(bars))
    BY <1>1, FS_Interval
  <2> QED
    BY <1>1, <2>1 DEF IsFiniteSet, Running!IsFiniteSet
<1>3. \A t \in SUBSET S : t # {} => Max(t) \in t
  BY Indices
<1> HIDE DEF S
<1>4. Running!Picks(p, S)
  BY <1>3 DEF Running!Picks, Greatest
<1>5. RanSoFar(p, {}, Unchanged(s))
  <2>1. Proper(Unchanged(s)) /\ Unchanged(s).state = s /\ Range(Unchanged(s).events) = {}
    BY NoEvents
  <2> QED
    BY <2>1 DEF RanSoFar, Ran
<1>6. ASSUME NEW t \in SUBSET S, t # {}, NEW acc, RanSoFar(p, t \ {Greatest(p, t)}, acc)
      PROVE  RanSoFar(p, t, StepOn(p, BarAt(p, Greatest(p, t)), acc))
  <2> DEFINE bar == bars[Greatest(p, t)]
  <2>1. Greatest(p, t) \in DOMAIN bars
    BY <1>3, <1>6 DEF Greatest, S
  <2>2. bar \in Range(bars)
    BY <2>1 DEF Range
  <2>3. Ran(s, bars, acc)
    BY <1>6 DEF RanSoFar
  <2>4. "ts" \in DOMAIN bar
    BY <2>2
  <2> HIDE DEF bar
  <2>5. Ran(s, bars, After(acc.events, Step(acc.state, bar, c)))
    BY <2>2, <2>3, <2>4, RunsOn
  <2> QED
    BY <2>5 DEF RanSoFar, StepOn, BarAt, bar
<1> HIDE DEF p
<1>7. RanSoFar(p, S, Running!Fold(p, Unchanged(s), S))
  BY <1>2, <1>4, <1>5, <1>6, Running!FoldHolds
<1>8. RunBars(s, bars, c) = Running!Fold(p, Unchanged(s), S)
  BY DEF RunBars, FoldLeft, Running!Fold, MapThenFoldSet, Running!MapThenFoldSet, StepOn, BarAt,
         Greatest, p, S
<1> QED
  BY <1>7, <1>8 DEF RanSoFar, p

-----------------------------------------------------------------------------
(* What the commands write. *)

\* What a freeze rules out.
Forbidden == MarketEventTypes \cup {"EXPIRED", "DIVIDEND"}

\* A projection's state has these fields.
Fielded(s) == {"frozen_reasons", "review_reasons"} \subseteq DOMAIN s

\* The result r of anything in the state s: a freeze stays, and rules out the
\* events of bars, dividends and ends.
Calm(s, r) ==
  /\ Proper(r) /\ DOMAIN r.state = DOMAIN s
  /\ Frozen(s) \/ Has(r, "FROZEN") =>
       Frozen(r.state) /\ \A e \in Range(r.events) : e.type \notin Forbidden

Writes(r, types) == \A e \in Range(r.events) : e.type \in types

(***************************************************************************)
(* A command that writes nothing, or one event.                            *)
(***************************************************************************)
LEMMA NothingCalm ==
  ASSUME NEW s, NEW types
  PROVE  Calm(s, Unchanged(s)) /\ Writes(Unchanged(s), types)
<1>1. Proper(Unchanged(s)) /\ Unchanged(s).state = s /\ Range(Unchanged(s).events) = {}
  BY NoEvents
<1> QED
  BY <1>1 DEF Calm, Has, Writes

(***************************************************************************)
(* One event that is not a freeze.                                         *)
(***************************************************************************)
LEMMA OneCalm ==
  ASSUME NEW s, NEW t, DOMAIN t = DOMAIN s, NEW e, Entry(e), e.type # "FROZEN",
         Frozen(s) => Frozen(t) /\ e.type \notin Forbidden
  PROVE  Calm(s, StepResult(t, <<e>>)) /\ Writes(StepResult(t, <<e>>), {e.type})
<1> DEFINE r == StepResult(t, <<e>>)
<1>1. Proper(r) /\ r.state = t /\ Range(r.events) = {e}
  BY FewEvents
<1> HIDE DEF r
<1>2. Calm(s, r) /\ Writes(r, {e.type})
  BY <1>1 DEF Calm, Has, Writes
<1> QED
  BY <1>2 DEF r

(***************************************************************************)
(* One result after another that has no freeze.                            *)
(***************************************************************************)
LEMMA AfterCalm ==
  ASSUME NEW s, NEW r, Calm(s, r), NEW q, Calm(r.state, q), ~Has(r, "FROZEN"), ~Has(q, "FROZEN"),
         NEW types, Writes(r, types), Writes(q, types)
  PROVE  Calm(s, After(r.events, q)) /\ Writes(After(r.events, q), types)
<1> DEFINE a == After(r.events, q)
<1>1. Log(r.events) /\ Proper(q)
  BY DEF Calm, Proper
<1>2. Proper(a) /\ a.state = q.state /\ Range(a.events) = Range(r.events) \cup Range(q.events)
  BY <1>1, AfterEvents
<1> HIDE DEF a
<1>3. ~Has(a, "FROZEN") /\ Writes(a, types)
  BY <1>2 DEF Has, Writes
<1>4. Calm(s, a)
  BY <1>2, <1>3 DEF Calm
<1> QED
  BY <1>3, <1>4 DEF a

(***************************************************************************)
(* Bars.                                                                   *)
(***************************************************************************)
LEMMA BarsCalm ==
  ASSUME NEW s, NEW bars, NEW r, Ran(s, bars, r)
  PROVE  Calm(s, r) /\ Writes(r, BarTypes)
<1>1. "FROZEN" \notin BarTypes
  BY DEF BarTypes, MarketEventTypes
<1> QED
  BY <1>1 DEF Ran, Calm, Has, Writes

(***************************************************************************)
(* flag_review.                                                            *)
(***************************************************************************)
LEMMA FlagCalm ==
  ASSUME NEW s, Fielded(s), NEW reason, NEW ref
  PROVE  Calm(s, FlagReview(s, reason, ref)) /\ Writes(FlagReview(s, reason, ref), {"NEEDS_REVIEW"})
<1> DEFINE t == [s EXCEPT !.review_reasons = @ \cup {reason}]
           e == [Event("NEEDS_REVIEW", None) EXCEPT !.reason = reason, !.level = ref]
<1>1. FlagReview(s, reason, ref) = StepResult(t, <<e>>)
  BY DEF FlagReview
<1>2. DOMAIN t = DOMAIN s /\ t.frozen_reasons = s.frozen_reasons
  BY DEF Fielded
<1>3. Entry(e) /\ e.type = "NEEDS_REVIEW" /\ "NEEDS_REVIEW" \notin Forbidden
  BY DEF Event, Entry, Forbidden, MarketEventTypes
<1> HIDE DEF t, e
<1>4. Frozen(s) => Frozen(t)
  BY <1>2 DEF Frozen
<1>5. Calm(s, StepResult(t, <<e>>)) /\ Writes(StepResult(t, <<e>>), {e.type})
  BY <1>2, <1>3, <1>4, OneCalm
<1> QED
  BY <1>1, <1>3, <1>5

(***************************************************************************)
(* cancel.                                                                 *)
(***************************************************************************)
LEMMA CancelCalm ==
  ASSUME NEW s, Fielded(s), NEW at
  PROVE  Calm(s, Cancel(s, at)) /\ Writes(Cancel(s, at), {"CANCELED"})
<1> DEFINE t == [s EXCEPT !.status = "CANCELED", !.final_event_ts = at]
           e == [Event("CANCELED", None) EXCEPT !.level = at]
<1>1. Cancel(s, at) = IF IsFinal(s) THEN Unchanged(s) ELSE StepResult(t, <<e>>)
  BY DEF Cancel
<1>2. DOMAIN t = DOMAIN s /\ t.frozen_reasons = s.frozen_reasons
  BY DEF Fielded
<1>3. Entry(e) /\ e.type = "CANCELED" /\ "CANCELED" \notin Forbidden
  BY DEF Event, Entry, Forbidden, MarketEventTypes
<1> HIDE DEF t, e
<1>4. Frozen(s) => Frozen(t)
  BY <1>2 DEF Frozen
<1>5. Calm(s, StepResult(t, <<e>>)) /\ Writes(StepResult(t, <<e>>), {e.type})
  BY <1>2, <1>3, <1>4, OneCalm
<1> QED
  BY <1>1, <1>3, <1>5, NothingCalm

(***************************************************************************)
(* freeze.                                                                 *)
(***************************************************************************)
LEMMA FreezeCalm ==
  ASSUME NEW s, Fielded(s), NEW reason, NEW ref
  PROVE  Calm(s, Freeze(s, reason, ref)) /\ Writes(Freeze(s, reason, ref), {"FROZEN", "NEEDS_REVIEW"})
<1> DEFINE t == [s EXCEPT !.frozen_reasons = @ \cup {reason}]
           e == [Event("FROZEN", None) EXCEPT !.reason = reason, !.level = ref]
           q == FlagReview(t, reason, ref)
           a == After(<<e>>, q)
<1>1. Freeze(s, reason, ref) = IF IsFinal(s) \/ reason \in s.frozen_reasons THEN Unchanged(s) ELSE a
  BY DEF Freeze
<1>2. DOMAIN t = DOMAIN s /\ Fielded(t) /\ Frozen(t)
  BY DEF Fielded, Frozen
<1>3. Entry(e) /\ e.type = "FROZEN"
  BY DEF Event, Entry
<1> HIDE DEF t, e
<1>4. Calm(t, q) /\ Writes(q, {"NEEDS_REVIEW"})
  BY <1>2, FlagCalm
<1> HIDE DEF q
<1>5. Log(<<e>>) /\ Range(<<e>>) = {e}
  BY <1>3 DEF Log, Range
<1>6. Proper(a) /\ a.state = q.state /\ Range(a.events) = {e} \cup Range(q.events)
  BY <1>4, <1>5, AfterEvents DEF Calm
<1> HIDE DEF a
<1>7. {"FROZEN", "NEEDS_REVIEW"} \cap Forbidden = {}
  BY DEF Forbidden, MarketEventTypes
<1>8. \A x \in Range(a.events) : x.type \in {"FROZEN", "NEEDS_REVIEW"}
  BY <1>3, <1>4, <1>6 DEF Writes
<1>9. Frozen(a.state) /\ DOMAIN a.state = DOMAIN s
  BY <1>2, <1>4, <1>6 DEF Calm
<1>10. Calm(s, a) /\ Writes(a, {"FROZEN", "NEEDS_REVIEW"})
  BY <1>6, <1>7, <1>8, <1>9 DEF Calm, Writes
<1> QED
  BY <1>1, <1>10, NothingCalm

(***************************************************************************)
(* apply_dividend.                                                         *)
(***************************************************************************)
LEMMA DividendCalm ==
  ASSUME NEW s, Fielded(s), NEW c, NEW exDate, NEW amount, NEW validated
  PROVE  /\ Calm(s, ApplyDividend(s, c, exDate, amount, validated))
         /\ Writes(ApplyDividend(s, c, exDate, amount, validated), {"DIVIDEND", "NEEDS_REVIEW"})
<1> DEFINE cash == (IF c.signal.direction = "LONG" THEN amount ELSE -amount) * s.qty_open
           t == [s EXCEPT !.dividends = @ + cash]
           e == [Event("DIVIDEND", None) EXCEPT !.level = amount, !.qty = s.qty_open, !.pnl = cash]
           flagged == FlagReview(s, "DIVIDEND_UNVERIFIED", exDate)
<1>1. ApplyDividend(s, c, exDate, amount, validated)
        = IF IsFinal(s) \/ Frozen(s) \/ s.qty_open <= 0 THEN Unchanged(s)
          ELSE IF ~validated THEN flagged ELSE StepResult(t, <<e>>)
  BY DEF ApplyDividend
<1> HIDE DEF cash
<1>2. DOMAIN t = DOMAIN s
  OBVIOUS
<1>3. Entry(e) /\ e.type = "DIVIDEND"
  BY DEF Event, Entry
<1>4. Calm(s, flagged) /\ Writes(flagged, {"DIVIDEND", "NEEDS_REVIEW"})
  <2>1. Calm(s, flagged) /\ Writes(flagged, {"NEEDS_REVIEW"})
    BY FlagCalm
  <2> HIDE DEF flagged
  <2> QED
    BY <2>1 DEF Writes
<1> HIDE DEF t, e, flagged
<1>5. ~Frozen(s) => Calm(s, StepResult(t, <<e>>)) /\ Writes(StepResult(t, <<e>>), {e.type})
  BY <1>2, <1>3, OneCalm
<1>6. ~Frozen(s) => Writes(StepResult(t, <<e>>), {"DIVIDEND", "NEEDS_REVIEW"})
  BY <1>3, <1>5 DEF Writes
<1>7. Calm(s, Unchanged(s)) /\ Writes(Unchanged(s), {"DIVIDEND", "NEEDS_REVIEW"})
  BY NothingCalm
<1> QED
  BY <1>1, <1>4, <1>5, <1>6, <1>7

(***************************************************************************)
(* apply_validity_end.                                                     *)
(***************************************************************************)
LEMMA EndCalm ==
  ASSUME NEW s, Fielded(s), NEW c, NEW bar
  PROVE  /\ Calm(s, ApplyValidityEnd(s, c, bar))
         /\ Writes(ApplyValidityEnd(s, c, bar), {"EXPIRED", "TIME_EXIT", "NEEDS_REVIEW"})
<1> DEFINE Ends == {"EXPIRED", "TIME_EXIT", "NEEDS_REVIEW"}
           own == ValidityEnd(s, bar, c)
           mirrored == ValidityEnd(MirrorState(s), MirrorBar(bar), c)
           ended == IF c.signal.direction = "LONG" THEN own ELSE MirrorResult(mirrored)
           noBar == FlagReview(s, "NO_EXIT_BAR", c.until)
           stale == FlagReview(ended.state, "STALE_EXIT_BAR", c.until)
<1>1. ApplyValidityEnd(s, c, bar)
        = IF IsFinal(s) \/ Frozen(s) THEN Unchanged(s)
          ELSE IF s.status = "PENDING" THEN own
          ELSE IF bar = None THEN noBar
          ELSE IF IsLastBar(bar, c) THEN ended ELSE After(ended.events, stale)
  BY DEF ApplyValidityEnd
<1>2. \A r : Proper(r) /\ DOMAIN r.state = DOMAIN s /\ Writes(r, {"EXPIRED", "TIME_EXIT"}) /\ ~Frozen(s)
          => Calm(s, r) /\ ~Has(r, "FROZEN") /\ Writes(r, Ends)
  BY DEF Calm, Has, Writes
<1>3. Proper(own) /\ DOMAIN own.state = DOMAIN s /\ Writes(own, {"EXPIRED", "TIME_EXIT"})
  BY EndOfBar DEF OfBar, Writes
<1>4. Proper(ended) /\ DOMAIN ended.state = DOMAIN s /\ Writes(ended, {"EXPIRED", "TIME_EXIT"})
  <2> DEFINE m == MirrorResult(mirrored)
             ts == MirrorBar(bar).ts
  <2>1. OfBar(MirrorState(s), mirrored, ts) /\ Writes(mirrored, {"EXPIRED", "TIME_EXIT"})
    BY EndOfBar DEF Writes
  <2> HIDE DEF mirrored, ts
  <2>2. OfBar(s, m, ts) /\ {e.type : e \in Range(m.events)} = {e.type : e \in Range(mirrored.events)}
    BY <2>1, MirrorOfBar
  <2>3. Writes(m, {"EXPIRED", "TIME_EXIT"})
    <3> HIDE DEF m
    <3>1. \A e \in Range(mirrored.events) : e.type \in {"EXPIRED", "TIME_EXIT"}
      BY <2>1 DEF Writes
    <3>2. \A e \in Range(m.events) : e.type \in {x.type : x \in Range(mirrored.events)}
      BY <2>2
    <3> QED
      BY <3>1, <3>2 DEF Writes
  <2> QED
    BY <1>3, <2>2, <2>3 DEF OfBar
<1>5. Calm(s, noBar) /\ Writes(noBar, Ends)
  <2>1. Calm(s, noBar) /\ Writes(noBar, {"NEEDS_REVIEW"})
    BY FlagCalm
  <2> HIDE DEF noBar
  <2> QED
    BY <2>1 DEF Writes
<1>6. Fielded(ended.state)
  BY <1>4 DEF Fielded
<1> HIDE DEF own, ended, noBar
<1>7. Calm(ended.state, stale) /\ ~Has(stale, "FROZEN") /\ Writes(stale, Ends)
  <2>1. Calm(ended.state, stale) /\ Writes(stale, {"NEEDS_REVIEW"})
    BY <1>6, FlagCalm
  <2> HIDE DEF stale
  <2> QED
    BY <2>1 DEF Writes, Has
<1> HIDE DEF stale
<1>8. ASSUME ~Frozen(s)
      PROVE  /\ Calm(s, own) /\ Writes(own, Ends) /\ Calm(s, ended) /\ Writes(ended, Ends)
             /\ Calm(s, After(ended.events, stale)) /\ Writes(After(ended.events, stale), Ends)
  <2>1. /\ Calm(s, own) /\ Writes(own, Ends)
        /\ Calm(s, ended) /\ ~Has(ended, "FROZEN") /\ Writes(ended, Ends)
    BY <1>2, <1>3, <1>4, <1>8
  <2> HIDE DEF Ends
  <2> QED
    BY <1>7, <2>1, AfterCalm
<1>9. Calm(s, Unchanged(s)) /\ Writes(Unchanged(s), Ends)
  BY NothingCalm
<1> QED
  BY <1>1, <1>5, <1>8, <1>9

QualityTypes == {"DATA_QUALITY", "DATA_GAP", "NEEDS_REVIEW"}

-----------------------------------------------------------------------------
(* The calendar behind the segments. *)

(***************************************************************************)
(* A later session closes later, and opens after the earlier one's close.  *)
(***************************************************************************)
LEMMA ClosesInOrder ==
  ASSUME NEW i \in DOMAIN Sessions, NEW j \in DOMAIN Sessions
  PROVE  /\ i <= j => Sessions[i].close <= Sessions[j].close
         /\ i < j => Sessions[i].close <= Sessions[j].open
<1>1. /\ Len(Sessions) \in Nat /\ DOMAIN Sessions = 1..Len(Sessions)
      /\ \A k \in DOMAIN Sessions : /\ Sessions[k].open \in Nat /\ Sessions[k].close \in Nat
                                    /\ Sessions[k].open < Sessions[k].close
  BY Counted DEF Window
<1>2. \A k \in 1..(Len(Sessions) - 1) : Sessions[k].close <= Sessions[k + 1].open
  BY CalendarAssumption DEF IsCalendar
<1>3. ASSUME i < j PROVE Sessions[i].close <= Sessions[j].open
  <2>1. i \in 1..(Len(Sessions) - 1) /\ i + 1 \in DOMAIN Sessions /\ i + 1 <= j
    BY <1>1, <1>3
  <2>2. Sessions[i].close <= Sessions[i + 1].open /\ Sessions[i + 1].open <= Sessions[j].open
    BY <1>2, <2>1, OpensInOrder
  <2> QED
    BY <1>1, <2>1, <2>2
<1>4. ASSUME i <= j PROVE Sessions[i].close <= Sessions[j].close
  <2>1. i = j \/ i < j
    BY <1>1, <1>4
  <2> QED
    BY <1>1, <1>3, <2>1
<1> QED
  BY <1>3, <1>4

(***************************************************************************)
(* The sessions that are closed are the first ones.                        *)
(***************************************************************************)
LEMMA ClosedFirst ==
  ASSUME NEW t \in Int, NEW i \in DOMAIN Sessions
  PROVE  Sessions[i].close <= t <=> i <= ClosedBy(t)
<1> DEFINE D == {k \in DOMAIN Sessions : Sessions[k].close <= t}
<1>1. /\ Len(Sessions) \in Nat /\ DOMAIN Sessions = 1..Len(Sessions)
      /\ \A k \in DOMAIN Sessions : Sessions[k].close \in Nat
  BY Counted DEF Window
<1>2. ClosedBy(t) = Cardinality(D) /\ D \in SUBSET (1..Len(Sessions))
  BY <1>1 DEF ClosedBy
<1>3. i \in D <=> Sessions[i].close <= t
  OBVIOUS
<1>4. CASE D = {}
  <2>1. Cardinality(D) = 0
    BY <1>4, FS_EmptySet
  <2> QED
    BY <1>1, <1>2, <1>3, <1>4, <2>1
<1>5. CASE D # {}
  <2> DEFINE M == Max(D)
             n == Len(Sessions)
  <2>1. \A k \in D, j \in DOMAIN Sessions : j <= k => j \in D
    BY <1>1, ClosesInOrder
  <2>2. D \in SUBSET (1..n) /\ 1 \in Int /\ n \in Int
    BY <1>1, <1>2
  <2> HIDE DEF D, n
  <2>3. M \in D /\ \A k \in D : k <= M
    BY <1>5, <2>2, Extremes
  <2> HIDE DEF M
  <2>4. D = 1..M
    <3>1. M \in Nat /\ M <= n /\ n \in Nat /\ DOMAIN Sessions = 1..n
      BY <1>1, <2>2, <2>3 DEF n
    <3>2. \A k \in 1..M : k \in D
      BY <2>1, <2>3, <3>1
    <3>3. \A k \in D : k \in 1..M
      BY <2>2, <2>3, <3>1
    <3> QED
      BY <3>2, <3>3
  <2>5. Cardinality(1..M) = M
    BY <2>2, <2>3, FS_Interval
  <2> QED
    BY <1>1, <1>2, <1>3, <2>3, <2>4, <2>5
<1> QED
  BY <1>4, <1>5

(***************************************************************************)
(* The expected minutes are the whole minutes of the sessions.             *)
(***************************************************************************)
LEMMA Expected ==
  ASSUME NEW t \in Int
  PROVE  IsExpectedMinute(t) <=>
           /\ IsWholeMinute(t)
           /\ \E i \in DOMAIN Sessions : Sessions[i].open <= t /\ t < Sessions[i].close
<1> DEFINE k == ClosedBy(t) + 1
<1>1. /\ Len(Sessions) \in Nat \ {0} /\ DOMAIN Sessions = 1..Len(Sessions) /\ k \in 1..(Len(Sessions) + 1)
      /\ \A i \in DOMAIN Sessions : Sessions[i].open \in Nat /\ Sessions[i].close \in Nat
  <2>1. ClosedBy(t) \in 0..Len(Sessions) /\ Len(Sessions) \in Nat
    BY Counted
  <2>2. k \in 1..(Len(Sessions) + 1)
    BY <2>1
  <2> HIDE DEF k
  <2> QED
    BY <2>2, Counted DEF Window
<1>2. SessionContaining(t) = IF BeforeCalendar(t) THEN RangeError
                             ELSE IF k > Len(Sessions) THEN RangeError
                             ELSE IF Sessions[k].open <= t THEN k ELSE NoSession
  BY DEF SessionContaining
<1>3. RangeError \notin DOMAIN Sessions /\ NoSession \notin DOMAIN Sessions
  BY <1>1 DEF RangeError, NoSession
<1>4. \A i \in DOMAIN Sessions : Sessions[i].close <= t <=> i < k
  <2>1. \A i \in DOMAIN Sessions : Sessions[i].close <= t <=> i <= ClosedBy(t)
    BY ClosedFirst
  <2>2. ClosedBy(t) \in Nat
    BY Counted
  <2> QED
    BY <1>1, <2>1, <2>2
<1> HIDE DEF k
<1>5. ASSUME IsExpectedMinute(t)
      PROVE  IsWholeMinute(t) /\ \E i \in DOMAIN Sessions : Sessions[i].open <= t /\ t < Sessions[i].close
  <2>1. k \in DOMAIN Sessions /\ Sessions[k].open <= t
    BY <1>2, <1>3, <1>5 DEF IsExpectedMinute
  <2>2. t < Sessions[k].close
    BY <1>1, <1>4, <2>1
  <2> QED
    BY <1>5, <2>1, <2>2 DEF IsExpectedMinute
<1>6. ASSUME IsWholeMinute(t), NEW i \in DOMAIN Sessions, Sessions[i].open <= t, t < Sessions[i].close
      PROVE  IsExpectedMinute(t)
  <2>1. k <= i
    BY <1>1, <1>4, <1>6
  <2>2. k \in DOMAIN Sessions
    BY <1>1, <2>1
  <2>3. Sessions[k].open <= Sessions[i].open
    BY <2>1, <2>2, OpensInOrder
  <2>4. 1 \in DOMAIN Sessions /\ 1 <= i
    BY <1>1
  <2>5. Sessions[1].open <= Sessions[i].open
    BY <2>4, OpensInOrder
  <2>6. Sessions[1].open <= t /\ Sessions[k].open <= t
    <3>1. Sessions[1].open \in Int /\ Sessions[k].open \in Int /\ Sessions[i].open \in Int
      BY <1>1, <2>2, <2>4
    <3> QED
      BY <1>6, <2>3, <2>5, <3>1
  <2>7. ~BeforeCalendar(t)
    <3>1. Sessions[1].open \in Int
      BY <1>1, <2>4
    <3> QED
      BY <2>6, <3>1 DEF BeforeCalendar
  <2> QED
    BY <1>1, <1>2, <1>6, <2>2, <2>6, <2>7 DEF IsExpectedMinute
<1> QED
  BY <1>5, <1>6

(***************************************************************************)
(* first_expected_minute_at_or_after, where the calendar answers.          *)
(***************************************************************************)
LEMMA FirstIsExpected ==
  ASSUME NEW t \in Int, FirstExpectedMinuteAtOrAfter(t) # RangeError
  PROVE  /\ FirstExpectedMinuteAtOrAfter(t) \in Nat /\ t <= FirstExpectedMinuteAtOrAfter(t)
         /\ IsExpectedMinute(FirstExpectedMinuteAtOrAfter(t))
<1> DEFINE m == IF IsWholeMinute(t) THEN t ELSE Floor(t) + Minute
           i == ClosedBy(m) + 1
           f == FirstExpectedMinuteAtOrAfter(t)
<1>1. /\ Len(Sessions) \in Nat \ {0} /\ DOMAIN Sessions = 1..Len(Sessions)
      /\ \A k \in DOMAIN Sessions : /\ Sessions[k].open \in Nat /\ Sessions[k].close \in Nat
                                    /\ Sessions[k].open < Sessions[k].close
                                    /\ IsWholeMinute(Sessions[k].open)
  <2>1. \A k \in DOMAIN Sessions : IsWholeMinute(Sessions[k].open)
    BY CalendarAssumption DEF IsCalendar
  <2> QED
    BY <2>1, Counted DEF Window
<1>2. m \in Int /\ t <= m /\ IsWholeMinute(m)
  <2> DEFINE p == t \div Minute
             q == t % Minute
  <2>1. Minute \in Nat \ {0} /\ p \in Int /\ q \in 0..(Minute - 1) /\ t = Minute * p + q
    BY CalendarAssumption, Division
  <2> HIDE DEF p
  <2>2. Minute * p \in Int /\ Minute * (p + 1) \in Int /\ Minute * (p + 1) = Minute * p + Minute
    BY <2>1
  <2>3. Floor(t) + Minute = Minute * (p + 1)
    BY <2>1, <2>2 DEF Floor
  <2>4. (Minute * (p + 1)) % Minute = 0
    BY <2>1
  <2> QED
    BY <2>1, <2>2, <2>3, <2>4 DEF IsWholeMinute
<1>3. f = IF BeforeCalendar(t) \/ i > Len(Sessions) THEN RangeError
          ELSE IF Sessions[i].open > m THEN Sessions[i].open ELSE m
  BY DEF FirstExpectedMinuteAtOrAfter
<1> HIDE DEF m
<1>4. ClosedBy(m) \in Nat /\ ~BeforeCalendar(t)
  BY <1>2, <1>3, Counted
<1>5. i \in DOMAIN Sessions /\ f = (IF Sessions[i].open > m THEN Sessions[i].open ELSE m)
  BY <1>1, <1>3, <1>4
<1>6. m < Sessions[i].close
  <2>1. ~(i <= ClosedBy(m))
    BY <1>4
  <2>2. ~(Sessions[i].close <= m)
    BY <1>2, <1>5, <2>1, ClosedFirst
  <2> QED
    BY <1>1, <1>2, <1>5, <2>2
<1> HIDE DEF i
<1>7. f \in Nat /\ t <= f
  <2>1. 0 <= t
    BY <1>1, <1>4 DEF BeforeCalendar
  <2> QED
    BY <1>1, <1>2, <1>5, <2>1
<1>8. IsWholeMinute(f) /\ Sessions[i].open <= f /\ f < Sessions[i].close
  BY <1>1, <1>2, <1>5, <1>6
<1> HIDE DEF f
<1>9. IsExpectedMinute(f)
  BY <1>5, <1>7, <1>8, Expected
<1> QED
  BY <1>7, <1>9 DEF f

(***************************************************************************)
(* next_expected_minute, before the last session opens.                    *)
(***************************************************************************)
LEMMA NextIsExpected ==
  ASSUME NEW t \in Int, IsExpectedMinute(t), NEW j \in DOMAIN Sessions, t < Sessions[j].open
  PROVE  /\ NextExpectedMinute(t) \in Nat /\ t < NextExpectedMinute(t)
         /\ IsExpectedMinute(NextExpectedMinute(t))
<1> DEFINE m == t + Minute
<1>1. /\ Len(Sessions) \in Nat \ {0} /\ DOMAIN Sessions = 1..Len(Sessions)
      /\ \A k \in DOMAIN Sessions : /\ Sessions[k].open \in Nat /\ Sessions[k].close \in Nat
                                    /\ Sessions[k].open < Sessions[k].close
                                    /\ IsWholeMinute(Sessions[k].open)
  <2>1. \A k \in DOMAIN Sessions : IsWholeMinute(Sessions[k].open)
    BY CalendarAssumption DEF IsCalendar
  <2> QED
    BY <2>1, Counted DEF Window
<1>2. Minute \in Nat \ {0} /\ t % Minute = 0
  BY CalendarAssumption DEF IsExpectedMinute, IsWholeMinute
<1>3. m \in Int /\ m % Minute = 0 /\ m <= Sessions[j].open
  BY <1>1, <1>2, Multiples DEF IsWholeMinute
<1>4. NextExpectedMinute(t) = FirstExpectedMinuteAtOrAfter(m)
  BY <1>2 DEF NextExpectedMinute, Floor
<1>5. FirstExpectedMinuteAtOrAfter(m) =
        IF BeforeCalendar(m) \/ ClosedBy(m) + 1 > Len(Sessions) THEN RangeError
        ELSE IF Sessions[ClosedBy(m) + 1].open > m THEN Sessions[ClosedBy(m) + 1].open ELSE m
  BY <1>3 DEF FirstExpectedMinuteAtOrAfter, IsWholeMinute
<1>6. ~BeforeCalendar(m) /\ 0 <= m
  <2>1. PICK i \in DOMAIN Sessions : Sessions[i].open <= t
    BY Expected
  <2>2. 1 \in DOMAIN Sessions /\ 1 <= i
    BY <1>1
  <2>3. Sessions[1].open <= Sessions[i].open
    BY <2>2, OpensInOrder
  <2> QED
    BY <1>1, <1>2, <2>1, <2>2, <2>3 DEF BeforeCalendar
<1> HIDE DEF m
<1>7. ClosedBy(m) \in Nat /\ ClosedBy(m) < j
  <2>1. ~(Sessions[j].close <= m)
    BY <1>1, <1>3
  <2>2. ~(j <= ClosedBy(m))
    BY <1>3, <2>1, ClosedFirst
  <2>3. ClosedBy(m) \in Nat
    BY <1>3, Counted
  <2> QED
    BY <1>1, <2>2, <2>3
<1>8. ClosedBy(m) + 1 \in DOMAIN Sessions
  BY <1>1, <1>7
<1>9. FirstExpectedMinuteAtOrAfter(m) # RangeError
  BY <1>1, <1>3, <1>5, <1>6, <1>8 DEF RangeError
<1>10. /\ FirstExpectedMinuteAtOrAfter(m) \in Nat /\ m <= FirstExpectedMinuteAtOrAfter(m)
       /\ IsExpectedMinute(FirstExpectedMinuteAtOrAfter(m))
  BY <1>3, <1>9, FirstIsExpected
<1> QED
  BY <1>2, <1>3, <1>4, <1>10 DEF m

(***************************************************************************)
(* Between a close and the next open nothing is expected.                  *)
(***************************************************************************)
LEMMA ClosedBetween ==
  ASSUME NEW t \in Int, IsExpectedMinute(t), NEW i \in DOMAIN Sessions, i - 1 \in DOMAIN Sessions,
         Sessions[i - 1].close <= t
  PROVE  Sessions[i].open <= t
<1>1. /\ Len(Sessions) \in Nat \ {0} /\ DOMAIN Sessions = 1..Len(Sessions)
      /\ \A k \in DOMAIN Sessions : Sessions[k].open \in Nat /\ Sessions[k].close \in Nat
  BY Counted DEF Window
<1>2. PICK k \in DOMAIN Sessions : Sessions[k].open <= t /\ t < Sessions[k].close
  BY Expected
<1>3. ~(k <= i - 1)
  <2>1. k <= i - 1 => Sessions[k].close <= Sessions[i - 1].close
    BY ClosesInOrder
  <2> QED
    BY <1>1, <1>2, <2>1
<1>4. i <= k
  BY <1>1, <1>3
<1>5. Sessions[i].open <= Sessions[k].open
  BY <1>4, OpensInOrder
<1> QED
  BY <1>1, <1>2, <1>5

-----------------------------------------------------------------------------
(* What happens to an order only once. *)

StateFields ==
  {"status", "t1_done", "trigger_hit_at", "last_bar_ts", "frozen_reasons", "review_reasons"}

\* s is a record with these fields.
Stateful(s) == s = [f \in DOMAIN s |-> s[f]] /\ StateFields \subseteq DOMAIN s

EndTypes == {"TARGET2_HIT", "STOPPED", "TIME_EXIT", "INVALIDATED", "EXPIRED", "CANCELED"}
OnceTypes == EndTypes \cup {"TRIGGER_HIT", "FILLED", "TARGET1_HIT"}

\* The state s says that this has happened.
Spent(s, type) ==
  \/ type \in EndTypes /\ IsFinal(s)
  \/ type = "TRIGGER_HIT" /\ s.trigger_hit_at # None
  \/ type = "FILLED" /\ s.status # "PENDING"
  \/ type = "TARGET1_HIT" /\ (s.t1_done \/ IsFinal(s))

\* t comes after s on the same order, without a freeze or a review between them.
Onward(s, t) ==
  /\ Stateful(t) /\ DOMAIN t = DOMAIN s
  /\ t.frozen_reasons = s.frozen_reasons /\ t.review_reasons = s.review_reasons
  /\ \A type \in OnceTypes : Spent(s, type) => Spent(t, type)

\* The event of a zone is its type, its minute and the zone's boundary.
ZoneForm(e, low) ==
  e = [Event(e.type, e.ts) EXCEPT !.level = IF e.type = "ZONE_LOST" THEN low ELSE None]

\* No two events of a type that one call writes only once.
SingleTypes == OnceTypes \cup {"FROZEN", "DIVIDEND", "DATA_QUALITY"}
Single(evs) ==
  \A i, j \in DOMAIN evs : i # j /\ evs[i].type \in SingleTypes => evs[j].type # evs[i].type

\* What an event of a bar between the states s and t is.
Happens(s, t, e, low) ==
  /\ e.type \in OnceTypes \cup ZoneTypes
  /\ e.type \in OnceTypes => ~Spent(s, e.type) /\ Spent(t, e.type)
  /\ e.type \in ZoneTypes => ZoneForm(e, low)

\* The result r of a phase in the state s.
Took(s, r, low) ==
  /\ Proper(r) /\ Onward(s, r.state) /\ Single(r.events)
  /\ \A e \in Range(r.events) : Happens(s, r.state, e, low)

(***************************************************************************)
(* No event.                                                               *)
(***************************************************************************)
LEMMA NothingTook ==
  ASSUME NEW s, NEW t, Onward(s, t), NEW low
  PROVE  Took(s, Unchanged(t), low)
<1>1. /\ Proper(Unchanged(t)) /\ Unchanged(t).state = t /\ Range(Unchanged(t).events) = {}
  BY NoEvents
<1>2. Single(Unchanged(t).events)
  BY DEF Single, Unchanged, StepResult
<1> QED
  BY <1>1, <1>2 DEF Took

(***************************************************************************)
(* One event.                                                              *)
(***************************************************************************)
LEMMA OneTook ==
  ASSUME NEW s, NEW t, Onward(s, t), NEW low, NEW e, Entry(e), Happens(s, t, e, low)
  PROVE  Took(s, StepResult(t, <<e>>), low)
<1> DEFINE r == StepResult(t, <<e>>)
<1>1. Proper(r) /\ r.state = t /\ Range(r.events) = {e}
  BY FewEvents
<1>2. Single(r.events)
  BY DEF Single, StepResult
<1> HIDE DEF r
<1>3. Took(s, r, low)
  BY <1>1, <1>2 DEF Took
<1> QED
  BY <1>3 DEF r

(***************************************************************************)
(* Of two results, what the first has the second has not.                  *)
(***************************************************************************)
LEMMA SingleAfter ==
  ASSUME NEW r, Proper(r), Single(r.events), NEW q, Proper(q), Single(q.events),
         \A e \in Range(r.events), f \in Range(q.events) : e.type \in SingleTypes => f.type # e.type
  PROVE  Single(After(r.events, q).events)
<1> DEFINE x == r.events
           y == q.events
           z == x \o y
           m == Len(x)
           n == Len(y)
<1>1. x \in Seq(Range(x)) /\ y \in Seq(Range(y))
  BY DEF Proper, Log
<1>2. Single(x) /\ Single(y) /\ \A e \in Range(x), f \in Range(y) : e.type \in SingleTypes => f.type # e.type
  OBVIOUS
<1>3. After(r.events, q).events = z
  BY DEF After, Proper
<1> HIDE DEF x, y
<1>4. DOMAIN x = 1..m /\ DOMAIN y = 1..n /\ m \in Nat /\ n \in Nat
  BY <1>1
<1>5. DOMAIN z = 1..(m + n) /\ \A i \in 1..(m + n) : z[i] = IF i <= m THEN x[i] ELSE y[i - m]
  BY <1>1, Concat
<1> HIDE DEF m, n, z
<1>6. /\ \A i \in 1..m : x[i] \in Range(x)
      /\ \A i \in 1..n : y[i] \in Range(y)
  BY <1>4 DEF Range
<1>7. ASSUME NEW i \in 1..(m + n), NEW j \in 1..(m + n), i # j, z[i].type \in SingleTypes,
             z[j].type = z[i].type
      PROVE  FALSE
  <2>1. CASE i <= m /\ j <= m
    <3>1. z[i] = x[i] /\ z[j] = x[j] /\ i \in 1..m /\ j \in 1..m
      BY <1>4, <1>5, <2>1
    <3> QED
      BY <1>2, <1>4, <1>7, <3>1 DEF Single
  <2>2. CASE i > m /\ j > m
    <3>1. z[i] = y[i - m] /\ z[j] = y[j - m] /\ i - m \in 1..n /\ j - m \in 1..n /\ i - m # j - m
      BY <1>4, <1>5, <1>7, <2>2
    <3> QED
      BY <1>2, <1>4, <1>7, <3>1 DEF Single
  <2>3. CASE i <= m /\ j > m
    <3>1. z[i] = x[i] /\ z[j] = y[j - m] /\ i \in 1..m /\ j - m \in 1..n
      BY <1>4, <1>5, <2>3
    <3> QED
      BY <1>2, <1>6, <1>7, <3>1
  <2>4. CASE i > m /\ j <= m
    <3>1. z[i] = y[i - m] /\ z[j] = x[j] /\ j \in 1..m /\ i - m \in 1..n
      BY <1>4, <1>5, <2>4
    <3> QED
      BY <1>2, <1>6, <1>7, <3>1
  <2> QED
    BY <1>4, <2>1, <2>2, <2>3, <2>4
<1> QED
  BY <1>3, <1>5, <1>7 DEF Single

(***************************************************************************)
(* One result after another.                                               *)
(***************************************************************************)
LEMMA AfterTook ==
  ASSUME NEW s, NEW r, NEW q, NEW low, Took(s, r, low), Took(r.state, q, low)
  PROVE  Took(s, After(r.events, q), low)
<1> DEFINE a == After(r.events, q)
<1>1. Log(r.events) /\ Proper(r) /\ Proper(q)
  BY DEF Took, Proper
<1>2. Proper(a) /\ a.state = q.state /\ Range(a.events) = Range(r.events) \cup Range(q.events)
  BY <1>1, AfterEvents
<1>3. \A e \in Range(r.events), f \in Range(q.events) : e.type \in SingleTypes => f.type # e.type
  BY DEF Took, Happens, SingleTypes, ZoneTypes
<1>4. Single(a.events)
  BY <1>1, <1>3, SingleAfter DEF Took
<1> HIDE DEF a
<1>5. \A type \in OnceTypes :
        /\ Spent(s, type) => Spent(r.state, type)
        /\ Spent(r.state, type) => Spent(q.state, type)
  BY DEF Took, Onward
<1>6. Onward(s, q.state)
  BY <1>5 DEF Took, Onward
<1>7. ASSUME NEW e \in Range(a.events) PROVE Happens(s, q.state, e, low)
  <2>1. CASE e \in Range(r.events)
    BY <1>5, <2>1 DEF Took, Happens
  <2>2. CASE e \in Range(q.events)
    BY <1>5, <2>2 DEF Took, Happens
  <2> QED
    BY <1>2, <1>7, <2>1, <2>2
<1>8. Took(s, a, low)
  BY <1>2, <1>4, <1>6, <1>7 DEF Took
<1> QED
  BY <1>8 DEF a

(***************************************************************************)
(* Closing a position ends the order.                                      *)
(***************************************************************************)
LEMMA CloseTook ==
  ASSUME NEW s, NEW t, Onward(s, t), NEW bar, NEW c, NEW type, ~IsFinal(s),
         type \in EndTypes \/ (type = "TARGET1_HIT" /\ ~s.t1_done), NEW price,
         NEW level, NEW reason, NEW low
  PROVE  /\ Took(s, Close(t, bar, c, type, price, level, reason), low)
         /\ Close(t, bar, c, type, price, level, reason).state.last_bar_ts = t.last_bar_ts
<1> DEFINE pnl == (price - t.avg_entry) * t.qty_open
           cost == ExecutionCost(c, price, t.qty_open, "exit")
           u == [t EXCEPT !.status = "CLOSED", !.qty_open = 0, !.realized_pnl = @ + pnl,
                  !.costs = @ + cost, !.close_reason = reason, !.closed_at = bar.ts,
                  !.final_event_ts = bar.ts]
           e == [Event(type, bar.ts) EXCEPT !.price = price, !.level = level,
                   !.qty = t.qty_open, !.pnl = pnl, !.cost = cost]
<1>1. Close(t, bar, c, type, price, level, reason) = StepResult(u, <<e>>)
  BY DEF Close
<1> HIDE DEF pnl, cost
<1>2. /\ Stateful(u) /\ DOMAIN u = DOMAIN s /\ u.status = "CLOSED"
      /\ u.frozen_reasons = s.frozen_reasons /\ u.review_reasons = s.review_reasons
      /\ u.trigger_hit_at = t.trigger_hit_at /\ u.t1_done = t.t1_done /\ u.last_bar_ts = t.last_bar_ts
  BY DEF Onward, Stateful, StateFields
<1>3. Entry(e) /\ e.type = type
  BY DEF Entry, Event
<1> HIDE DEF u, e
<1>4. IsFinal(u) /\ u.status # "PENDING"
  BY <1>2 DEF IsFinal, FinalStatuses
<1>5. Onward(s, u)
  BY <1>2, <1>4 DEF Onward, Spent, OnceTypes
<1>6. Happens(s, u, e, low)
  BY <1>3, <1>4 DEF Happens, Spent, OnceTypes, EndTypes, ZoneTypes
<1>7. Took(s, StepResult(u, <<e>>), low)
  BY <1>3, <1>5, <1>6, OneTook
<1> QED
  BY <1>1, <1>2, <1>7 DEF StepResult

(***************************************************************************)
(* The first target happens once.                                          *)
(***************************************************************************)
LEMMA ScaleOutTook ==
  ASSUME NEW s, NEW t, Onward(s, t), NEW bar, NEW sig, NEW c, ~IsFinal(s), ~s.t1_done,
         s.status # "PENDING", NEW low
  PROVE  /\ Took(s, ScaleOut(t, bar, sig, c), low)
         /\ ~IsFinal(ScaleOut(t, bar, sig, c).state) /\ ScaleOut(t, bar, sig, c).state.t1_done = TRUE
<1> DEFINE qty == (t.qty_total * c.config.scale_out_pct) \div 100
           pnl == (sig.target1 - t.avg_entry) * qty
           cost == ExecutionCost(c, sig.target1, qty, "exit")
           u == [t EXCEPT !.status = "PARTIAL", !.t1_done = TRUE, !.qty_open = @ - qty,
                  !.realized_pnl = @ + pnl, !.costs = @ + cost,
                  !.stop_previous = t.stop_current, !.stop_current = t.avg_entry,
                  !.stop_active_from = NextExpectedMinute(bar.ts)]
           e == [Event("TARGET1_HIT", bar.ts) EXCEPT !.price = sig.target1,
                   !.level = t.avg_entry, !.qty = qty, !.pnl = pnl, !.cost = cost]
<1>1. ScaleOut(t, bar, sig, c) = StepResult(u, <<e>>)
  BY DEF ScaleOut
<1> HIDE DEF qty, pnl, cost
<1>2. /\ Stateful(u) /\ DOMAIN u = DOMAIN s /\ u.status = "PARTIAL" /\ u.t1_done = TRUE
      /\ u.frozen_reasons = s.frozen_reasons /\ u.review_reasons = s.review_reasons
      /\ u.trigger_hit_at = t.trigger_hit_at
  BY DEF Onward, Stateful, StateFields
<1>3. Entry(e) /\ e.type = "TARGET1_HIT"
  BY DEF Entry, Event
<1> HIDE DEF u, e
<1>4. ~IsFinal(u) /\ u.status # "PENDING"
  BY <1>2 DEF IsFinal, FinalStatuses
<1>5. Onward(s, u)
  <2>1. s.trigger_hit_at # None => t.trigger_hit_at # None
    BY DEF Onward, Spent, OnceTypes, EndTypes
  <2>2. \A type \in OnceTypes : Spent(s, type) => Spent(u, type)
    BY <1>2, <1>4, <2>1 DEF Spent
  <2> QED
    BY <1>2, <2>2 DEF Onward
<1>6. Happens(s, u, e, low)
  BY <1>2, <1>3 DEF Happens, Spent, OnceTypes, EndTypes, ZoneTypes
<1>7. Took(s, StepResult(u, <<e>>), low)
  BY <1>3, <1>5, <1>6, OneTook
<1> QED
  BY <1>1, <1>2, <1>4, <1>7 DEF StepResult

(***************************************************************************)
(* The exit phase of an open position.                                     *)
(***************************************************************************)
LEMMA ExitTook ==
  ASSUME NEW s, Stateful(s), ~IsFinal(s), s.status # "PENDING", NEW bar, NEW sig, NEW c,
         NEW entryBar, NEW low
  PROVE  Took(s, ExitPhase(s, bar, sig, c, entryBar), low)
<1> DEFINE stop == IF s.stop_active_from # None /\ bar.ts < s.stop_active_from
                   THEN s.stop_previous ELSE s.stop_current
           stopped == bar.low <= stop
           seen == [s EXCEPT !.best_price = IF entryBar \/ stopped THEN @ ELSE Greater(@, bar.high),
                             !.worst_price = Lesser(@, bar.low)]
           raw == Lesser(bar.open, stop)
           hit1 == ~s.t1_done /\ bar.high >= sig.target1
           scaled == IF hit1 THEN ScaleOut(seen, bar, sig, c) ELSE Unchanged(seen)
           asStop == Close(seen, bar, c, "STOPPED", AdverseSell(raw, c.config.stop_slip), raw, "STOPPED")
           asOne == Close(seen, bar, c, "TARGET1_HIT", sig.target1, None, "TARGET_FINAL")
           asTwo == Close(scaled.state, bar, c, "TARGET2_HIT", sig.target2, None, "TARGET_FINAL")
<1>1. ExitPhase(s, bar, sig, c, entryBar)
        = IF stopped THEN asStop ELSE IF entryBar THEN Unchanged(seen)
          ELSE IF hit1 /\ sig.target2 = None THEN asOne
          ELSE IF scaled.state.t1_done /\ sig.target2 # None /\ bar.high >= sig.target2
          THEN After(scaled.events, asTwo) ELSE scaled
  BY DEF ExitPhase
<1>2. /\ Stateful(seen) /\ DOMAIN seen = DOMAIN s /\ seen.status = s.status /\ seen.t1_done = s.t1_done
      /\ seen.frozen_reasons = s.frozen_reasons /\ seen.review_reasons = s.review_reasons
      /\ seen.trigger_hit_at = s.trigger_hit_at
  BY DEF Stateful, StateFields
<1> HIDE DEF stop, stopped, seen, raw
<1>3. Onward(s, seen)
  BY <1>2 DEF Onward, Spent, IsFinal
<1>4. Took(s, asStop, low)
  BY <1>3, CloseTook DEF EndTypes
<1>5. hit1 => Took(s, asOne, low)
  BY <1>3, CloseTook
<1>6. Took(s, Unchanged(seen), low)
  BY <1>3, NothingTook
<1>7. Took(s, scaled, low) /\ ~IsFinal(scaled.state)
  <2>1. CASE hit1
    BY <1>3, <2>1, ScaleOutTook
  <2>2. CASE ~hit1
    <3>1. Unchanged(seen).state = seen
      BY NoEvents
    <3> QED
      BY <1>2, <1>6, <2>2, <3>1 DEF IsFinal
  <2> QED
    BY <2>1, <2>2
<1> HIDE DEF scaled, hit1
<1>8. Onward(scaled.state, scaled.state)
  BY <1>7 DEF Took, Onward
<1>9. Took(scaled.state, asTwo, low)
  BY <1>7, <1>8, CloseTook DEF EndTypes
<1> HIDE DEF asStop, asOne, asTwo
<1>10. Took(s, After(scaled.events, asTwo), low)
  BY <1>7, <1>9, AfterTook
<1> QED
  BY <1>1, <1>4, <1>5, <1>6, <1>7, <1>10

(***************************************************************************)
(* The entry happens once.                                                 *)
(***************************************************************************)
LEMMA FillTook ==
  ASSUME NEW s, Stateful(s), s.status = "PENDING", NEW bar, NEW sig, NEW c, NEW raw, NEW low
  PROVE  /\ Took(s, Fill(s, bar, sig, c, raw), low)
         /\ Fill(s, bar, sig, c, raw).state.status = "OPEN"
<1> DEFINE price == AdverseBuy(raw, c.config.entry_slip)
           qty == c.config.risk_amount \div (price - sig.stop)
           cost == ExecutionCost(c, price, qty, "entry")
           path == IF s.zone_ever_lost THEN "RECLAIMED" ELSE "DIRECT"
           u == [s EXCEPT !.status = "OPEN", !.avg_entry = price, !.initial_stop = sig.stop,
                  !.stop_current = sig.stop, !.qty_total = qty, !.qty_open = qty,
                  !.costs = @ + cost, !.opened_at = bar.ts, !.best_price = price,
                  !.entry_path = path]
           e == [Event("FILLED", bar.ts) EXCEPT !.price = price, !.level = raw,
                   !.qty = qty, !.cost = cost]
<1>1. Fill(s, bar, sig, c, raw) = StepResult(u, <<e>>)
  BY DEF Fill
<1> HIDE DEF price, qty, cost, path
<1>2. /\ Stateful(u) /\ DOMAIN u = DOMAIN s /\ u.status = "OPEN" /\ u.t1_done = s.t1_done
      /\ u.frozen_reasons = s.frozen_reasons /\ u.review_reasons = s.review_reasons
      /\ u.trigger_hit_at = s.trigger_hit_at
  BY DEF Stateful, StateFields
<1>3. Entry(e) /\ e.type = "FILLED"
  BY DEF Entry, Event
<1> HIDE DEF u, e
<1>4. ~IsFinal(s)
  BY DEF IsFinal, FinalStatuses
<1>5. Onward(s, u)
  BY <1>2, <1>4 DEF Onward, Spent, OnceTypes
<1>6. Happens(s, u, e, low)
  BY <1>2, <1>3 DEF Happens, Spent, OnceTypes, EndTypes, ZoneTypes
<1>7. Took(s, StepResult(u, <<e>>), low)
  BY <1>3, <1>5, <1>6, OneTook
<1> QED
  BY <1>1, <1>2, <1>7 DEF StepResult

(***************************************************************************)
(* An invalidation ends the order.                                         *)
(***************************************************************************)
LEMMA InvalidateTook ==
  ASSUME NEW s, Stateful(s), ~IsFinal(s), NEW bar, NEW low
  PROVE  Took(s, Invalidate(s, bar), low)
<1> DEFINE u == [s EXCEPT !.status = "INVALIDATED", !.final_event_ts = bar.ts]
           e == Event("INVALIDATED", bar.ts)
<1>1. Invalidate(s, bar) = StepResult(u, <<e>>)
  BY DEF Invalidate
<1>2. /\ Stateful(u) /\ DOMAIN u = DOMAIN s /\ u.status = "INVALIDATED" /\ u.t1_done = s.t1_done
      /\ u.frozen_reasons = s.frozen_reasons /\ u.review_reasons = s.review_reasons
      /\ u.trigger_hit_at = s.trigger_hit_at
  BY DEF Stateful, StateFields
<1>3. Entry(e) /\ e.type = "INVALIDATED"
  BY DEF Entry, Event
<1> HIDE DEF u, e
<1>4. IsFinal(u) /\ u.status # "PENDING"
  BY <1>2 DEF IsFinal, FinalStatuses
<1>5. Onward(s, u)
  BY <1>2, <1>4 DEF Onward, Spent, OnceTypes
<1>6. Happens(s, u, e, low)
  BY <1>3, <1>4 DEF Happens, Spent, OnceTypes, EndTypes, ZoneTypes
<1> QED
  BY <1>1, <1>3, <1>5, <1>6, OneTook

(***************************************************************************)
(* The zone and the trigger.                                               *)
(***************************************************************************)
LEMMA ZoneTook ==
  ASSUME NEW s, Stateful(s), s.status = "PENDING", NEW bar, bar.ts # None, NEW sig
  PROVE  /\ Took(s, LoseZone(s, bar, sig), sig.low) /\ LoseZone(s, bar, sig).state.status = "PENDING"
         /\ Took(s, ReclaimZone(s, bar, sig), sig.low)
         /\ ReclaimZone(s, bar, sig).state.status = "PENDING"
         /\ Took(s, HitTrigger(s, bar, sig), sig.low)
<1> DEFINE low == sig.low
           u == [s EXCEPT !.zone_lost = TRUE, !.zone_ever_lost = TRUE]
           v == [s EXCEPT !.zone_lost = FALSE, !.entry_eligible_from = NextExpectedMinute(bar.ts)]
           w == [s EXCEPT !.trigger_hit_at = bar.ts]
           lost == [Event("ZONE_LOST", bar.ts) EXCEPT !.level = sig.low]
           back == Event("ZONE_RECLAIMED", bar.ts)
           hit == [Event("TRIGGER_HIT", bar.ts) EXCEPT !.price = sig.trigger]
<1>1. LoseZone(s, bar, sig) \in {StepResult(u, <<lost>>), Unchanged(s)}
  BY DEF LoseZone
<1>2. ReclaimZone(s, bar, sig) \in {StepResult(v, <<back>>), Unchanged(s)}
  BY DEF ReclaimZone
<1>3. HitTrigger(s, bar, sig) = Unchanged(s)
        \/ (HitTrigger(s, bar, sig) = StepResult(w, <<hit>>) /\ s.trigger_hit_at = None)
  BY DEF HitTrigger
<1>4. Entry(lost) /\ Entry(back) /\ Entry(hit)
  BY DEF Entry, Event
<1>5. lost.type = "ZONE_LOST" /\ back.type = "ZONE_RECLAIMED" /\ hit.type = "TRIGGER_HIT"
  BY DEF Event
<1>6. ZoneForm(lost, low) /\ ZoneForm(back, low)
  BY DEF ZoneForm, Event
<1>7. /\ Stateful(u) /\ DOMAIN u = DOMAIN s /\ u.status = s.status /\ u.t1_done = s.t1_done
      /\ u.frozen_reasons = s.frozen_reasons /\ u.review_reasons = s.review_reasons
      /\ u.trigger_hit_at = s.trigger_hit_at
  BY DEF Stateful, StateFields
<1>8. /\ Stateful(v) /\ DOMAIN v = DOMAIN s /\ v.status = s.status /\ v.t1_done = s.t1_done
      /\ v.frozen_reasons = s.frozen_reasons /\ v.review_reasons = s.review_reasons
      /\ v.trigger_hit_at = s.trigger_hit_at
  BY DEF Stateful, StateFields
<1>9. /\ Stateful(w) /\ DOMAIN w = DOMAIN s /\ w.status = s.status /\ w.t1_done = s.t1_done
      /\ w.frozen_reasons = s.frozen_reasons /\ w.review_reasons = s.review_reasons
      /\ w.trigger_hit_at = bar.ts
  BY DEF Stateful, StateFields
<1> HIDE DEF u, v, w, lost, back, hit, low
<1>10. Onward(s, s) /\ Onward(s, u) /\ Onward(s, v) /\ Onward(s, w)
  BY <1>7, <1>8, <1>9 DEF Onward, Spent, IsFinal
<1>11. Happens(s, u, lost, low) /\ Happens(s, v, back, low)
  BY <1>5, <1>6 DEF Happens, OnceTypes, EndTypes, ZoneTypes
<1>12. s.trigger_hit_at = None => Happens(s, w, hit, low)
  BY <1>5, <1>9 DEF Happens, Spent, OnceTypes, EndTypes, ZoneTypes
<1>13. /\ Took(s, StepResult(u, <<lost>>), low) /\ Took(s, StepResult(v, <<back>>), low)
       /\ Took(s, Unchanged(s), low)
       /\ s.trigger_hit_at = None => Took(s, StepResult(w, <<hit>>), low)
  BY <1>4, <1>10, <1>11, <1>12, OneTook, NothingTook
<1>14. /\ StepResult(u, <<lost>>).state = u /\ StepResult(v, <<back>>).state = v
       /\ Unchanged(s).state = s
  BY DEF StepResult, Unchanged
<1> QED
  BY <1>1, <1>2, <1>3, <1>7, <1>8, <1>13, <1>14 DEF low

(***************************************************************************)
(* Putting earlier events before those of a result can be done in parts.   *)
(***************************************************************************)
LEMMA AfterIs ==
  ASSUME NEW evs, NEW t, NEW more
  PROVE  After(evs, [state |-> t, events |-> more]) = [state |-> t, events |-> evs \o more]
<1> DEFINE r == [state |-> t, events |-> more]
           all == evs \o more
<1>1. After(evs, r) = [r EXCEPT !.events = all]
  BY DEF After
<1> HIDE DEF all
<1>2. [r EXCEPT !.events = all] = [state |-> t, events |-> all]
  OBVIOUS
<1> QED
  BY <1>1, <1>2 DEF all

(***************************************************************************)
(* A bar without an entry.                                                 *)
(***************************************************************************)
LEMMA GateTook ==
  ASSUME NEW s, Stateful(s), s.status = "PENDING", NEW bar, bar.ts # None, NEW sig, NEW c
  PROVE  Took(s, Gate(s, bar, sig, c), sig.low)
<1> DEFINE low == sig.low
           lost == LoseZone(s, bar, sig)
           reclaimed == ReclaimZone(lost.state, bar, sig)
           inv == Invalidate(lost.state, bar)
           hit == HitTrigger(reclaimed.state, bar, sig)
<1>1. Gate(s, bar, sig, c) \in {After(lost.events, inv), After(lost.events \o reclaimed.events, hit)}
  BY DEF Gate
<1>2. Took(s, lost, low) /\ lost.state.status = "PENDING"
  BY ZoneTook
<1> HIDE DEF lost
<1>3. Stateful(lost.state) /\ ~IsFinal(lost.state)
  BY <1>2 DEF Took, Onward, IsFinal, FinalStatuses
<1>4. Took(lost.state, reclaimed, low) /\ reclaimed.state.status = "PENDING"
  BY <1>2, <1>3, ZoneTook
<1>5. Took(lost.state, inv, low)
  BY <1>3, InvalidateTook
<1> HIDE DEF reclaimed, inv
<1>6. Stateful(reclaimed.state)
  BY <1>4 DEF Took, Onward
<1>7. Took(reclaimed.state, hit, low)
  BY <1>4, <1>6, ZoneTook
<1> HIDE DEF hit, low
<1>8. Took(s, After(lost.events, inv), low)
  BY <1>2, <1>5, AfterTook
<1>9. Took(lost.state, After(reclaimed.events, hit), low)
  BY <1>4, <1>7, AfterTook
<1>10. After(lost.events \o reclaimed.events, hit) = After(lost.events, After(reclaimed.events, hit))
  <2> DEFINE x == lost.events
             y == reclaimed.events
             z == hit.events
  <2>1. x \in Seq(Range(x)) /\ y \in Seq(Range(y)) /\ z \in Seq(Range(z))
    BY <1>2, <1>4, <1>7 DEF Took, Proper, Log
  <2> DEFINE t == hit.state
  <2>2. hit = [state |-> t, events |-> z]
    BY <1>7 DEF Took, Proper
  <2> HIDE DEF x, y, z, t
  <2>3. (x \o y) \o z = x \o (y \o z)
    <3> DEFINE R == Range(x) \cup Range(y) \cup Range(z)
    <3>1. x \in Seq(R) /\ y \in Seq(R) /\ z \in Seq(R)
      BY <2>1
    <3> HIDE DEF R
    <3> QED
      BY <3>1
  <2>4. After(x \o y, hit) = [state |-> t, events |-> (x \o y) \o z]
    BY <2>2, AfterIs
  <2>5. After(x, After(y, hit)) = [state |-> t, events |-> x \o (y \o z)]
    <3> DEFINE yz == y \o z
               inner == After(y, hit)
    <3>1. inner = [state |-> t, events |-> yz]
      BY <2>2, AfterIs
    <3> HIDE DEF yz, inner
    <3>2. After(x, inner) = [state |-> t, events |-> x \o yz]
      BY <3>1, AfterIs
    <3> QED
      BY <3>2 DEF yz, inner
  <2> QED
    BY <2>3, <2>4, <2>5 DEF x, y
<1>11. Took(s, After(lost.events, After(reclaimed.events, hit)), low)
  BY <1>2, <1>9, AfterTook
<1> QED
  BY <1>1, <1>8, <1>10, <1>11 DEF low

(***************************************************************************)
(* The entry phase of a pending order.                                     *)
(***************************************************************************)
LEMMA EntryTook ==
  ASSUME NEW s, Stateful(s), s.status = "PENDING", NEW bar, bar.ts # None, NEW sig, NEW c
  PROVE  Took(s, EntryPhase(s, bar, sig, c), sig.low)
<1> DEFINE low == sig.low
           raw == EntryPrice(bar, sig)
           filled == Fill(s, bar, sig, c, raw)
           exit == ExitPhase(filled.state, bar, sig, c, TRUE)
<1>1. EntryPhase(s, bar, sig, c)
        \in {Invalidate(s, bar), After(filled.events, exit), Gate(s, bar, sig, c)}
  BY DEF EntryPhase
<1>2. ~IsFinal(s)
  BY DEF IsFinal, FinalStatuses
<1> HIDE DEF raw
<1>3. Took(s, filled, low) /\ filled.state.status = "OPEN"
  BY FillTook
<1> HIDE DEF filled
<1>4. Stateful(filled.state) /\ ~IsFinal(filled.state) /\ filled.state.status # "PENDING"
  BY <1>3 DEF Took, Onward, IsFinal, FinalStatuses
<1>5. Took(filled.state, exit, low)
  BY <1>4, ExitTook
<1> HIDE DEF exit
<1>6. Took(s, After(filled.events, exit), low)
  BY <1>3, <1>5, AfterTook
<1>7. Took(s, Invalidate(s, bar), low)
  BY <1>2, InvalidateTook
<1>8. Took(s, Gate(s, bar, sig, c), low)
  BY GateTook
<1> QED
  BY <1>1, <1>6, <1>7, <1>8 DEF low

(***************************************************************************)
(* The end of the validity ends the order.                                 *)
(***************************************************************************)
LEMMA EndTook ==
  ASSUME NEW s, Stateful(s), ~IsFinal(s), NEW bar, NEW c, NEW low
  PROVE  /\ Took(s, ValidityEnd(s, bar, c), low)
         /\ ValidityEnd(s, bar, c).state.last_bar_ts = s.last_bar_ts
<1> DEFINE u == [s EXCEPT !.status = "EXPIRED", !.final_event_ts = c.until]
           e == Event("EXPIRED", None)
           r == StepResult(u, <<e>>)
           raw == bar.close
           price == AdverseSell(bar.close, c.config.stop_slip)
           q == Close(s, bar, c, "TIME_EXIT", price, raw, "TIME_EXIT")
<1>1. ValidityEnd(s, bar, c) \in {r, q}
  BY DEF ValidityEnd
<1>2. /\ Stateful(u) /\ DOMAIN u = DOMAIN s /\ u.status = "EXPIRED" /\ u.t1_done = s.t1_done
      /\ u.frozen_reasons = s.frozen_reasons /\ u.review_reasons = s.review_reasons
      /\ u.trigger_hit_at = s.trigger_hit_at /\ u.last_bar_ts = s.last_bar_ts
  BY DEF Stateful, StateFields
<1>3. Entry(e) /\ e.type = "EXPIRED"
  BY DEF Entry, Event
<1> HIDE DEF u, e, raw, price
<1>4. IsFinal(u) /\ u.status # "PENDING"
  BY <1>2 DEF IsFinal, FinalStatuses
<1>5. Onward(s, u) /\ Onward(s, s)
  BY <1>2, <1>4 DEF Onward, Spent, OnceTypes
<1>6. Happens(s, u, e, low)
  BY <1>3, <1>4 DEF Happens, Spent, OnceTypes, EndTypes, ZoneTypes
<1>7. Took(s, r, low)
  BY <1>3, <1>5, <1>6, OneTook
<1>8. Took(s, q, low) /\ q.state.last_bar_ts = s.last_bar_ts
  BY <1>5, CloseTook DEF EndTypes
<1>9. r.state.last_bar_ts = s.last_bar_ts
  BY <1>2 DEF StepResult
<1> QED
  BY <1>1, <1>7, <1>8, <1>9

(***************************************************************************)
(* One bar, in LONG terms.                                                 *)
(***************************************************************************)
LEMMA LongStepTook ==
  ASSUME NEW s, Stateful(s), ~IsFinal(s), NEW bar, bar.ts # None, NEW sig, NEW c
  PROVE  /\ Took(s, LongStep(s, bar, sig, c), sig.low)
         /\ LongStep(s, bar, sig, c).state.last_bar_ts = bar.ts
<1> DEFINE low == sig.low
           phase == IF s.status = "PENDING" THEN EntryPhase(s, bar, sig, c)
                    ELSE ExitPhase(s, bar, sig, c, FALSE)
           done == [phase EXCEPT !.state.last_bar_ts = bar.ts]
           end == ValidityEnd(done.state, bar, c)
<1>1. LongStep(s, bar, sig, c)
        = IF IsFinal(done.state) \/ ~IsLastBar(bar, c) THEN done ELSE After(done.events, end)
  BY DEF LongStep
<1>2. Took(s, phase, low)
  BY EntryTook, ExitTook
<1> HIDE DEF phase, low
<1>3. phase = [state |-> phase.state, events |-> phase.events]
  BY <1>2 DEF Took, Proper
<1> DEFINE u == [phase.state EXCEPT !.last_bar_ts = bar.ts]
<1>4. done = [state |-> u, events |-> phase.events]
  BY <1>3
<1>5. /\ Stateful(u) /\ DOMAIN u = DOMAIN phase.state /\ u.last_bar_ts = bar.ts
      /\ u.status = phase.state.status /\ u.t1_done = phase.state.t1_done
      /\ u.frozen_reasons = phase.state.frozen_reasons
      /\ u.review_reasons = phase.state.review_reasons
      /\ u.trigger_hit_at = phase.state.trigger_hit_at
  BY <1>2 DEF Took, Onward, Stateful, StateFields
<1> HIDE DEF done, u
<1>6. done.state = u /\ done.events = phase.events
  BY <1>4
<1>7. Proper(done)
  <2>1. Log(phase.events)
    BY <1>2 DEF Took, Proper
  <2> QED
    BY <1>4, <1>6, <2>1 DEF Proper
<1>8. \A type : Spent(u, type) <=> Spent(phase.state, type)
  BY <1>5 DEF Spent, IsFinal
<1>9. Took(s, done, low)
  <2>1. Onward(s, u)
    BY <1>2, <1>5, <1>8 DEF Took, Onward
  <2>2. \A e \in Range(phase.events) : Happens(s, u, e, low)
    BY <1>2, <1>8 DEF Took, Happens
  <2> QED
    BY <1>2, <1>6, <1>7, <2>1, <2>2 DEF Took
<1>10. ASSUME ~IsFinal(done.state)
       PROVE  /\ Took(s, After(done.events, end), low)
              /\ After(done.events, end).state.last_bar_ts = bar.ts
  <2>1. Took(done.state, end, low) /\ end.state.last_bar_ts = done.state.last_bar_ts
    BY <1>5, <1>6, <1>10, EndTook
  <2> HIDE DEF end
  <2>2. After(done.events, end).state = end.state
    BY <1>9, <2>1, AfterEvents DEF Took, Proper
  <2> QED
    BY <1>5, <1>6, <1>9, <2>1, <2>2, AfterTook
<1> HIDE DEF end
<1> QED
  BY <1>1, <1>5, <1>6, <1>9, <1>10 DEF low

(***************************************************************************)
(* Mirroring changes prices only.                                          *)
(***************************************************************************)
LEMMA MirrorStateful ==
  ASSUME NEW s, Stateful(s)
  PROVE  /\ Stateful(MirrorState(s)) /\ DOMAIN MirrorState(s) = DOMAIN s
         /\ MirrorState(s).last_bar_ts = s.last_bar_ts
         /\ MirrorState(s).status = s.status /\ MirrorState(s).t1_done = s.t1_done
         /\ MirrorState(s).frozen_reasons = s.frozen_reasons
         /\ MirrorState(s).review_reasons = s.review_reasons
         /\ MirrorState(s).trigger_hit_at = s.trigger_hit_at
         /\ \A type : Spent(MirrorState(s), type) <=> Spent(s, type)
<1> DEFINE m == MirrorState(s)
<1>1. /\ Stateful(m) /\ DOMAIN m = DOMAIN s /\ m.last_bar_ts = s.last_bar_ts
      /\ m.status = s.status /\ m.t1_done = s.t1_done
      /\ m.frozen_reasons = s.frozen_reasons /\ m.review_reasons = s.review_reasons
      /\ m.trigger_hit_at = s.trigger_hit_at
  BY DEF MirrorState, Stateful, StateFields
<1> HIDE DEF m
<1>2. \A type : Spent(m, type) <=> Spent(s, type)
  BY <1>1 DEF Spent, IsFinal
<1> QED
  BY <1>1, <1>2 DEF m

(***************************************************************************)
(* The mirrored event of a zone.                                           *)
(***************************************************************************)
LEMMA MirrorZone ==
  ASSUME NEW type, NEW ts, NEW level
  PROVE  MirrorEvent([Event(type, ts) EXCEPT !.level = level])
           = [Event(type, ts) EXCEPT !.level = Neg(level)]
<1> DEFINE e == [Event(type, ts) EXCEPT !.level = level]
           none == Neg(None)
           less == Neg(level)
<1>1. none = None
  BY DEF Neg
<1>2. MirrorEvent(e) = [[e EXCEPT !.price = Neg(e.price)] EXCEPT !.level = Neg(e.level)]
  BY DEF MirrorEvent, Event
<1>3. e.price = None /\ e.level = level
  BY DEF Event
<1>4. MirrorEvent(e) = [[e EXCEPT !.price = none] EXCEPT !.level = less]
  BY <1>2, <1>3
<1> HIDE DEF none, less
<1>5. MirrorEvent(e) = [[e EXCEPT !.price = None] EXCEPT !.level = less]
  BY <1>1, <1>4
<1>6. \A x : [Event(type, ts) EXCEPT !.level = x]
                = [type |-> type, ts |-> ts, price |-> None, level |-> x,
                   qty |-> 0, pnl |-> 0, cost |-> 0, reason |-> None]
  BY DEF Event
<1> DEFINE f == [type |-> type, ts |-> ts, price |-> None, level |-> level,
                 qty |-> 0, pnl |-> 0, cost |-> 0, reason |-> None]
<1>8. [[f EXCEPT !.price = None] EXCEPT !.level = less] = 
         [type |-> type, ts |-> ts, price |-> None, level |-> less,
                   qty |-> 0, pnl |-> 0, cost |-> 0, reason |-> None]
  <2>1. [f EXCEPT !.price = None] = f
    OBVIOUS
  <2>2. [f EXCEPT !.level = less] =
         [type |-> type, ts |-> ts, price |-> None, level |-> less,
                   qty |-> 0, pnl |-> 0, cost |-> 0, reason |-> None]
    OBVIOUS
  <2> HIDE DEF f
  <2> QED
    BY <2>1, <2>2
<1>9. e = f
  BY <1>6
<1> HIDE DEF e, f
<1>7. MirrorEvent(e) = [Event(type, ts) EXCEPT !.level = less]
  BY <1>5, <1>6, <1>8, <1>9
<1> HIDE DEF less
<1> QED
  BY <1>7 DEF less, e

(***************************************************************************)
(* A bar of a SHORT order.                                                 *)
(***************************************************************************)
LEMMA MirrorTook ==
  ASSUME NEW s, Stateful(s), NEW r, NEW low, Took(MirrorState(s), r, low)
  PROVE  /\ Took(s, MirrorResult(r), Neg(low))
         /\ MirrorResult(r).state.last_bar_ts = r.state.last_bar_ts
<1> DEFINE m == MirrorResult(r)
           t == r.state
           x == MirrorState(s)
           y == MirrorState(t)
<1>1. /\ Proper(m) /\ m.state = y
      /\ Range(m.events) = {MirrorEvent(e) : e \in Range(r.events)}
  BY MirrorResultKeeps DEF Took
<1>2. m.events = [i \in DOMAIN r.events |-> MirrorEvent(r.events[i])]
  BY DEF MirrorResult, StepResult
<1>3. Onward(x, t) /\ Log(r.events) /\ Single(r.events)
  BY DEF Took, Proper
<1>4. Stateful(t)
  BY <1>3 DEF Onward
<1> HIDE DEF m, t, x, y
<1>5. /\ Stateful(x) /\ DOMAIN x = DOMAIN s /\ \A type : Spent(x, type) <=> Spent(s, type)
      /\ x.frozen_reasons = s.frozen_reasons /\ x.review_reasons = s.review_reasons
  BY MirrorStateful DEF x
<1>6. /\ Stateful(y) /\ DOMAIN y = DOMAIN t /\ \A type : Spent(y, type) <=> Spent(t, type)
      /\ y.frozen_reasons = t.frozen_reasons /\ y.review_reasons = t.review_reasons
      /\ y.last_bar_ts = t.last_bar_ts
  BY <1>4, MirrorStateful DEF y
<1>7. Onward(s, y)
  BY <1>3, <1>5, <1>6 DEF Onward
<1>8. \A e \in Range(r.events) : Entry(e) /\ Happens(x, t, e, low)
  BY <1>3 DEF Log, Took, x, t
<1>9. ASSUME NEW e \in Range(r.events) PROVE Happens(s, y, MirrorEvent(e), Neg(low))
  <2>1. Entry(e) /\ Happens(x, t, e, low)
    BY <1>8
  <2>2. MirrorEvent(e).type = e.type /\ MirrorEvent(e).ts = e.ts
    BY <2>1, MirrorEventKeeps
  <2>3. ZoneForm(e, low) => ZoneForm(MirrorEvent(e), Neg(low))
    <3> DEFINE type == e.type
               ts == e.ts
               level == IF type = "ZONE_LOST" THEN low ELSE None
               less == IF type = "ZONE_LOST" THEN Neg(low) ELSE None
    <3>1. Neg(None) = None /\ Neg(level) = less
      BY DEF Neg
    <3>2. ASSUME ZoneForm(e, low) PROVE ZoneForm(MirrorEvent(e), Neg(low))
      <4>1. e = [Event(type, ts) EXCEPT !.level = level]
        BY <3>2 DEF ZoneForm
      <4> HIDE DEF type, ts, level, less, ZoneForm
      <4> DEFINE f == [Event(type, ts) EXCEPT !.level = level]
      <4>2. MirrorEvent(f) = [Event(type, ts) EXCEPT !.level = less]
        BY <3>1, MirrorZone
      <4> HIDE DEF f
      <4>3. e = f
        BY <4>1 DEF f
      <4>4. MirrorEvent(e) = [Event(type, ts) EXCEPT !.level = less]
        BY <4>2, <4>3
      <4> QED
        BY <2>2, <4>4 DEF ZoneForm, less, type, ts
    <3> QED
      BY <3>2
  <2> QED
    BY <1>5, <1>6, <2>1, <2>2, <2>3 DEF Happens
<1>10. \A e \in Range(m.events) : Happens(s, y, e, Neg(low))
  BY <1>1, <1>9
<1>11. Single(m.events)
  <2>1. ASSUME NEW i \in DOMAIN r.events PROVE m.events[i].type = r.events[i].type
    <3>1. Entry(r.events[i])
      BY <1>8 DEF Range
    <3> QED
      BY <1>2, <3>1, MirrorEventKeeps
  <2>2. DOMAIN m.events = DOMAIN r.events
    BY <1>2
  <2> QED
    BY <1>3, <2>1, <2>2 DEF Single
<1>12. Took(s, m, Neg(low))
  BY <1>1, <1>7, <1>10, <1>11 DEF Took
<1> QED
  BY <1>1, <1>6, <1>12 DEF m, t

-----------------------------------------------------------------------------
(* What bars add to a ledger. *)

\* The zone's boundary, as events name it.
LowOf(c) == IF c.signal.direction = "LONG" THEN c.signal.low ELSE Neg(MirrorSignal(c.signal).low)

\* The state s knows of a market event.
Traced(s, e) ==
  \/ Spent(s, e.type)
  \/ e.type \in ZoneTypes /\ s.last_bar_ts # None /\ e.ts <= s.last_bar_ts

\* What an event of bars between the states s and t is.
Written(s, t, e, c) ==
  /\ e.type \in BarTypes /\ ~Traced(s, e) /\ Traced(t, e)
  /\ e.type \in ZoneTypes => ZoneForm(e, LowOf(c))
  /\ e.type # "EXPIRED" => e.ts \in Int /\ c.start <= e.ts

\* The latest bar never goes back.
Further(s, t) ==
  /\ t.last_bar_ts \in Int \cup {None}
  /\ s.last_bar_ts # None => t.last_bar_ts # None /\ s.last_bar_ts <= t.last_bar_ts

\* The result r of running some of the bars.
Went(s, bars, c, r) ==
  /\ Proper(r) /\ Onward(s, r.state) /\ Single(r.events) /\ Further(s, r.state)
  /\ \/ r.state.last_bar_ts = s.last_bar_ts
     \/ \E bar \in Range(bars) : r.state.last_bar_ts = bar.ts /\ c.start <= bar.ts
  /\ \A e \in Range(r.events) : Written(s, r.state, e, c)

(***************************************************************************)
(* A bar that is not ignored ends what it ends, once.                      *)
(***************************************************************************)
LEMMA StepTook ==
  ASSUME NEW s, Stateful(s), NEW bar, "ts" \in DOMAIN bar, bar.ts # None, NEW c,
         Step(s, bar, c) # Unchanged(s)
  PROVE  /\ Took(s, Step(s, bar, c), LowOf(c)) /\ Step(s, bar, c).state.last_bar_ts = bar.ts
         /\ ~(bar.ts < c.start) /\ (s.last_bar_ts # None => ~(bar.ts <= s.last_bar_ts))
<1> DEFINE sig == c.signal
           long == LongStep(s, bar, sig, c)
           short == LongStep(MirrorState(s), MirrorBar(bar), MirrorSignal(sig), c)
<1>1. ~Ignored(s, bar, c)
  BY DEF Step
<1>2. ~IsFinal(s) /\ ~(bar.ts < c.start) /\ (s.last_bar_ts # None => ~(bar.ts <= s.last_bar_ts))
  BY <1>1 DEF Ignored
<1>3. Step(s, bar, c) = IF c.signal.direction = "LONG" THEN long ELSE MirrorResult(short)
  BY <1>1 DEF Step
<1>4. CASE c.signal.direction = "LONG"
  <2>1. Took(s, long, sig.low) /\ long.state.last_bar_ts = bar.ts
    BY <1>2, LongStepTook
  <2> HIDE DEF long
  <2> QED
    BY <1>2, <1>3, <1>4, <2>1 DEF LowOf
<1>5. CASE c.signal.direction # "LONG"
  <2> DEFINE x == MirrorState(s)
             mbar == MirrorBar(bar)
             msig == MirrorSignal(sig)
  <2>1. mbar.ts = bar.ts
    BY DEF MirrorBar
  <2>2. Stateful(x) /\ x.status = s.status
    BY MirrorStateful
  <2> HIDE DEF mbar, msig
  <2>3. Stateful(x) /\ ~IsFinal(x)
    BY <1>2, <2>2 DEF IsFinal
  <2> HIDE DEF x
  <2> DEFINE q == LongStep(x, mbar, msig, c)
  <2>4. Took(x, q, msig.low) /\ q.state.last_bar_ts = mbar.ts
    BY <2>1, <2>3, LongStepTook
  <2> HIDE DEF q
  <2>5. Took(s, MirrorResult(q), Neg(msig.low)) /\ MirrorResult(q).state.last_bar_ts = bar.ts
    BY <2>1, <2>4, MirrorTook DEF x
  <2>6. Step(s, bar, c) = MirrorResult(q)
    BY <1>3, <1>5 DEF q, x, mbar, msig
  <2> QED
    BY <1>2, <1>5, <2>5, <2>6 DEF LowOf, msig
<1> QED
  BY <1>4, <1>5

(***************************************************************************)
(* One bar.                                                                *)
(***************************************************************************)
LEMMA StepWent ==
  ASSUME NEW s, Stateful(s), s.last_bar_ts \in Int \cup {None}, NEW c, c.start \in Int,
         NEW bars, NEW bar \in Range(bars), "ts" \in DOMAIN bar, bar.ts \in Int
  PROVE  Went(s, bars, c, Step(s, bar, c))
<1> DEFINE r == Step(s, bar, c)
<1>1. CASE r = Unchanged(s)
  <2>1. Proper(r) /\ r.state = s /\ Range(r.events) = {}
    BY <1>1, NoEvents
  <2>2. Single(r.events)
    BY <1>1 DEF Single, Unchanged, StepResult
  <2> HIDE DEF r
  <2>3. Onward(s, s) /\ Further(s, s)
    BY DEF Onward, Further
  <2>4. Went(s, bars, c, r)
    BY <2>1, <2>2, <2>3 DEF Went
  <2> QED
    BY <2>4 DEF r
<1>2. CASE r # Unchanged(s)
  <2>0. bar.ts # None
    BY NoneAssumption
  <2>1. /\ Took(s, r, LowOf(c)) /\ r.state.last_bar_ts = bar.ts
        /\ c.start <= bar.ts /\ (s.last_bar_ts # None => s.last_bar_ts < bar.ts)
    BY <1>2, <2>0, StepTook
  <2>2. OfBar(s, r, bar.ts)
    BY StepOfBar
  <2> HIDE DEF r
  <2>3. Further(s, r.state)
    BY <2>0, <2>1 DEF Further
  <2>4. ASSUME NEW e \in Range(r.events) PROVE Written(s, r.state, e, c)
    <3>1. e.type \in BarTypes /\ (e.type # "EXPIRED" => e.ts = bar.ts)
      BY <2>2 DEF OfBar
    <3>2. Happens(s, r.state, e, LowOf(c))
      BY <2>1 DEF Took
    <3>3. CASE e.type \in OnceTypes
      <4>1. e.type \notin ZoneTypes
        BY <3>3 DEF OnceTypes, EndTypes, ZoneTypes
      <4> QED
        BY <2>1, <3>1, <3>2, <3>3, <4>1 DEF Written, Happens, Traced
    <3>4. CASE e.type \in ZoneTypes
      <4>1. e.type \notin OnceTypes /\ e.type # "EXPIRED"
        BY <3>4 DEF OnceTypes, EndTypes, ZoneTypes
      <4>2. \A t : ~Spent(t, e.type)
        BY <4>1 DEF Spent, OnceTypes
      <4>3. s.last_bar_ts # None => ~(e.ts <= s.last_bar_ts)
        BY <2>1, <3>1, <4>1
      <4>4. e.ts <= r.state.last_bar_ts /\ r.state.last_bar_ts # None
        BY <2>0, <2>1, <3>1, <4>1
      <4> QED
        BY <2>1, <3>1, <3>2, <3>4, <4>1, <4>2, <4>3, <4>4 DEF Written, Happens, Traced
    <3> QED
      BY <3>1, <3>3, <3>4 DEF BarTypes, MarketEventTypes, OnceTypes, EndTypes, ZoneTypes
  <2>5. Went(s, bars, c, r)
    BY <2>1, <2>3, <2>4 DEF Went, Took
  <2> QED
    BY <2>5 DEF r
<1> QED
  BY <1>1, <1>2

(***************************************************************************)
(* What a state knows, a later state knows.                                *)
(***************************************************************************)
LEMMA PastKept ==
  ASSUME NEW s, s.last_bar_ts \in Int \cup {None}, NEW t, NEW e, Traced(s, e),
         e.type \in ZoneTypes => e.ts \in Int, Further(s, t),
         \A type \in OnceTypes : Spent(s, type) => Spent(t, type)
  PROVE  Traced(t, e)
<1>1. CASE Spent(s, e.type)
  <2>1. e.type \in OnceTypes
    BY <1>1 DEF Spent, OnceTypes
  <2> QED
    BY <1>1, <2>1 DEF Traced
<1>2. CASE e.type \in ZoneTypes /\ s.last_bar_ts # None /\ e.ts <= s.last_bar_ts
  <2>1. s.last_bar_ts \in Int /\ t.last_bar_ts \in Int /\ t.last_bar_ts # None
        /\ s.last_bar_ts <= t.last_bar_ts /\ e.ts \in Int
    BY <1>2 DEF Further
  <2>2. e.ts <= t.last_bar_ts
    BY <1>2, <2>1
  <2> QED
    BY <1>2, <2>1, <2>2 DEF Traced
<1> QED
  BY <1>1, <1>2 DEF Traced

(***************************************************************************)
(* One run of bars after another.                                          *)
(***************************************************************************)
LEMMA AfterWent ==
  ASSUME NEW s, s.last_bar_ts \in Int \cup {None}, NEW bars, NEW c, NEW r, Went(s, bars, c, r),
         NEW q, Went(r.state, bars, c, q)
  PROVE  Went(s, bars, c, After(r.events, q))
<1> DEFINE a == After(r.events, q)
           t == r.state
           u == q.state
<1>1. Log(r.events) /\ Proper(r) /\ Proper(q)
  BY DEF Went, Proper
<1>2. Proper(a) /\ a.state = u /\ Range(a.events) = Range(r.events) \cup Range(q.events)
  BY <1>1, AfterEvents
<1>3. \A e \in Range(r.events) : Written(s, t, e, c)
  BY DEF Went
<1>4. \A e \in Range(q.events) : Written(t, u, e, c)
  BY DEF Went
<1>5. \A e \in Range(r.events), f \in Range(q.events) : e.type \in SingleTypes => f.type # e.type
  <2>1. ASSUME NEW e \in Range(r.events), NEW f \in Range(q.events), e.type \in SingleTypes,
               f.type = e.type
        PROVE  FALSE
    <3>1. e.type \notin ZoneTypes
      BY <2>1 DEF SingleTypes, OnceTypes, EndTypes, ZoneTypes
    <3> QED
      BY <1>3, <1>4, <2>1, <3>1 DEF Written, Traced
  <2> QED
    BY <2>1
<1>6. Single(a.events)
  BY <1>1, <1>5, SingleAfter DEF Went
<1> HIDE DEF a
<1>7. Onward(s, t) /\ Onward(t, u) /\ Further(s, t) /\ Further(t, u)
  BY DEF Went
<1>8. t.last_bar_ts \in Int \cup {None}
  BY <1>7 DEF Further
<1>9. Onward(s, u)
  BY <1>7 DEF Onward
<1>10. Further(s, u)
  BY <1>7, <1>8 DEF Further
<1>11. u.last_bar_ts = s.last_bar_ts
         \/ \E bar \in Range(bars) : u.last_bar_ts = bar.ts /\ c.start <= bar.ts
  BY DEF Went
<1> HIDE DEF t, u
<1>12. ASSUME NEW e, e.type \in BarTypes, e.type # "EXPIRED" => e.ts \in Int
       PROVE  (Traced(s, e) => Traced(t, e)) /\ (Traced(t, e) => Traced(u, e))
  <2>1. e.type \in ZoneTypes => e.ts \in Int
    BY <1>12 DEF ZoneTypes
  <2> QED
    BY <1>7, <1>8, <2>1, PastKept DEF Onward
<1>13. ASSUME NEW e \in Range(a.events) PROVE Written(s, u, e, c)
  <2>1. CASE e \in Range(r.events)
    BY <1>3, <1>12, <2>1 DEF Written
  <2>2. CASE e \in Range(q.events)
    BY <1>4, <1>12, <2>2 DEF Written
  <2> QED
    BY <1>2, <1>13, <2>1, <2>2
<1>14. Went(s, bars, c, a)
  BY <1>2, <1>6, <1>9, <1>10, <1>11, <1>13 DEF Went
<1> QED
  BY <1>14 DEF a

WentSoFar(p, s, result) == Went(p.state, p.bars, p.ctx, result)

Going == INSTANCE FoldProofs WITH Apply <- StepOn, Item <- BarAt, Pick <- Greatest, Holds <- WentSoFar

(***************************************************************************)
(* run_bars, over any number of bars.                                      *)
(***************************************************************************)
LEMMA RunBarsWent ==
  ASSUME NEW s, Stateful(s), s.last_bar_ts \in Int \cup {None}, NEW bars, bars \in Seq(Range(bars)),
         \A bar \in Range(bars) : "ts" \in DOMAIN bar /\ bar.ts \in Int, NEW c, c.start \in Int
  PROVE  Went(s, bars, c, RunBars(s, bars, c))
<1> DEFINE p == [state |-> s, bars |-> bars, ctx |-> c]
           S == DOMAIN bars
<1>1. Going!IsFiniteSet(S)
  BY Indices DEF IsFiniteSet, Going!IsFiniteSet
<1>2. \A t \in SUBSET S : t # {} => Max(t) \in t
  BY Indices
<1> HIDE DEF S
<1>3. Going!Picks(p, S)
  BY <1>2 DEF Going!Picks, Greatest
<1>4. WentSoFar(p, {}, Unchanged(s))
  <2>1. Proper(Unchanged(s)) /\ Unchanged(s).state = s /\ Range(Unchanged(s).events) = {}
    BY NoEvents
  <2>2. Single(Unchanged(s).events)
    BY DEF Single, Unchanged, StepResult
  <2>3. Onward(s, s) /\ Further(s, s)
    BY DEF Onward, Further
  <2>4. Went(s, bars, c, Unchanged(s))
    BY <2>1, <2>2, <2>3 DEF Went
  <2> QED
    BY <2>4 DEF WentSoFar
<1>5. ASSUME NEW t \in SUBSET S, t # {}, NEW acc, WentSoFar(p, t \ {Greatest(p, t)}, acc)
      PROVE  WentSoFar(p, t, StepOn(p, BarAt(p, Greatest(p, t)), acc))
  <2> DEFINE bar == bars[Greatest(p, t)]
             q == Step(acc.state, bar, c)
  <2>1. Greatest(p, t) \in DOMAIN bars
    BY <1>2, <1>5 DEF Greatest, S
  <2>2. bar \in Range(bars)
    BY <2>1 DEF Range
  <2>3. Went(s, bars, c, acc)
    BY <1>5 DEF WentSoFar
  <2>4. Stateful(acc.state) /\ acc.state.last_bar_ts \in Int \cup {None}
    BY <2>3 DEF Went, Onward, Further
  <2> HIDE DEF bar
  <2>5. Went(acc.state, bars, c, q)
    BY <2>2, <2>4, StepWent
  <2> HIDE DEF q
  <2>6. Went(s, bars, c, After(acc.events, q))
    BY <2>3, <2>5, AfterWent
  <2> QED
    BY <2>6 DEF WentSoFar, StepOn, BarAt, bar, q
<1> HIDE DEF p
<1>6. WentSoFar(p, S, Going!Fold(p, Unchanged(s), S))
  BY <1>1, <1>3, <1>4, <1>5, Going!FoldHolds
<1>7. RunBars(s, bars, c) = Going!Fold(p, Unchanged(s), S)
  BY DEF RunBars, FoldLeft, Going!Fold, MapThenFoldSet, Going!MapThenFoldSet, StepOn, BarAt,
         Greatest, p, S
<1> QED
  BY <1>6, <1>7 DEF WentSoFar, p

-----------------------------------------------------------------------------
(* What anything adds to a ledger. *)

OtherTypes == {"FROZEN", "NEEDS_REVIEW", "DATA_GAP", "DIVIDEND", "DATA_QUALITY"}

\* The event of a review is its reason and what it refers to.
ReviewOf(reason, ref) == [Event("NEEDS_REVIEW", None) EXCEPT !.reason = reason, !.level = ref]

\* t comes after s on the same order.
Grows(s, t) ==
  /\ Stateful(t) /\ DOMAIN t = DOMAIN s /\ Further(s, t)
  /\ s.frozen_reasons \subseteq t.frozen_reasons /\ s.review_reasons \subseteq t.review_reasons
  /\ \A type \in OnceTypes : Spent(s, type) => Spent(t, type)

\* What an event written between the states s and t is.
NewIn(s, t, e, low) ==
  /\ e.type \in OnceTypes \cup ZoneTypes \cup OtherTypes
  /\ e.type \in OnceTypes \cup ZoneTypes => ~Traced(s, e) /\ Traced(t, e)
  /\ e.type \in ZoneTypes => e.ts \in Int /\ ZoneForm(e, low)
  /\ e.type = "FROZEN" => e.reason \in t.frozen_reasons /\ e.reason \notin s.frozen_reasons
  /\ e.type = "NEEDS_REVIEW" => e.reason \in t.review_reasons /\ e = ReviewOf(e.reason, e.level)
  /\ e.type = "DATA_GAP" => e = Event("DATA_GAP", e.ts)

\* The result r of anything in the state s.
Puts(s, r, low) ==
  /\ Proper(r) /\ Grows(s, r.state) /\ Single(r.events)
  /\ \A e \in Range(r.events) : NewIn(s, r.state, e, low)

\* The result r of reviews and records.
ReasonsOf(evs) == {e.reason : e \in {x \in Range(evs) : x.type = "NEEDS_REVIEW"}}
Marks(s, r) ==
  /\ r.state = [s EXCEPT !.review_reasons = @ \cup ReasonsOf(r.events)]
  /\ \A e \in Range(r.events) : e.type \in QualityTypes

(***************************************************************************)
(* Nothing changes nothing.                                                *)
(***************************************************************************)
LEMMA NothingPuts ==
  ASSUME NEW s, Stateful(s), s.last_bar_ts \in Int \cup {None}, NEW low
  PROVE  Puts(s, Unchanged(s), low)
<1> DEFINE r == Unchanged(s)
<1>1. Proper(r) /\ r.state = s /\ Range(r.events) = {}
  BY NoEvents
<1>2. Single(r.events)
  BY DEF Single, Unchanged, StepResult
<1> HIDE DEF r
<1>3. Grows(s, s)
  BY DEF Grows, Further
<1>4. Puts(s, r, low)
  BY <1>1, <1>2, <1>3 DEF Puts
<1> QED
  BY <1>4 DEF r

(***************************************************************************)
(* One event.                                                              *)
(***************************************************************************)
LEMMA OnePuts ==
  ASSUME NEW s, NEW t, Grows(s, t), NEW e, Entry(e), NEW low, NewIn(s, t, e, low)
  PROVE  Puts(s, StepResult(t, <<e>>), low)
<1> DEFINE r == StepResult(t, <<e>>)
<1>1. Proper(r) /\ r.state = t /\ Range(r.events) = {e}
  BY FewEvents
<1>2. Single(r.events)
  BY DEF Single, StepResult
<1> HIDE DEF r
<1>3. Puts(s, r, low)
  BY <1>1, <1>2 DEF Puts
<1> QED
  BY <1>3 DEF r

(***************************************************************************)
(* Bars.                                                                   *)
(***************************************************************************)
LEMMA WentPuts ==
  ASSUME NEW s, NEW bars, NEW c, NEW r, Went(s, bars, c, r)
  PROVE  Puts(s, r, LowOf(c))
<1>1. Grows(s, r.state)
  BY DEF Went, Onward, Grows
<1>2. ASSUME NEW e \in Range(r.events) PROVE NewIn(s, r.state, e, LowOf(c))
  <2>1. Written(s, r.state, e, c)
    BY DEF Went
  <2>2. e.type \in OnceTypes \cup ZoneTypes /\ e.type \notin OtherTypes
    BY <2>1 DEF Written, BarTypes, MarketEventTypes, OnceTypes, EndTypes, ZoneTypes, OtherTypes
  <2>3. e.type \in ZoneTypes => e.ts \in Int
    BY <2>1 DEF Written, ZoneTypes
  <2> QED
    BY <2>1, <2>2, <2>3 DEF NewIn, Written, OtherTypes
<1> QED
  BY <1>1, <1>2 DEF Puts, Went

(***************************************************************************)
(* A review after anything.                                                *)
(***************************************************************************)
LEMMA FlagAfterPuts ==
  ASSUME NEW s, NEW low, NEW r, Puts(s, r, low), NEW reason, NEW ref
  PROVE  /\ Puts(s, After(r.events, FlagReview(r.state, reason, ref)), low)
         /\ Marks(s, r) => Marks(s, After(r.events, FlagReview(r.state, reason, ref)))
<1> DEFINE t == r.state
           u == [t EXCEPT !.review_reasons = @ \cup {reason}]
           e == ReviewOf(reason, ref)
           q == StepResult(u, <<e>>)
           a == After(r.events, q)
<1>1. FlagReview(r.state, reason, ref) = q
  BY DEF FlagReview, ReviewOf
<1>2. Entry(e) /\ e.type = "NEEDS_REVIEW" /\ e.reason = reason /\ e.level = ref
  BY DEF ReviewOf, Entry, Event
<1>3. Grows(s, t) /\ Log(r.events) /\ Proper(r)
  BY DEF Puts, Proper
<1>4. /\ Stateful(u) /\ DOMAIN u = DOMAIN t /\ u.review_reasons = t.review_reasons \cup {reason}
      /\ u.frozen_reasons = t.frozen_reasons /\ u.last_bar_ts = t.last_bar_ts
      /\ u.status = t.status /\ u.t1_done = t.t1_done /\ u.trigger_hit_at = t.trigger_hit_at
  BY <1>3 DEF Grows, Stateful, StateFields
<1>5. e = ReviewOf(e.reason, e.level)
  BY <1>2
<1> HIDE DEF e
<1>6. Proper(q) /\ q.state = u /\ Range(q.events) = {e}
  BY <1>2, FewEvents
<1>7. Single(q.events)
  BY DEF Single, StepResult
<1> HIDE DEF q
<1>8. Proper(a) /\ a.state = u /\ Range(a.events) = Range(r.events) \cup {e}
  BY <1>3, <1>6, AfterEvents
<1>9. \A f \in Range(r.events), g \in Range(q.events) : f.type \in SingleTypes => g.type # f.type
  BY <1>2, <1>6 DEF SingleTypes, OnceTypes, EndTypes
<1>10. Single(a.events)
  BY <1>3, <1>6, <1>7, <1>9, SingleAfter DEF Puts
<1> HIDE DEF a
<1>11. \A type : Spent(u, type) <=> Spent(t, type)
  BY <1>4 DEF Spent, IsFinal
<1>12. \A f : Traced(u, f) <=> Traced(t, f)
  BY <1>4, <1>11 DEF Traced
<1>13. Grows(s, u)
  BY <1>3, <1>4, <1>11 DEF Grows, Further
<1>14. NewIn(s, u, e, low)
  BY <1>2, <1>4, <1>5 DEF NewIn, OtherTypes, OnceTypes, EndTypes, ZoneTypes
<1>15. ASSUME NEW f \in Range(r.events) PROVE NewIn(s, u, f, low)
  <2>1. NewIn(s, t, f, low)
    BY DEF Puts
  <2> QED
    BY <1>4, <1>12, <2>1 DEF NewIn
<1>16. Puts(s, a, low)
  BY <1>8, <1>10, <1>13, <1>14, <1>15 DEF Puts
<1>17. ASSUME Marks(s, r) PROVE Marks(s, a)
  <2>1. ReasonsOf(a.events) = ReasonsOf(r.events) \cup {reason}
    BY <1>2, <1>8 DEF ReasonsOf
  <2>2. t = [s EXCEPT !.review_reasons = @ \cup ReasonsOf(r.events)]
    BY <1>17 DEF Marks
  <2> DEFINE R == ReasonsOf(r.events)
  <2>3. DOMAIN s = DOMAIN t /\ "review_reasons" \in DOMAIN t
    BY <1>3 DEF Grows, Stateful, StateFields
  <2> HIDE DEF R
  <2>4. t = [s EXCEPT !.review_reasons = s.review_reasons \cup R]
    BY <2>2 DEF R
  <2> HIDE DEF t
  <2>5. u = [s EXCEPT !.review_reasons = (s.review_reasons \cup R) \cup {reason}]
    BY <2>3, <2>4
  <2>6. (s.review_reasons \cup R) \cup {reason} = s.review_reasons \cup ReasonsOf(a.events)
    BY <2>1 DEF R
  <2>7. a.state = [s EXCEPT !.review_reasons = s.review_reasons \cup ReasonsOf(a.events)]
    BY <1>8, <2>5, <2>6
  <2>8. \A f \in Range(a.events) : f.type \in QualityTypes
    BY <1>2, <1>8, <1>17 DEF Marks, QualityTypes
  <2> QED
    BY <2>7, <2>8 DEF Marks
<1> QED
  BY <1>1, <1>16, <1>17 DEF a

(***************************************************************************)
(* A review alone.                                                         *)
(***************************************************************************)
LEMMA FlagPuts ==
  ASSUME NEW s, Stateful(s), s.last_bar_ts \in Int \cup {None}, NEW reason, NEW ref, NEW low
  PROVE  Puts(s, FlagReview(s, reason, ref), low) /\ Marks(s, FlagReview(s, reason, ref))
<1> DEFINE r == Unchanged(s)
           f == FlagReview(s, reason, ref)
<1>1. Puts(s, r, low) /\ r.state = s /\ r.events = <<>> /\ Range(r.events) = {}
  BY NothingPuts, NoEvents DEF Unchanged, StepResult
<1>2. Marks(s, r)
  <2>1. ReasonsOf(r.events) = {}
    BY <1>1 DEF ReasonsOf
  <2>2. s = [s EXCEPT !.review_reasons = s.review_reasons]
    BY DEF Stateful
  <2>3. s.review_reasons \cup ReasonsOf(r.events) = s.review_reasons
    BY <2>1
  <2> QED
    BY <1>1, <2>2, <2>3 DEF Marks
<1>3. Puts(s, After(r.events, FlagReview(r.state, reason, ref)), low)
      /\ Marks(s, After(r.events, FlagReview(r.state, reason, ref)))
  BY <1>1, <1>2, FlagAfterPuts
<1>4. After(r.events, FlagReview(r.state, reason, ref)) = f
  <2>1. f = [state |-> f.state, events |-> f.events] /\ f.events \in Seq(Range(f.events))
    <3>1. Fielded(s)
      BY DEF Fielded, Stateful, StateFields
    <3> QED
      BY <3>1, FlagCalm DEF Calm, Proper, Log
  <2> DEFINE t == f.state
             evs == f.events
  <2>2. f = [state |-> t, events |-> evs] /\ evs \in Seq(Range(evs))
    BY <2>1
  <2> HIDE DEF t, evs
  <2>3. <<>> \o evs = evs
    BY <2>2
  <2>4. After(<<>>, f) = [state |-> t, events |-> <<>> \o evs]
    BY <2>2, AfterIs
  <2> QED
    BY <1>1, <2>2, <2>3, <2>4
<1> QED
  BY <1>3, <1>4 DEF f

-----------------------------------------------------------------------------
(* What the calls outside of a cycle add. *)

(***************************************************************************)
(* A cancellation.                                                         *)
(***************************************************************************)
LEMMA CancelPuts ==
  ASSUME NEW s, Stateful(s), s.last_bar_ts \in Int \cup {None}, NEW at, NEW low
  PROVE  Puts(s, Cancel(s, at), low)
<1> DEFINE t == [s EXCEPT !.status = "CANCELED", !.final_event_ts = at]
           e == [Event("CANCELED", None) EXCEPT !.level = at]
<1>1. CASE IsFinal(s)
  <2>1. Cancel(s, at) = Unchanged(s)
    BY <1>1 DEF Cancel
  <2> QED
    BY <2>1, NothingPuts
<1>2. CASE ~IsFinal(s)
  <2>1. Cancel(s, at) = StepResult(t, <<e>>)
    BY <1>2 DEF Cancel
  <2>2. Entry(e) /\ e.type = "CANCELED"
    BY DEF Entry, Event
  <2>3. /\ Stateful(t) /\ DOMAIN t = DOMAIN s /\ t.status = "CANCELED" /\ t.t1_done = s.t1_done
        /\ t.frozen_reasons = s.frozen_reasons /\ t.review_reasons = s.review_reasons
        /\ t.trigger_hit_at = s.trigger_hit_at /\ t.last_bar_ts = s.last_bar_ts
    BY DEF Stateful, StateFields
  <2> HIDE DEF t, e
  <2>4. IsFinal(t) /\ t.status # "PENDING"
    BY <2>3 DEF IsFinal, FinalStatuses
  <2>5. Grows(s, t)
    BY <2>3, <2>4 DEF Grows, Further, Spent, OnceTypes
  <2>6. NewIn(s, t, e, low)
    BY <1>2, <2>2, <2>4 DEF NewIn, Traced, Spent, OnceTypes, EndTypes, ZoneTypes
  <2> QED
    BY <2>1, <2>2, <2>5, <2>6, OnePuts
<1> QED
  BY <1>1, <1>2

(***************************************************************************)
(* A freeze.                                                               *)
(***************************************************************************)
LEMMA FreezePuts ==
  ASSUME NEW s, Stateful(s), s.last_bar_ts \in Int \cup {None}, NEW reason, NEW ref, NEW low
  PROVE  Puts(s, Freeze(s, reason, ref), low)
<1> DEFINE t == [s EXCEPT !.frozen_reasons = @ \cup {reason}]
           e == [Event("FROZEN", None) EXCEPT !.reason = reason, !.level = ref]
           r == StepResult(t, <<e>>)
<1>1. CASE IsFinal(s) \/ reason \in s.frozen_reasons
  <2>1. Freeze(s, reason, ref) = Unchanged(s)
    BY <1>1 DEF Freeze
  <2> QED
    BY <2>1, NothingPuts
<1>2. CASE ~(IsFinal(s) \/ reason \in s.frozen_reasons)
  <2>1. Freeze(s, reason, ref) = After(<<e>>, FlagReview(t, reason, ref))
    BY <1>2 DEF Freeze
  <2>2. Entry(e) /\ e.type = "FROZEN" /\ e.reason = reason
    BY DEF Entry, Event
  <2>3. /\ Stateful(t) /\ DOMAIN t = DOMAIN s /\ t.status = s.status /\ t.t1_done = s.t1_done
        /\ t.frozen_reasons = s.frozen_reasons \cup {reason} /\ t.review_reasons = s.review_reasons
        /\ t.trigger_hit_at = s.trigger_hit_at /\ t.last_bar_ts = s.last_bar_ts
    BY DEF Stateful, StateFields
  <2> HIDE DEF t, e
  <2>4. Grows(s, t)
    BY <2>3 DEF Grows, Further, Spent, IsFinal
  <2>5. NewIn(s, t, e, low)
    BY <1>2, <2>2, <2>3 DEF NewIn, OtherTypes, OnceTypes, EndTypes, ZoneTypes
  <2>6. Puts(s, r, low)
    BY <2>2, <2>4, <2>5, OnePuts
  <2>7. r.state = t /\ r.events = <<e>>
    BY DEF StepResult
  <2> HIDE DEF r
  <2>8. Puts(s, After(r.events, FlagReview(r.state, reason, ref)), low)
    BY <2>6, FlagAfterPuts
  <2> QED
    BY <2>1, <2>7, <2>8
<1> QED
  BY <1>1, <1>2

(***************************************************************************)
(* A dividend.                                                             *)
(***************************************************************************)
LEMMA DividendPuts ==
  ASSUME NEW s, Stateful(s), s.last_bar_ts \in Int \cup {None}, NEW c, NEW exDate, NEW amount,
         NEW validated, NEW low
  PROVE  Puts(s, ApplyDividend(s, c, exDate, amount, validated), low)
<1> DEFINE cash == (IF c.signal.direction = "LONG" THEN amount ELSE -amount) * s.qty_open
           t == [s EXCEPT !.dividends = @ + cash]
           e == [Event("DIVIDEND", None) EXCEPT !.level = amount, !.qty = s.qty_open, !.pnl = cash]
           d == StepResult(t, <<e>>)
<1>1. ApplyDividend(s, c, exDate, amount, validated)
        \in {Unchanged(s), FlagReview(s, "DIVIDEND_UNVERIFIED", exDate), d}
  BY DEF ApplyDividend
<1> HIDE DEF cash
<1>2. Entry(e) /\ e.type = "DIVIDEND"
  BY DEF Entry, Event
<1>3. /\ Stateful(t) /\ DOMAIN t = DOMAIN s /\ t.status = s.status /\ t.t1_done = s.t1_done
      /\ t.frozen_reasons = s.frozen_reasons /\ t.review_reasons = s.review_reasons
      /\ t.trigger_hit_at = s.trigger_hit_at /\ t.last_bar_ts = s.last_bar_ts
  BY DEF Stateful, StateFields
<1> HIDE DEF t, e
<1>4. Grows(s, t)
  BY <1>3 DEF Grows, Further, Spent, IsFinal
<1>5. NewIn(s, t, e, low)
  BY <1>2 DEF NewIn, OtherTypes, OnceTypes, EndTypes, ZoneTypes
<1>6. Puts(s, d, low)
  BY <1>2, <1>4, <1>5, OnePuts
<1>7. Puts(s, Unchanged(s), low) /\ Puts(s, FlagReview(s, "DIVIDEND_UNVERIFIED", exDate), low)
  BY NothingPuts, FlagPuts
<1> QED
  BY <1>1, <1>6, <1>7

(***************************************************************************)
(* A phase that leaves the zone and the latest bar alone.                  *)
(***************************************************************************)
LEMMA TookPuts ==
  ASSUME NEW s, s.last_bar_ts \in Int \cup {None}, NEW r, NEW any, Took(s, r, any),
         r.state.last_bar_ts = s.last_bar_ts, \A e \in Range(r.events) : e.type \notin ZoneTypes,
         NEW low
  PROVE  Puts(s, r, low)
<1>1. Grows(s, r.state)
  BY DEF Took, Onward, Grows, Further
<1>2. ASSUME NEW e \in Range(r.events) PROVE NewIn(s, r.state, e, low)
  <2>1. Happens(s, r.state, e, any) /\ e.type \in OnceTypes /\ e.type \notin ZoneTypes
    BY DEF Took, Happens
  <2>2. e.type \notin OtherTypes
    BY <2>1 DEF OnceTypes, EndTypes, OtherTypes
  <2> QED
    BY <2>1, <2>2 DEF NewIn, Happens, Traced, OtherTypes
<1> QED
  BY <1>1, <1>2 DEF Puts, Took

\* The end of the validity, in the direction of the order.
EndIn(s, c, bar) ==
  IF c.signal.direction = "LONG" THEN ValidityEnd(s, bar, c)
  ELSE MirrorResult(ValidityEnd(MirrorState(s), MirrorBar(bar), c))

(***************************************************************************)
(* It closes the order at most once, with EXPIRED or TIME_EXIT.            *)
(***************************************************************************)
LEMMA EndedPuts ==
  ASSUME NEW s, Stateful(s), s.last_bar_ts \in Int \cup {None}, ~IsFinal(s), NEW c, NEW bar,
         NEW low
  PROVE  /\ Puts(s, EndIn(s, c, bar), low)
         /\ \A e \in Range(EndIn(s, c, bar).events) : e.type \in {"EXPIRED", "TIME_EXIT"}
<1> DEFINE long == ValidityEnd(s, bar, c)
           x == MirrorState(s)
           q == ValidityEnd(x, MirrorBar(bar), c)
           short == MirrorResult(q)
<1>1. Took(s, long, low) /\ long.state.last_bar_ts = s.last_bar_ts
  BY EndTook
<1>2. \A e \in Range(long.events) : e.type \in {"EXPIRED", "TIME_EXIT"}
  BY EndOfBar
<1>3. /\ Stateful(x) /\ x.status = s.status /\ x.last_bar_ts = s.last_bar_ts
  BY MirrorStateful
<1> HIDE DEF x
<1>4. ~IsFinal(x)
  BY <1>3 DEF IsFinal
<1>5. Took(x, q, low) /\ q.state.last_bar_ts = s.last_bar_ts
  BY <1>3, <1>4, EndTook
<1>6. /\ \A e \in Range(q.events) : e.type \in {"EXPIRED", "TIME_EXIT"}
      /\ OfBar(x, q, MirrorBar(bar).ts)
  BY EndOfBar
<1> HIDE DEF q
<1>7. Took(s, short, Neg(low)) /\ short.state.last_bar_ts = s.last_bar_ts
  BY <1>5, MirrorTook DEF x
<1>8. {e.type : e \in Range(short.events)} = {e.type : e \in Range(q.events)}
  BY <1>6, MirrorOfBar DEF x
<1>9. \A e \in Range(short.events) : e.type \in {"EXPIRED", "TIME_EXIT"}
  BY <1>6, <1>8
<1> HIDE DEF long, short
<1>10. Puts(s, long, low)
  BY <1>1, <1>2, TookPuts DEF ZoneTypes
<1>11. Puts(s, short, low)
  BY <1>7, <1>9, TookPuts DEF ZoneTypes
<1>12. EndIn(s, c, bar) \in {long, short}
  BY DEF EndIn, long, short, q, x
<1> QED
  BY <1>2, <1>9, <1>10, <1>11, <1>12

(***************************************************************************)
(* What apply_validity_end writes.                                         *)
(***************************************************************************)
LEMMA EndPuts ==
  ASSUME NEW s, Stateful(s), s.last_bar_ts \in Int \cup {None}, NEW c, NEW bar, NEW low
  PROVE  Puts(s, ApplyValidityEnd(s, c, bar), low)
<1> DEFINE ended == EndIn(s, c, bar)
           end == ValidityEnd(s, bar, c)
<1>1. ApplyValidityEnd(s, c, bar)
        = IF IsFinal(s) \/ Frozen(s) THEN Unchanged(s)
          ELSE IF s.status = "PENDING" THEN end
          ELSE IF bar = None THEN FlagReview(s, "NO_EXIT_BAR", c.until)
          ELSE IF IsLastBar(bar, c) THEN ended
          ELSE After(ended.events, FlagReview(ended.state, "STALE_EXIT_BAR", c.until))
  BY DEF ApplyValidityEnd, EndIn
<1>2. Puts(s, Unchanged(s), low) /\ Puts(s, FlagReview(s, "NO_EXIT_BAR", c.until), low)
  BY NothingPuts, FlagPuts
<1>3. ~IsFinal(s) => Puts(s, ended, low)
  BY EndedPuts
<1>4. ~IsFinal(s) => Puts(s, end, low)
  <2>1. ASSUME ~IsFinal(s) PROVE Puts(s, end, low)
    <3>1. Took(s, end, low) /\ end.state.last_bar_ts = s.last_bar_ts
      BY <2>1, EndTook
    <3>2. \A e \in Range(end.events) : e.type \notin ZoneTypes
      BY EndOfBar DEF ZoneTypes
    <3> HIDE DEF end
    <3> QED
      BY <3>1, <3>2, TookPuts
  <2> QED
    BY <2>1
<1> HIDE DEF ended, end
<1>5. ~IsFinal(s) => Puts(s, After(ended.events, FlagReview(ended.state, "STALE_EXIT_BAR", c.until)), low)
  BY <1>3, FlagAfterPuts
<1> QED
  BY <1>1, <1>2, <1>3, <1>4, <1>5

(***************************************************************************)
(* A position is ended by one event, at the bar.                           *)
(***************************************************************************)
LEMMA EndedForm ==
  ASSUME NEW s, s.status # "PENDING", NEW c, NEW bar, "ts" \in DOMAIN bar
  PROVE  \E e : /\ EndIn(s, c, bar).events = <<e>>
                /\ Entry(e) /\ e.type = "TIME_EXIT" /\ e.ts = bar.ts
<1>1. ASSUME NEW t, t.status # "PENDING", NEW b
      PROVE  \E u, e : /\ ValidityEnd(t, b, c) = [state |-> u, events |-> <<e>>]
                       /\ Entry(e) /\ e.type = "TIME_EXIT" /\ e.ts = b.ts
  <2> DEFINE price == AdverseSell(b.close, c.config.stop_slip)
             pnl == (price - t.avg_entry) * t.qty_open
             cost == ExecutionCost(c, price, t.qty_open, "exit")
             u == [t EXCEPT !.status = "CLOSED", !.qty_open = 0, !.realized_pnl = @ + pnl,
                    !.costs = @ + cost, !.close_reason = "TIME_EXIT", !.closed_at = b.ts,
                    !.final_event_ts = b.ts]
             e == [Event("TIME_EXIT", b.ts) EXCEPT !.price = price, !.level = b.close,
                     !.qty = t.qty_open, !.pnl = pnl, !.cost = cost]
  <2>1. ValidityEnd(t, b, c) = [state |-> u, events |-> <<e>>]
    BY <1>1 DEF ValidityEnd, Close, StepResult
  <2> HIDE DEF price, pnl, cost
  <2>2. Entry(e) /\ e.type = "TIME_EXIT" /\ e.ts = b.ts
    BY DEF Entry, Event
  <2> HIDE DEF u, e
  <2> QED
    BY <2>1, <2>2
<1>2. CASE c.signal.direction = "LONG"
  <2>1. PICK u, e : /\ ValidityEnd(s, bar, c) = [state |-> u, events |-> <<e>>]
                    /\ Entry(e) /\ e.type = "TIME_EXIT" /\ e.ts = bar.ts
    BY <1>1
  <2>2. EndIn(s, c, bar).events = <<e>>
    BY <1>2, <2>1 DEF EndIn
  <2> QED
    BY <2>1, <2>2
<1>3. CASE c.signal.direction # "LONG"
  <2> DEFINE x == MirrorState(s)
             b == MirrorBar(bar)
  <2>1. x.status # "PENDING"
    BY DEF MirrorState
  <2>2. b.ts = bar.ts
    BY DEF MirrorBar
  <2> HIDE DEF x, b
  <2>3. PICK u, e : /\ ValidityEnd(x, b, c) = [state |-> u, events |-> <<e>>]
                    /\ Entry(e) /\ e.type = "TIME_EXIT" /\ e.ts = b.ts
    BY <1>1, <2>1
  <2>4. EndIn(s, c, bar) = MirrorResult([state |-> u, events |-> <<e>>])
    BY <1>3, <2>3 DEF EndIn, x, b
  <2> DEFINE one == <<e>>
             evs == EndIn(s, c, bar).events
  <2>5. evs = [i \in DOMAIN one |-> MirrorEvent(one[i])]
    BY <2>4 DEF MirrorResult, StepResult
  <2>6. DOMAIN one = {1} /\ one[1] = e
    OBVIOUS
  <2>7. evs = [i \in {1} |-> MirrorEvent(e)]
    <3> HIDE DEF one
    <3>1. \A i \in DOMAIN one : one[i] = e
      BY <2>6
    <3> QED
      BY <2>5, <2>6, <3>1
  <2> DEFINE f == MirrorEvent(e)
  <2>8. evs = <<f>>
    BY <2>7
  <2>9. Entry(f) /\ f.type = "TIME_EXIT" /\ f.ts = bar.ts
    BY <2>2, <2>3, MirrorEventKeeps
  <2> HIDE DEF f
  <2> QED
    BY <2>8, <2>9
<1> QED
  BY <1>2, <1>3

\* What apply_validity_end begins with.
EndStarts(s, c, bar, r) ==
  \/ r = Unchanged(s)
  \/ bar = None /\ r = FlagReview(s, "NO_EXIT_BAR", c.until)
  \/ s.status = "PENDING" /\ r.events = <<Event("EXPIRED", None)>>
  \/ /\ bar # None /\ r.events # <<>> /\ r.events[1].type = "TIME_EXIT" /\ r.events[1].ts = bar.ts
     /\ \A e \in Range(r.events) : e.type \in MarketEventTypes => e.ts = bar.ts

(***************************************************************************)
(* apply_validity_end leaves the order alone, flags it, expires it or      *)
(* exits at the bar it was given.                                          *)
(***************************************************************************)
LEMMA EndForm ==
  ASSUME NEW s, NEW c, NEW bar, bar = None \/ "ts" \in DOMAIN bar
  PROVE  EndStarts(s, c, bar, ApplyValidityEnd(s, c, bar))
<1> DEFINE ended == EndIn(s, c, bar)
           flag == FlagReview(ended.state, "STALE_EXIT_BAR", c.until)
           r == ApplyValidityEnd(s, c, bar)
<1>1. r = IF IsFinal(s) \/ Frozen(s) THEN Unchanged(s)
          ELSE IF s.status = "PENDING" THEN ValidityEnd(s, bar, c)
          ELSE IF bar = None THEN FlagReview(s, "NO_EXIT_BAR", c.until)
          ELSE IF IsLastBar(bar, c) THEN ended
          ELSE After(ended.events, flag)
  BY DEF ApplyValidityEnd, EndIn
<1> SUFFICES EndStarts(s, c, bar, r)
  OBVIOUS
<1> HIDE DEF r
<1>2. CASE IsFinal(s) \/ Frozen(s)
  BY <1>1, <1>2 DEF EndStarts
<1>3. CASE ~(IsFinal(s) \/ Frozen(s)) /\ s.status = "PENDING"
  <2>1. r.events = <<Event("EXPIRED", None)>>
    BY <1>1, <1>3 DEF ValidityEnd, StepResult
  <2> QED
    BY <1>3, <2>1 DEF EndStarts
<1>4. CASE ~(IsFinal(s) \/ Frozen(s)) /\ s.status # "PENDING" /\ bar = None
  BY <1>1, <1>4 DEF EndStarts
<1>5. CASE ~(IsFinal(s) \/ Frozen(s)) /\ s.status # "PENDING" /\ bar # None
  <2>1. PICK x : ended.events = <<x>> /\ Entry(x) /\ x.type = "TIME_EXIT" /\ x.ts = bar.ts
    BY <1>5, EndedForm
  <2>2. Range(<<x>>) = {x} /\ <<x>> # <<>> /\ <<x>>[1] = x
    BY DEF Range
  <2>3. CASE r = ended
    BY <1>5, <2>1, <2>2, <2>3 DEF EndStarts
  <2>4. CASE r = After(ended.events, flag)
    <3> DEFINE e == ReviewOf("STALE_EXIT_BAR", c.until)
      <3>1. flag = [state |-> flag.state, events |-> <<e>>]
      BY DEF FlagReview, StepResult, ReviewOf
    <3>2. e.type = "NEEDS_REVIEW"
      BY DEF ReviewOf, Event
    <3> DEFINE t == flag.state
    <3>3. flag = [state |-> t, events |-> <<e>>]
      BY <3>1
    <3> HIDE DEF e, flag, t
    <3> DEFINE a == <<x>>
               b == <<e>>
               z == a \o b
    <3>4. r.events = z
      <4>1. After(a, [state |-> t, events |-> b]) = [state |-> t, events |-> z]
        BY AfterIs
      <4> HIDE DEF z
      <4>2. r = [state |-> t, events |-> z]
        BY <2>1, <2>4, <3>3, <4>1
      <4> QED
        BY <4>2
    <3>6. a \in Seq(Range(a)) /\ b \in Seq(Range(b)) /\ Range(a) = {x} /\ Range(b) = {e}
          /\ Len(a) = 1 /\ Len(b) = 1 /\ a[1] = x
      BY DEF Range
    <3> HIDE DEF a, b
    <3>7. Range(z) = {x, e} /\ DOMAIN z = 1..2 /\ z[1] = x
      <4>1. /\ Range(z) = Range(a) \cup Range(b) /\ DOMAIN z = 1..(Len(a) + Len(b))
            /\ \A i \in 1..(Len(a) + Len(b)) : z[i] = IF i <= Len(a) THEN a[i] ELSE b[i - Len(a)]
        BY <3>6, Concat
      <4> QED
        BY <3>6, <4>1
    <3> HIDE DEF z
    <3>8. z # <<>>
      BY <3>7
    <3>5. Range(r.events) = {x, e} /\ r.events # <<>> /\ r.events[1] = x
      BY <3>4, <3>7, <3>8
    <3> QED
      BY <1>5, <2>1, <3>2, <3>5 DEF EndStarts, MarketEventTypes
  <2> QED
    BY <1>1, <1>5, <2>3, <2>4
<1> QED
  BY <1>2, <1>3, <1>4, <1>5 DEF r

-----------------------------------------------------------------------------
(* What the engine reads of a state: everything but the last bar. *)

Fields ==
  {"status", "zone_lost", "zone_ever_lost", "entry_eligible_from", "trigger_hit_at", "entry_path",
   "avg_entry", "initial_stop", "stop_current", "stop_previous", "stop_active_from", "t1_done",
   "qty_total", "qty_open", "realized_pnl", "costs", "dividends", "best_price", "worst_price",
   "opened_at", "closed_at", "final_event_ts", "last_bar_ts", "close_reason", "frozen_reasons",
   "review_reasons"}

IsState(s) == s = [f \in Fields |-> s[f]]

\* Two states that differ in their last bar, and two contexts in where they start.
Alike(s, m) == IsState(s) /\ IsState(m) /\ \A f \in Fields \ {"last_bar_ts"} : m[f] = s[f]
Same(c, d) == d.signal = c.signal /\ d.config = c.config /\ d.until = c.until

Result(r) == r \in [state : {r.state}, events : {r.events}]
Twins(r, q) == Result(r) /\ Result(q) /\ Alike(r.state, q.state) /\ q.events = r.events

(***************************************************************************)
(* Results with the same events, of twin states, are twins.                *)
(***************************************************************************)
LEMMA ResultTwins ==
  ASSUME NEW s, NEW m, Alike(s, m), NEW evs
  PROVE  Twins(StepResult(s, evs), StepResult(m, evs))
  BY DEF Twins, Result, StepResult

(***************************************************************************)
(* So are they after the same events.                                      *)
(***************************************************************************)
LEMMA AfterTwins ==
  ASSUME NEW r, NEW q, Twins(r, q), NEW evs
  PROVE  Twins(After(evs, r), After(evs, q))
<1> DEFINE all == evs \o r.events
<1>1. /\ r \in [state : {r.state}, events : {r.events}]
      /\ q \in [state : {q.state}, events : {q.events}]
      /\ Alike(r.state, q.state) /\ q.events = r.events
  BY DEF Twins, Result
<1>2. evs \o q.events = all
  BY <1>1
<1> HIDE DEF all
<1>3. After(evs, r) \in [state : {r.state}, events : {all}]
  BY <1>1 DEF After, all
<1>4. After(evs, q) \in [state : {q.state}, events : {all}]
  BY <1>1, <1>2 DEF After
<1> QED
  BY <1>1, <1>3, <1>4 DEF Twins, Result

(***************************************************************************)
(* _close reads the entry price and the open quantity, never the last bar  *)
(* or the start.                                                           *)
(***************************************************************************)
LEMMA CloseTwins ==
  ASSUME NEW s, NEW m, Alike(s, m), NEW c, NEW d, Same(c, d), NEW bar, NEW type, NEW price, NEW level, NEW reason
  PROVE  Twins(Close(s, bar, c, type, price, level, reason), Close(m, bar, d, type, price, level, reason))
<1> DEFINE pnl == (price - s.avg_entry) * s.qty_open
           cost == ExecutionCost(c, price, s.qty_open, "exit")
           e == [Event(type, bar.ts) EXCEPT !.price = price, !.level = level,
                   !.qty = s.qty_open, !.pnl = pnl, !.cost = cost]
           t(x) == [x EXCEPT !.status = "CLOSED", !.qty_open = 0, !.realized_pnl = @ + pnl,
                     !.costs = @ + cost, !.close_reason = reason, !.closed_at = bar.ts,
                     !.final_event_ts = bar.ts]
<1>1. m.avg_entry = s.avg_entry /\ m.qty_open = s.qty_open
  BY DEF Alike, Fields
<1>2. ExecutionCost(d, price, m.qty_open, "exit") = cost
  BY <1>1 DEF ExecutionCost, Same
<1>3. Close(s, bar, c, type, price, level, reason) = StepResult(t(s), <<e>>)
  BY DEF Close
<1>4. Close(m, bar, d, type, price, level, reason) = StepResult(t(m), <<e>>)
  BY <1>1, <1>2 DEF Close
<1> HIDE DEF e, pnl, cost
<1>5. Alike(t(s), t(m))
  BY DEF Alike, IsState, Fields
<1> HIDE DEF t
<1> QED
  BY <1>3, <1>4, <1>5, ResultTwins

(***************************************************************************)
(* The first target sells the same part, and moves the stop alike.         *)
(***************************************************************************)
LEMMA ScaleOutTwins ==
  ASSUME NEW s, NEW m, Alike(s, m), NEW c, NEW d, Same(c, d), NEW bar, NEW sig
  PROVE  Twins(ScaleOut(s, bar, sig, c), ScaleOut(m, bar, sig, d))
<1> DEFINE qty == (s.qty_total * c.config.scale_out_pct) \div 100
           pnl == (sig.target1 - s.avg_entry) * qty
           cost == ExecutionCost(c, sig.target1, qty, "exit")
           e == [Event("TARGET1_HIT", bar.ts) EXCEPT !.price = sig.target1,
                   !.level = s.avg_entry, !.qty = qty, !.pnl = pnl, !.cost = cost]
           u == s.stop_current
           v == s.avg_entry
           t(x) == [x EXCEPT !.status = "PARTIAL", !.t1_done = TRUE, !.qty_open = @ - qty,
                     !.realized_pnl = @ + pnl, !.costs = @ + cost,
                     !.stop_previous = u, !.stop_current = v,
                     !.stop_active_from = NextExpectedMinute(bar.ts)]
<1>1. m.avg_entry = s.avg_entry /\ m.qty_total = s.qty_total /\ m.stop_current = s.stop_current
  BY DEF Alike, Fields
<1>2. d.config = c.config /\ \A p, n : ExecutionCost(d, p, n, "exit") = ExecutionCost(c, p, n, "exit")
  BY DEF ExecutionCost, Same
<1>3. ScaleOut(s, bar, sig, c) = StepResult(t(s), <<e>>)
  BY DEF ScaleOut
<1>4. ScaleOut(m, bar, sig, d) = StepResult(t(m), <<e>>)
  BY <1>1, <1>2 DEF ScaleOut
<1> HIDE DEF e, pnl, cost, qty, u, v
<1>5. Alike(t(s), t(m))
  BY DEF Alike, IsState, Fields
<1> HIDE DEF t
<1> QED
  BY <1>3, <1>4, <1>5, ResultTwins

(***************************************************************************)
(* The exit phase of a bar: stop, targets and the prices seen.             *)
(***************************************************************************)
LEMMA ExitTwins ==
  ASSUME NEW s, NEW m, Alike(s, m), NEW c, NEW d, Same(c, d), NEW bar, NEW sig, NEW entryBar
  PROVE  Twins(ExitPhase(s, bar, sig, c, entryBar), ExitPhase(m, bar, sig, d, entryBar))
<1> DEFINE stop == IF s.stop_active_from # None /\ bar.ts < s.stop_active_from
                   THEN s.stop_previous ELSE s.stop_current
           stopped == bar.low <= stop
           best == IF entryBar \/ stopped THEN s.best_price ELSE Greater(s.best_price, bar.high)
           worst == Lesser(s.worst_price, bar.low)
           seen(x) == [x EXCEPT !.best_price = best, !.worst_price = worst]
           raw == Lesser(bar.open, stop)
           hit1 == ~s.t1_done /\ bar.high >= sig.target1
           scaled(x, k) == IF hit1 THEN ScaleOut(seen(x), bar, sig, k) ELSE Unchanged(seen(x))
           phase(x, k) ==
             IF stopped
             THEN Close(seen(x), bar, k, "STOPPED", AdverseSell(raw, c.config.stop_slip), raw, "STOPPED")
             ELSE IF entryBar THEN Unchanged(seen(x))
             ELSE IF hit1 /\ sig.target2 = None
             THEN Close(seen(x), bar, k, "TARGET1_HIT", sig.target1, None, "TARGET_FINAL")
             ELSE IF scaled(x, k).state.t1_done /\ sig.target2 # None /\ bar.high >= sig.target2
             THEN After(scaled(x, k).events, Close(scaled(x, k).state, bar, k, "TARGET2_HIT", sig.target2,
                                             None, "TARGET_FINAL"))
             ELSE scaled(x, k)
<1>1. /\ m.stop_active_from = s.stop_active_from /\ m.stop_previous = s.stop_previous
      /\ m.stop_current = s.stop_current /\ m.t1_done = s.t1_done
      /\ m.best_price = s.best_price /\ m.worst_price = s.worst_price
  BY DEF Alike, Fields
<1>2. ExitPhase(s, bar, sig, c, entryBar) = phase(s, c)
  BY DEF ExitPhase
<1>3. ExitPhase(m, bar, sig, d, entryBar) = phase(m, d)
  BY <1>1 DEF ExitPhase, Same
<1> HIDE DEF best, worst, raw, stopped, hit1
<1>4. Alike(seen(s), seen(m))
  BY DEF Alike, IsState, Fields
<1> HIDE DEF seen
<1>5. Twins(scaled(s, c), scaled(m, d))
  BY <1>4, ScaleOutTwins, ResultTwins DEF Unchanged
<1> HIDE DEF scaled
<1>6. scaled(m, d).state.t1_done = scaled(s, c).state.t1_done /\ scaled(m, d).events = scaled(s, c).events
      /\ Alike(scaled(s, c).state, scaled(m, d).state)
  BY <1>5 DEF Twins, Alike, Fields
<1>7. \A x, y, type, price, level, reason :
        Alike(x, y) => Twins(Close(x, bar, c, type, price, level, reason), Close(y, bar, d, type, price, level, reason))
  BY CloseTwins
<1>8. Twins(phase(s, c), phase(m, d))
  <2>1. CASE stopped
    BY <1>4, <1>7, <2>1
  <2>2. CASE ~stopped /\ entryBar
    BY <1>4, <2>2, ResultTwins DEF Unchanged
  <2>3. CASE ~stopped /\ ~entryBar /\ hit1 /\ sig.target2 = None
    BY <1>4, <1>7, <2>3
  <2>4. CASE /\ ~stopped /\ ~entryBar /\ ~(hit1 /\ sig.target2 = None)
             /\ scaled(s, c).state.t1_done /\ sig.target2 # None /\ bar.high >= sig.target2
    <3> DEFINE x == Close(scaled(s, c).state, bar, c, "TARGET2_HIT", sig.target2, None, "TARGET_FINAL")
               y == Close(scaled(m, d).state, bar, d, "TARGET2_HIT", sig.target2, None, "TARGET_FINAL")
    <3>1. Twins(x, y)
      BY <1>6, <1>7
    <3> HIDE DEF x, y
    <3>2. Twins(After(scaled(s, c).events, x), After(scaled(m, d).events, y))
      BY <1>6, <3>1, AfterTwins
    <3> QED
      BY <1>6, <2>4, <3>2 DEF x, y
  <2>5. CASE /\ ~stopped /\ ~entryBar /\ ~(hit1 /\ sig.target2 = None)
             /\ ~(scaled(s, c).state.t1_done /\ sig.target2 # None /\ bar.high >= sig.target2)
    BY <1>5, <1>6, <2>5
  <2> QED
    BY <2>1, <2>2, <2>3, <2>4, <2>5
<1> QED
  BY <1>2, <1>3, <1>8

(***************************************************************************)
(* An invalidation.                                                        *)
(***************************************************************************)
LEMMA InvalidateTwins ==
  ASSUME NEW s, NEW m, Alike(s, m), NEW bar
  PROVE  Twins(Invalidate(s, bar), Invalidate(m, bar))
<1> DEFINE t(x) == [x EXCEPT !.status = "INVALIDATED", !.final_event_ts = bar.ts]
<1>1. Alike(t(s), t(m))
  BY DEF Alike, IsState, Fields
<1> HIDE DEF t
<1> QED
  BY <1>1, ResultTwins DEF Invalidate, t

(***************************************************************************)
(* The entry: price, quantity, costs and path.                             *)
(***************************************************************************)
LEMMA FillTwins ==
  ASSUME NEW s, NEW m, Alike(s, m), NEW c, NEW d, Same(c, d), NEW bar, NEW sig, NEW raw
  PROVE  Twins(Fill(s, bar, sig, c, raw), Fill(m, bar, sig, d, raw))
<1> DEFINE price == AdverseBuy(raw, c.config.entry_slip)
           qty == c.config.risk_amount \div (price - sig.stop)
           cost == ExecutionCost(c, price, qty, "entry")
           path == IF s.zone_ever_lost THEN "RECLAIMED" ELSE "DIRECT"
           e == [Event("FILLED", bar.ts) EXCEPT !.price = price, !.level = raw, !.qty = qty, !.cost = cost]
           t(x) == [x EXCEPT !.status = "OPEN", !.avg_entry = price, !.initial_stop = sig.stop,
                  !.stop_current = sig.stop, !.qty_total = qty, !.qty_open = qty,
                  !.costs = @ + cost, !.opened_at = bar.ts, !.best_price = price, !.entry_path = path]
<1>1. m.zone_ever_lost = s.zone_ever_lost
  BY DEF Alike, Fields
<1>2. d.config = c.config /\ \A p, n : ExecutionCost(d, p, n, "entry") = ExecutionCost(c, p, n, "entry")
  BY DEF ExecutionCost, Same
<1>3. Fill(s, bar, sig, c, raw) = StepResult(t(s), <<e>>)
  BY DEF Fill
<1>4. Fill(m, bar, sig, d, raw) = StepResult(t(m), <<e>>)
  BY <1>1, <1>2 DEF Fill
<1> HIDE DEF e, price, qty, cost, path
<1>5. Alike(t(s), t(m))
  <2>1. s = [f \in Fields |-> s[f]] /\ m = [f \in Fields |-> m[f]] /\ \A f \in Fields \ {"last_bar_ts"} : m[f] = s[f]
    BY DEF Alike, IsState
  <2>2. IsState(t(s))
    BY <2>1 DEF IsState, Fields
  <2>3. IsState(t(m))
    BY <2>1 DEF IsState, Fields
  <2>4. ASSUME NEW f \in Fields, f # "last_bar_ts" PROVE t(m)[f] = t(s)[f]
    BY <2>1, <2>4 DEF Fields
  <2> QED
    BY <2>2, <2>3, <2>4 DEF Alike
<1> HIDE DEF t
<1> QED
  BY <1>3, <1>4, <1>5, ResultTwins

(***************************************************************************)
(* What a bar does to the zone and the trigger.                            *)
(***************************************************************************)
LEMMA ZoneTwins ==
  ASSUME NEW s, NEW m, Alike(s, m), NEW bar, NEW sig
  PROVE  /\ Twins(LoseZone(s, bar, sig), LoseZone(m, bar, sig))
         /\ Twins(ReclaimZone(s, bar, sig), ReclaimZone(m, bar, sig))
         /\ Twins(HitTrigger(s, bar, sig), HitTrigger(m, bar, sig))
<1> DEFINE loses(x) == [x EXCEPT !.zone_lost = TRUE, !.zone_ever_lost = TRUE]
           reclaims(x) == [x EXCEPT !.zone_lost = FALSE, !.entry_eligible_from = NextExpectedMinute(bar.ts)]
           hits(x) == [x EXCEPT !.trigger_hit_at = bar.ts]
<1>1. m.zone_lost = s.zone_lost /\ m.trigger_hit_at = s.trigger_hit_at
  BY DEF Alike, Fields
<1>2. Alike(loses(s), loses(m))
  BY DEF Alike, IsState, Fields
<1>3. Alike(reclaims(s), reclaims(m))
  BY DEF Alike, IsState, Fields
<1>4. Alike(hits(s), hits(m))
  BY DEF Alike, IsState, Fields
<1>5. Twins(LoseZone(s, bar, sig), LoseZone(m, bar, sig))
  <2> HIDE DEF loses
  <2> QED
    BY <1>1, <1>2, ResultTwins DEF LoseZone, Unchanged, loses
<1>6. Twins(ReclaimZone(s, bar, sig), ReclaimZone(m, bar, sig))
  BY <1>1, <1>3, ResultTwins DEF ReclaimZone, Unchanged
<1>7. Twins(HitTrigger(s, bar, sig), HitTrigger(m, bar, sig))
  BY <1>1, <1>4, ResultTwins DEF HitTrigger, Unchanged
<1> QED
  BY <1>5, <1>6, <1>7

(***************************************************************************)
(* The gates of a bar, and the cancellation on a lost zone.                *)
(***************************************************************************)
LEMMA GateTwins ==
  ASSUME NEW s, NEW m, Alike(s, m), NEW c, NEW d, Same(c, d), NEW bar, NEW sig
  PROVE  Twins(Gate(s, bar, sig, c), Gate(m, bar, sig, d))
<1> DEFINE lost(x) == LoseZone(x, bar, sig)
           reclaimed(x) == ReclaimZone(lost(x).state, bar, sig)
           gate(x, k) ==
             IF lost(x).events # <<>> /\ k.config.policy = "CANCEL"
             THEN After(lost(x).events, Invalidate(lost(x).state, bar))
             ELSE After(lost(x).events \o reclaimed(x).events, HitTrigger(reclaimed(x).state, bar, sig))
<1>1. Gate(s, bar, sig, c) = gate(s, c) /\ Gate(m, bar, sig, d) = gate(m, d)
  BY DEF Gate
<1>2. Alike(lost(s).state, lost(m).state) /\ lost(m).events = lost(s).events
  BY ZoneTwins DEF Twins
<1> HIDE DEF lost
<1>3. Alike(reclaimed(s).state, reclaimed(m).state) /\ reclaimed(m).events = reclaimed(s).events
  BY <1>2, ZoneTwins DEF Twins
<1> HIDE DEF reclaimed
<1>4. Twins(HitTrigger(reclaimed(s).state, bar, sig), HitTrigger(reclaimed(m).state, bar, sig))
  BY <1>3, ZoneTwins
<1>5. Twins(Invalidate(lost(s).state, bar), Invalidate(lost(m).state, bar))
  BY <1>2, InvalidateTwins
<1>6. d.config = c.config
  BY DEF Same
<1> DEFINE cancels == lost(s).events # <<>> /\ c.config.policy = "CANCEL"
<1>7. CASE cancels
  <2>1. gate(s, c) = After(lost(s).events, Invalidate(lost(s).state, bar))
    BY <1>7
  <2>2. gate(m, d) = After(lost(s).events, Invalidate(lost(m).state, bar))
    BY <1>2, <1>6, <1>7
  <2> QED
    BY <1>1, <1>5, <2>1, <2>2, AfterTwins
<1>8. CASE ~cancels
  <2> DEFINE evs == lost(s).events \o reclaimed(s).events
  <2>1. gate(s, c) = After(evs, HitTrigger(reclaimed(s).state, bar, sig))
    BY <1>8
  <2>2. gate(m, d) = After(evs, HitTrigger(reclaimed(m).state, bar, sig))
    BY <1>2, <1>3, <1>6, <1>8
  <2> HIDE DEF evs, gate
  <2> QED
    BY <1>1, <1>4, <2>1, <2>2, AfterTwins
<1> QED
  BY <1>7, <1>8

(***************************************************************************)
(* The entry phase: invalidated, filled or gated alike.                    *)
(***************************************************************************)
LEMMA EntryTwins ==
  ASSUME NEW s, NEW m, Alike(s, m), NEW c, NEW d, Same(c, d), NEW bar, NEW sig
  PROVE  Twins(EntryPhase(s, bar, sig, c), EntryPhase(m, bar, sig, d))
<1> DEFINE raw == EntryPrice(bar, sig)
           filled(x, k) == Fill(x, bar, sig, k, raw)
           entered(x, k) == After(filled(x, k).events, ExitPhase(filled(x, k).state, bar, sig, k, TRUE))
<1>1. Eligible(m, bar, sig) <=> Eligible(s, bar, sig)
  <2>1. /\ m.zone_lost = s.zone_lost /\ m.entry_eligible_from = s.entry_eligible_from
        /\ m.trigger_hit_at = s.trigger_hit_at
    BY DEF Alike, Fields
  <2> QED
    BY <2>1 DEF Eligible
<1>2. Alike(filled(s, c).state, filled(m, d).state) /\ filled(m, d).events = filled(s, c).events
  BY FillTwins DEF Twins
<1> HIDE DEF filled
<1>3. Twins(entered(s, c), entered(m, d))
  <2>1. Twins(ExitPhase(filled(s, c).state, bar, sig, c, TRUE), ExitPhase(filled(m, d).state, bar, sig, d, TRUE))
    BY <1>2, ExitTwins
  <2> QED
    BY <1>2, <2>1, AfterTwins
<1> DEFINE phase(x, k) ==
             IF bar.open <= sig.stop THEN Invalidate(x, bar)
             ELSE IF Eligible(x, bar, sig) /\ raw # None THEN entered(x, k)
             ELSE IF bar.low <= sig.stop THEN Invalidate(x, bar)
             ELSE Gate(x, bar, sig, k)
<1>4. EntryPhase(s, bar, sig, c) = phase(s, c) /\ EntryPhase(m, bar, sig, d) = phase(m, d)
  BY DEF EntryPhase, filled
<1> HIDE DEF entered, raw
<1>5. Twins(Invalidate(s, bar), Invalidate(m, bar)) /\ Twins(Gate(s, bar, sig, c), Gate(m, bar, sig, d))
  BY InvalidateTwins, GateTwins
<1>6. Twins(phase(s, c), phase(m, d))
  BY <1>1, <1>3, <1>5
<1> QED
  BY <1>4, <1>6

(***************************************************************************)
(* A whole bar in LONG terms. The stamp of the bar makes equal states of   *)
(* twins, and the end of the window is the same for both.                  *)
(***************************************************************************)
LEMMA LongStepTwins ==
  ASSUME NEW s, NEW m, Alike(s, m), NEW c, NEW d, Same(c, d), NEW bar, NEW sig
  PROVE  LongStep(m, bar, sig, d) = LongStep(s, bar, sig, c)
<1> DEFINE phase(x, k) == IF x.status = "PENDING" THEN EntryPhase(x, bar, sig, k)
                          ELSE ExitPhase(x, bar, sig, k, FALSE)
           done(x, k) == [phase(x, k) EXCEPT !.state.last_bar_ts = bar.ts]
<1>1. m.status = s.status
  BY DEF Alike, Fields
<1>2. Twins(phase(s, c), phase(m, d))
  BY <1>1, EntryTwins, ExitTwins
<1> HIDE DEF phase
<1>3. done(m, d) = done(s, c)
  <2> DEFINE r == phase(s, c)
             q == phase(m, d)
             t(x) == [x EXCEPT !.last_bar_ts = bar.ts]
  <2>1. /\ r \in [state : {r.state}, events : {r.events}]
        /\ q \in [state : {q.state}, events : {r.events}]
        /\ Alike(r.state, q.state)
    BY <1>2 DEF Twins, Result
  <2>2. t(q.state) = t(r.state)
    BY <2>1 DEF Alike, IsState, Fields
  <2> HIDE DEF t, r, q
  <2>3. /\ [r EXCEPT !.state = t(r.state)] = [state |-> t(r.state), events |-> r.events]
        /\ [q EXCEPT !.state = t(q.state)] = [state |-> t(q.state), events |-> r.events]
    BY <2>1
  <2> QED
    BY <2>2, <2>3 DEF t, r, q
<1> HIDE DEF done
<1>4. \A x : ValidityEnd(x, bar, d) = ValidityEnd(x, bar, c)
  BY DEF ValidityEnd, Close, ExecutionCost, Same
<1>5. IsLastBar(bar, d) <=> IsLastBar(bar, c)
  BY DEF IsLastBar, Same
<1>6. /\ LongStep(s, bar, sig, c) = IF IsFinal(done(s, c).state) \/ ~IsLastBar(bar, c) THEN done(s, c)
                                    ELSE After(done(s, c).events, ValidityEnd(done(s, c).state, bar, c))
      /\ LongStep(m, bar, sig, d) = IF IsFinal(done(m, d).state) \/ ~IsLastBar(bar, d) THEN done(m, d)
                                    ELSE After(done(m, d).events, ValidityEnd(done(m, d).state, bar, d))
  BY DEF LongStep, done, phase
<1> QED
  BY <1>3, <1>4, <1>5, <1>6

(***************************************************************************)
(* step: a bar that neither order ignores makes one result of two orders   *)
(* that differ in the last bar only, on either side of the market.         *)
(***************************************************************************)
LEMMA StepTwins ==
  ASSUME NEW s, NEW m, Alike(s, m), NEW c, NEW d, Same(c, d), NEW bar,
         ~Ignored(s, bar, c), ~Ignored(m, bar, d)
  PROVE  Step(m, bar, d) = Step(s, bar, c)
<1>1. Alike(MirrorState(s), MirrorState(m))
  BY DEF MirrorState, Alike, IsState, Fields
<1>2. d.signal = c.signal
  BY DEF Same
<1> QED
  BY <1>1, <1>2, LongStepTwins DEF Step

-----------------------------------------------------------------------------
(* What an order is before its entry, and after its end. *)

\* A pending order has passed gates, and nothing else.
Pristine(s, stop) ==
  /\ s.entry_path = None /\ s.avg_entry = None /\ s.initial_stop = stop /\ s.stop_current = stop
  /\ s.stop_previous = None /\ s.stop_active_from = None /\ s.t1_done = FALSE
  /\ s.qty_total = 0 /\ s.qty_open = 0 /\ s.realized_pnl = 0 /\ s.costs = 0 /\ s.dividends = 0
  /\ s.best_price = None /\ s.worst_price = None /\ s.opened_at = None /\ s.closed_at = None
  /\ s.final_event_ts = None /\ s.close_reason = None
  /\ s.frozen_reasons = {} /\ s.review_reasons = {}
  /\ s.entry_eligible_from \in Int \cup {None} /\ s.trigger_hit_at \in Int \cup {None}
  /\ s.zone_lost \in BOOLEAN /\ s.zone_ever_lost = (s.zone_lost \/ s.entry_eligible_from # None)

Waiting(s, stop) == IsState(s) /\ s.status = "PENDING" /\ Pristine(s, stop)
Held(s) ==
  /\ IsState(s) /\ s.status \in {"OPEN", "PARTIAL", "CLOSED"}
  /\ s.status = "CLOSED" => s.close_reason \in {"STOPPED", "TARGET_FINAL", "TIME_EXIT"}
Gone(s) == IsState(s) /\ s.status \in {"EXPIRED", "INVALIDATED"}

Sound(s, stop) == Waiting(s, stop) \/ Held(s) \/ Gone(s)

(***************************************************************************)
(* A closed order has one of three reasons.                                *)
(***************************************************************************)
LEMMA CloseHeld ==
  ASSUME NEW s, IsState(s), NEW c, NEW bar, NEW type, NEW price, NEW level,
         NEW reason \in {"STOPPED", "TARGET_FINAL", "TIME_EXIT"}
  PROVE  Held(Close(s, bar, c, type, price, level, reason).state)
<1> DEFINE pnl == (price - s.avg_entry) * s.qty_open
           cost == ExecutionCost(c, price, s.qty_open, "exit")
           t == [s EXCEPT !.status = "CLOSED", !.qty_open = 0, !.realized_pnl = @ + pnl,
                     !.costs = @ + cost, !.close_reason = reason, !.closed_at = bar.ts,
                     !.final_event_ts = bar.ts]
<1>1. Close(s, bar, c, type, price, level, reason).state = t
  BY DEF Close, StepResult
<1> HIDE DEF pnl, cost
<1>2. Held(t)
  BY DEF Held, IsState, Fields
<1> QED
  BY <1>1, <1>2

(***************************************************************************)
(* An order that sold a part is still held.                                *)
(***************************************************************************)
LEMMA ScaleOutHeld ==
  ASSUME NEW s, IsState(s), NEW c, NEW bar, NEW sig
  PROVE  Held(ScaleOut(s, bar, sig, c).state)
<1> DEFINE qty == (s.qty_total * c.config.scale_out_pct) \div 100
           pnl == (sig.target1 - s.avg_entry) * qty
           cost == ExecutionCost(c, sig.target1, qty, "exit")
           u == s.stop_current
           v == s.avg_entry
           t == [s EXCEPT !.status = "PARTIAL", !.t1_done = TRUE, !.qty_open = @ - qty,
                     !.realized_pnl = @ + pnl, !.costs = @ + cost,
                     !.stop_previous = u, !.stop_current = v,
                     !.stop_active_from = NextExpectedMinute(bar.ts)]
<1>1. ScaleOut(s, bar, sig, c).state = t
  BY DEF ScaleOut, StepResult
<1> HIDE DEF pnl, cost, qty, u, v
<1>2. Held(t)
  BY DEF Held, IsState, Fields
<1> QED
  BY <1>1, <1>2

(***************************************************************************)
(* The exit phase leaves an order held, or closes it.                      *)
(***************************************************************************)
LEMMA ExitHeld ==
  ASSUME NEW s, IsState(s), s.status \in {"OPEN", "PARTIAL"}, NEW c, NEW bar, NEW sig, NEW entryBar
  PROVE  Held(ExitPhase(s, bar, sig, c, entryBar).state)
<1> DEFINE stop == IF s.stop_active_from # None /\ bar.ts < s.stop_active_from
                   THEN s.stop_previous ELSE s.stop_current
           stopped == bar.low <= stop
           best == IF entryBar \/ stopped THEN s.best_price ELSE Greater(s.best_price, bar.high)
           worst == Lesser(s.worst_price, bar.low)
           seen == [s EXCEPT !.best_price = best, !.worst_price = worst]
           raw == Lesser(bar.open, stop)
           hit1 == ~s.t1_done /\ bar.high >= sig.target1
           scaled == IF hit1 THEN ScaleOut(seen, bar, sig, c) ELSE Unchanged(seen)
           closed(x, type, price, level, reason) == Close(x, bar, c, type, price, level, reason)
           phase ==
             IF stopped
             THEN closed(seen, "STOPPED", AdverseSell(raw, c.config.stop_slip), raw, "STOPPED")
             ELSE IF entryBar THEN Unchanged(seen)
             ELSE IF hit1 /\ sig.target2 = None
             THEN closed(seen, "TARGET1_HIT", sig.target1, None, "TARGET_FINAL")
             ELSE IF scaled.state.t1_done /\ sig.target2 # None /\ bar.high >= sig.target2
             THEN After(scaled.events, closed(scaled.state, "TARGET2_HIT", sig.target2, None, "TARGET_FINAL"))
             ELSE scaled
<1>1. ExitPhase(s, bar, sig, c, entryBar) = phase
  BY DEF ExitPhase
<1> HIDE DEF best, worst, raw, stopped, hit1
<1>2. IsState(seen) /\ Held(seen)
  BY DEF Held, IsState, Fields
<1> HIDE DEF seen
<1>3. Held(scaled.state)
  BY <1>2, ScaleOutHeld DEF Unchanged, StepResult
<1> HIDE DEF scaled
<1>4. \A x, type, price, level, reason :
        IsState(x) /\ reason \in {"STOPPED", "TARGET_FINAL"} =>
          /\ Held(closed(x, type, price, level, reason).state)
          /\ \A evs : After(evs, closed(x, type, price, level, reason)).state
                        = closed(x, type, price, level, reason).state
  <2>1. \A x, type, price, level, reason : IsState(x) /\ reason \in {"STOPPED", "TARGET_FINAL"} =>
          Held(closed(x, type, price, level, reason).state)
    BY CloseHeld
  <2>2. \A x, type, price, level, reason, evs :
          After(evs, closed(x, type, price, level, reason)).state = closed(x, type, price, level, reason).state
    BY DEF After, Close, StepResult
  <2> QED
    BY <2>1, <2>2
<1> HIDE DEF closed
<1>5. Unchanged(seen).state = seen /\ IsState(scaled.state)
  BY <1>3 DEF Unchanged, StepResult, Held
<1>6. Held(phase.state)
  BY <1>2, <1>3, <1>4, <1>5
<1> QED
  BY <1>1, <1>6

(***************************************************************************)
(* A filled order is open.                                                 *)
(***************************************************************************)
LEMMA FillHeld ==
  ASSUME NEW s, IsState(s), NEW c, NEW bar, NEW sig, NEW raw
  PROVE  IsState(Fill(s, bar, sig, c, raw).state) /\ Fill(s, bar, sig, c, raw).state.status = "OPEN"
<1> DEFINE price == AdverseBuy(raw, c.config.entry_slip)
           qty == c.config.risk_amount \div (price - sig.stop)
           cost == ExecutionCost(c, price, qty, "entry")
           path == IF s.zone_ever_lost THEN "RECLAIMED" ELSE "DIRECT"
           t == [s EXCEPT !.status = "OPEN", !.avg_entry = price, !.initial_stop = sig.stop,
                  !.stop_current = sig.stop, !.qty_total = qty, !.qty_open = qty,
                  !.costs = @ + cost, !.opened_at = bar.ts, !.best_price = price, !.entry_path = path]
<1>1. Fill(s, bar, sig, c, raw).state = t
  BY DEF Fill, StepResult
<1> HIDE DEF price, qty, cost, path
<1>2. IsState(t)
  BY DEF IsState, Fields
<1>3. t.status = "OPEN"
  BY DEF IsState, Fields
<1> QED
  BY <1>1, <1>2, <1>3

(***************************************************************************)
(* An invalidated order is gone.                                           *)
(***************************************************************************)
LEMMA InvalidateGone ==
  ASSUME NEW s, IsState(s), NEW bar
  PROVE  Gone(Invalidate(s, bar).state)
  BY DEF Invalidate, StepResult, Gone, IsState, Fields

(***************************************************************************)
(* The zone and the trigger are all that a pending order passes.           *)
(***************************************************************************)
LEMMA ZoneWaits ==
  ASSUME NEW s, NEW stop, Waiting(s, stop), NEW bar, bar.ts \in Int, NextExpectedMinute(bar.ts) \in Int, NEW sig
  PROVE  /\ Waiting(LoseZone(s, bar, sig).state, stop)
         /\ Waiting(ReclaimZone(s, bar, sig).state, stop)
         /\ Waiting(HitTrigger(s, bar, sig).state, stop)
<1> DEFINE loses == [s EXCEPT !.zone_lost = TRUE, !.zone_ever_lost = TRUE]
           reclaims == [s EXCEPT !.zone_lost = FALSE, !.entry_eligible_from = NextExpectedMinute(bar.ts)]
           hits == [s EXCEPT !.trigger_hit_at = bar.ts]
<1>1. Waiting(loses, stop)
  BY DEF Waiting, Pristine, IsState, Fields
<1>2. s.zone_lost = TRUE => Waiting(reclaims, stop)
  BY NoneAssumption DEF Waiting, Pristine, IsState, Fields
<1>3. Waiting(hits, stop)
  BY DEF Waiting, Pristine, IsState, Fields
<1>4. s.zone_lost \in BOOLEAN
  BY DEF Waiting, Pristine
<1>5. LoseZone(s, bar, sig).state \in {s, loses}
  BY DEF LoseZone, Unchanged, StepResult
<1>6. ReclaimZone(s, bar, sig).state = s \/ (s.zone_lost /\ ReclaimZone(s, bar, sig).state = reclaims)
  BY DEF ReclaimZone, Unchanged, StepResult
<1>7. HitTrigger(s, bar, sig).state \in {s, hits}
  BY DEF HitTrigger, Unchanged, StepResult
<1> HIDE DEF loses, reclaims, hits
<1> QED
  BY <1>1, <1>2, <1>3, <1>4, <1>5, <1>6, <1>7

(***************************************************************************)
(* An order is its own twin.                                               *)
(***************************************************************************)
LEMMA LikeItself ==
  ASSUME NEW s, IsState(s), NEW c
  PROVE  Alike(s, s) /\ Same(c, c)
  BY DEF Alike, Same

(***************************************************************************)
(* Earlier events do not change the state of a result.                     *)
(***************************************************************************)
LEMMA AfterState ==
  ASSUME NEW r, Result(r), NEW evs
  PROVE  After(evs, r).state = r.state
  BY DEF Result, After

(***************************************************************************)
(* The gates leave an order waiting, or cancel it.                         *)
(***************************************************************************)
LEMMA GateSound ==
  ASSUME NEW s, NEW stop, Waiting(s, stop), NEW bar, bar.ts \in Int, NextExpectedMinute(bar.ts) \in Int, NEW sig, NEW c
  PROVE  Sound(Gate(s, bar, sig, c).state, stop)
<1> DEFINE lost == LoseZone(s, bar, sig)
           reclaimed == ReclaimZone(lost.state, bar, sig)
           hit == HitTrigger(reclaimed.state, bar, sig)
           gone == Invalidate(lost.state, bar)
<1>1. Gate(s, bar, sig, c) = IF lost.events # <<>> /\ c.config.policy = "CANCEL"
                             THEN After(lost.events, gone)
                             ELSE After(lost.events \o reclaimed.events, hit)
  BY DEF Gate
<1>2. Waiting(lost.state, stop)
  BY ZoneWaits
<1> HIDE DEF lost
<1>3. Waiting(reclaimed.state, stop)
  BY <1>2, ZoneWaits
<1> HIDE DEF reclaimed
<1>4. Waiting(hit.state, stop) /\ Result(hit)
  <2>1. Alike(reclaimed.state, reclaimed.state)
    BY <1>3, LikeItself DEF Waiting
  <2> QED
    BY <1>3, <2>1, ZoneWaits, ZoneTwins DEF Twins
<1>5. Gone(gone.state) /\ Result(gone)
  <2>1. Alike(lost.state, lost.state)
    BY <1>2, LikeItself DEF Waiting
  <2> QED
    BY <1>2, <2>1, InvalidateGone, InvalidateTwins DEF Twins, Waiting
<1> HIDE DEF hit, gone
<1>6. /\ After(lost.events, gone).state = gone.state
      /\ After(lost.events \o reclaimed.events, hit).state = hit.state
  BY <1>4, <1>5, AfterState
<1> QED
  BY <1>1, <1>4, <1>5, <1>6 DEF Sound

(***************************************************************************)
(* The entry phase: waiting, held or gone.                                 *)
(***************************************************************************)
LEMMA EntrySound ==
  ASSUME NEW s, NEW stop, Waiting(s, stop), NEW bar, bar.ts \in Int, NextExpectedMinute(bar.ts) \in Int, NEW sig, NEW c
  PROVE  Sound(EntryPhase(s, bar, sig, c).state, stop)
<1> DEFINE raw == EntryPrice(bar, sig)
           filled == Fill(s, bar, sig, c, raw)
           exit == ExitPhase(filled.state, bar, sig, c, TRUE)
<1>1. EntryPhase(s, bar, sig, c) \in {Invalidate(s, bar), After(filled.events, exit), Gate(s, bar, sig, c)}
  BY DEF EntryPhase
<1>2. IsState(filled.state) /\ filled.state.status = "OPEN"
  BY FillHeld DEF Waiting
<1> HIDE DEF filled
<1>3. Held(exit.state) /\ Result(exit)
  <2>1. Alike(filled.state, filled.state) /\ Same(c, c)
    BY <1>2, LikeItself
  <2> QED
    BY <1>2, <2>1, ExitHeld, ExitTwins DEF Twins
<1> HIDE DEF exit
<1>4. After(filled.events, exit).state = exit.state
  BY <1>3, AfterState
<1>5. Gone(Invalidate(s, bar).state)
  BY InvalidateGone DEF Waiting
<1> QED
  BY <1>1, <1>3, <1>4, <1>5, GateSound DEF Sound

(***************************************************************************)
(* A whole bar in LONG terms, the end of the window included.              *)
(***************************************************************************)
LEMMA LongStepSound ==
  ASSUME NEW s, NEW stop, Sound(s, stop), ~IsFinal(s), NEW bar, bar.ts \in Int, NextExpectedMinute(bar.ts) \in Int,
         NEW sig, NEW c
  PROVE  Sound(LongStep(s, bar, sig, c).state, stop)
<1> DEFINE phase == IF s.status = "PENDING" THEN EntryPhase(s, bar, sig, c)
                    ELSE ExitPhase(s, bar, sig, c, FALSE)
           t(x) == [x EXCEPT !.last_bar_ts = bar.ts]
           done == [phase EXCEPT !.state.last_bar_ts = bar.ts]
           end == ValidityEnd(done.state, bar, c)
<1>1. s.status \in {"PENDING", "OPEN", "PARTIAL"} /\ IsState(s)
  BY DEF Sound, Waiting, Held, Gone, IsFinal, FinalStatuses
<1>2. Sound(phase.state, stop) /\ Result(phase)
  <2>1. Alike(s, s) /\ Same(c, c)
    BY <1>1, LikeItself
  <2>2. CASE s.status = "PENDING"
    <3>1. Waiting(s, stop)
      BY <2>2 DEF Sound, Held, Gone
    <3>2. Sound(EntryPhase(s, bar, sig, c).state, stop)
      BY <3>1, EntrySound
    <3>3. Result(EntryPhase(s, bar, sig, c))
      BY <2>1, EntryTwins DEF Twins
    <3> QED
      BY <2>2, <3>2, <3>3
  <2>3. CASE s.status # "PENDING"
    <3>1. Held(ExitPhase(s, bar, sig, c, FALSE).state)
      BY <1>1, <2>3, ExitHeld
    <3>2. Result(ExitPhase(s, bar, sig, c, FALSE))
      BY <2>1, ExitTwins DEF Twins
    <3> QED
      BY <2>3, <3>1, <3>2 DEF Sound
  <2> QED
    BY <2>2, <2>3
<1>3. LongStep(s, bar, sig, c) = IF IsFinal(done.state) \/ ~IsLastBar(bar, c) THEN done ELSE After(done.events, end)
  BY DEF LongStep
<1> HIDE DEF phase
<1>4. done.state = t(phase.state)
  BY <1>2 DEF Result
<1>5. Sound(t(phase.state), stop)
  <2> DEFINE x == phase.state
  <2>1. Sound(x, stop)
    BY <1>2
  <2> HIDE DEF x
  <2>2. Waiting(x, stop) => Waiting(t(x), stop)
    BY DEF Waiting, Pristine, IsState, Fields
  <2>3. Held(x) => Held(t(x))
    BY DEF Held, IsState, Fields
  <2>4. Gone(x) => Gone(t(x))
    BY DEF Gone, IsState, Fields
  <2> QED
    BY <2>1, <2>2, <2>3, <2>4 DEF Sound, x
<1>6. Sound(done.state, stop)
  BY <1>4, <1>5
<1> HIDE DEF done
<1>7. ASSUME ~IsFinal(done.state) PROVE Sound(end.state, stop) /\ Result(end)
  <2> DEFINE y == done.state
             expired == [y EXCEPT !.status = "EXPIRED", !.final_event_ts = c.until]
             closed == Close(y, bar, c, "TIME_EXIT", AdverseSell(bar.close, c.config.stop_slip),
                             bar.close, "TIME_EXIT")
  <2>1. IsState(y)
    BY <1>6 DEF Sound, Waiting, Held, Gone
  <2>2. end = (IF y.status = "PENDING" THEN StepResult(expired, <<Event("EXPIRED", None)>>) ELSE closed)
    BY DEF ValidityEnd
  <2> HIDE DEF y, end
  <2>3. Gone(expired)
    BY <2>1 DEF Gone, IsState, Fields
  <2> HIDE DEF expired
  <2>4. Held(closed.state) /\ Result(closed)
    <3>1. Alike(y, y) /\ Same(c, c)
      BY <2>1, LikeItself
    <3> QED
      BY <2>1, <3>1, CloseHeld, CloseTwins DEF Twins
  <2> HIDE DEF closed
  <2> QED
    BY <2>2, <2>3, <2>4 DEF Sound, Result, StepResult
<1> HIDE DEF end
<1> QED
  BY <1>3, <1>6, <1>7, AfterState

(***************************************************************************)
(* A mirrored order waits at the negated stop.                             *)
(***************************************************************************)
LEMMA MirrorSound ==
  ASSUME NEW s, NEW stop \in Int, Sound(s, stop)
  PROVE  Sound(MirrorState(s), -stop)
<1>1. None \notin Int
  BY NoneAssumption
<1>2. Waiting(s, stop) => Waiting(MirrorState(s), -stop)
  BY <1>1 DEF Waiting, Pristine, IsState, Fields, MirrorState, Neg
<1>3. Held(s) => Held(MirrorState(s))
  BY DEF Held, IsState, Fields, MirrorState
<1>4. Gone(s) => Gone(MirrorState(s))
  BY DEF Gone, IsState, Fields, MirrorState
<1> QED
  BY <1>2, <1>3, <1>4 DEF Sound

(***************************************************************************)
(* step keeps an order waiting, held or gone. A bar that counts is the     *)
(* last one afterwards, and one that is ignored changes nothing.           *)
(***************************************************************************)
LEMMA StepSound ==
  ASSUME NEW c, c.signal.stop \in Int, NEW s, Sound(s, c.signal.stop), NEW bar, bar.ts \in Int
  PROVE  /\ Sound(Step(s, bar, c).state, c.signal.stop)
         /\ ~Ignored(s, bar, c) => Step(s, bar, c).state.last_bar_ts = bar.ts
         /\ Ignored(s, bar, c) => Step(s, bar, c).state = s
<1> DEFINE stop == c.signal.stop
<1>1. CASE Ignored(s, bar, c)
  BY <1>1 DEF Step, Unchanged, StepResult
<1>2. CASE ~Ignored(s, bar, c)
  <2>1. ~IsFinal(s) /\ IsExpectedMinute(bar.ts)
    BY <1>2 DEF Ignored
  <2>2. NextExpectedMinute(bar.ts) \in Int
    BY <2>1, NextIsNext
  <2>5. Stateful(s) /\ bar.ts # None
    <3>1. IsState(s)
      BY DEF Sound, Waiting, Held, Gone
    <3>2. Stateful(s)
      BY <3>1 DEF IsState, Fields, Stateful, StateFields
    <3> QED
      BY <3>2, NoneAssumption
  <2>3. CASE c.signal.direction = "LONG"
    <3>1. Step(s, bar, c) = LongStep(s, bar, c.signal, c)
      BY <1>2, <2>3 DEF Step
    <3>2. Sound(LongStep(s, bar, c.signal, c).state, stop)
      BY <2>1, <2>2, LongStepSound
    <3>3. LongStep(s, bar, c.signal, c).state.last_bar_ts = bar.ts
      BY <2>1, <2>5, LongStepTook
    <3> QED
      BY <1>2, <3>1, <3>2, <3>3
  <2>4. CASE c.signal.direction # "LONG"
    <3> DEFINE x == MirrorState(s)
               mbar == MirrorBar(bar)
               sig == MirrorSignal(c.signal)
               r == LongStep(x, mbar, sig, c)
    <3>1. Step(s, bar, c).state = MirrorState(r.state)
      BY <1>2, <2>4 DEF Step, MirrorResult, StepResult
    <3>2. Sound(x, -stop) /\ -stop \in Int /\ -(-stop) = stop
      BY MirrorSound
    <3>3. mbar.ts = bar.ts
      BY DEF MirrorBar
    <3>4. Stateful(x) /\ ~IsFinal(x)
      <4>1. Stateful(x) /\ x.status = s.status
        BY <2>5, MirrorStateful
      <4> QED
        BY <2>1, <4>1 DEF IsFinal
    <3> HIDE DEF x, mbar, sig
    <3>5. Sound(r.state, -stop)
      BY <2>2, <3>2, <3>3, <3>4, LongStepSound
    <3>6. r.state.last_bar_ts = bar.ts
      BY <2>5, <3>3, <3>4, LongStepTook
    <3> HIDE DEF r, stop
    <3>7. Sound(MirrorState(r.state), -(-stop))
      BY <3>2, <3>5, MirrorSound
    <3>8. MirrorState(r.state).last_bar_ts = bar.ts
      <4>1. IsState(r.state)
        BY <3>5 DEF Sound, Waiting, Held, Gone
      <4> QED
        BY <3>6, <4>1 DEF MirrorState, IsState, Fields
    <3> QED
      BY <1>2, <3>1, <3>2, <3>7, <3>8 DEF stop
  <2> QED
    BY <2>3, <2>4
<1> QED
  BY <1>1, <1>2

(***************************************************************************)
(* A new order waits.                                                      *)
(***************************************************************************)
LEMMA FreshSound ==
  ASSUME NEW c
  PROVE  /\ Waiting(NewOrderState(c, None).state, c.signal.stop)
         /\ NewOrderState(c, None).state.last_bar_ts = None
  BY DEF NewOrderState, StepResult, Waiting, Pristine, IsState, Fields

(***************************************************************************)
(* So does one that inherits gates: what it inherits is all that it        *)
(* differs in.                                                             *)
(***************************************************************************)
LEMMA GatedSound ==
  ASSUME NEW c, NEW g, g # None, g.zone_lost \in BOOLEAN, g.entry_eligible_from \in Int \cup {None},
         g.trigger_hit_at \in Int \cup {None}
  PROVE  /\ Waiting(NewOrderState(c, g).state, c.signal.stop)
         /\ NewOrderState(c, g).state.last_bar_ts = None
<1> DEFINE fresh == NewOrderState(c, None).state
           u == g.zone_lost
           v == u \/ g.entry_eligible_from # None
           w == g.entry_eligible_from
           x == g.trigger_hit_at
           t == [fresh EXCEPT !.zone_lost = u, !.zone_ever_lost = v, !.entry_eligible_from = w,
                              !.trigger_hit_at = x]
<1>1. NewOrderState(c, g).state = t
  BY DEF NewOrderState, StepResult
<1>2. Waiting(fresh, c.signal.stop) /\ fresh.last_bar_ts = None
  BY FreshSound
<1>3. u \in BOOLEAN /\ w \in Int \cup {None} /\ x \in Int \cup {None} /\ v = (u \/ w # None)
  OBVIOUS
<1> HIDE DEF fresh, u, v, w, x
<1>4. IsState(t) /\ t.last_bar_ts = None
  BY <1>2 DEF Waiting, IsState, Fields
<1>5. /\ t.zone_lost = u /\ t.zone_ever_lost = v /\ t.entry_eligible_from = w /\ t.trigger_hit_at = x
      /\ \A f \in Fields \ {"zone_lost", "zone_ever_lost", "entry_eligible_from", "trigger_hit_at"} :
           t[f] = fresh[f]
  BY <1>2 DEF Waiting, IsState, Fields
<1> HIDE DEF t
<1>6. t.status = "PENDING" /\ Pristine(t, c.signal.stop)
  BY <1>2, <1>3, <1>5 DEF Waiting, Pristine, Fields
<1> QED
  BY <1>1, <1>4, <1>6 DEF Waiting

-----------------------------------------------------------------------------
(* One bar more. *)

(***************************************************************************)
(* run_bars over no bars.                                                  *)
(***************************************************************************)
LEMMA RunNothing ==
  ASSUME NEW s, NEW c
  PROVE  RunBars(s, <<>>, c) = Unchanged(s)
<1> DEFINE p == [state |-> s, bars |-> <<>>, ctx |-> c]
           S == DOMAIN <<>>
<1>0. S = {}
  OBVIOUS
<1>1. Running!IsFiniteSet(S) /\ Running!Picks(p, S)
  <2>1. IsFiniteSet({})
    BY FS_EmptySet
  <2> QED
    BY <1>0, <2>1 DEF IsFiniteSet, Running!IsFiniteSet, Running!Picks
<1>2. RunBars(s, <<>>, c) = Running!Fold(p, Unchanged(s), S)
  BY DEF RunBars, FoldLeft, Running!Fold, MapThenFoldSet, Running!MapThenFoldSet, StepOn, BarAt,
         Greatest, p, S
<1> HIDE DEF S, p
<1>3. Running!Fold(p, Unchanged(s), S) = Unchanged(s)
  BY <1>0, <1>1, Running!FoldStep
<1> QED
  BY <1>2, <1>3

(***************************************************************************)
(* run_bars over one bar more is a step after the run of the others: the   *)
(* fold of the longer sequence without its greatest index is the fold of   *)
(* the shorter one.                                                        *)
(***************************************************************************)
LEMMA RunAppend ==
  ASSUME NEW s, NEW R, NEW bars \in Seq(R), NEW bar \in R, NEW c
  PROVE  RunBars(s, Append(bars, bar), c)
           = After(RunBars(s, bars, c).events, Step(RunBars(s, bars, c).state, bar, c))
<1> DEFINE more == Append(bars, bar)
           p == [state |-> s, bars |-> bars, ctx |-> c]
           q == [state |-> s, bars |-> more, ctx |-> c]
           n == Len(more)
           S == DOMAIN bars
           T == DOMAIN more
<1>1. /\ more \in Seq(R) /\ n \in Nat /\ T = 1..n /\ n \in T /\ S = T \ {n} /\ more[n] = bar
      /\ \A i \in S : more[i] = bars[i]
  <2> DEFINE m == Len(bars)
  <2>1. m \in Nat /\ n = m + 1 /\ more \in Seq(R) /\ S = 1..m /\ T = 1..n /\ more[n] = bar
        /\ \A i \in 1..m : more[i] = bars[i]
    OBVIOUS
  <2> HIDE DEF m, n
  <2>2. n \in 1..n /\ 1..m = (1..n) \ {n}
    BY <2>1
  <2> QED
    BY <2>1, <2>2
<1>2. Running!IsFiniteSet(S) /\ Running!IsFiniteSet(T)
  <2>1. IsFiniteSet(S) /\ IsFiniteSet(T)
    BY <1>1, Indices
  <2> QED
    BY <2>1 DEF IsFiniteSet, Running!IsFiniteSet
<1>3. \A t \in SUBSET T : t # {} => Max(t) \in t
  BY <1>1, Indices
<1>4. Max(T) = n
  BY <1>1, <1>3 DEF Max
<1>5. RunBars(s, bars, c) = Running!Fold(p, Unchanged(s), S)
  BY DEF RunBars, FoldLeft, Running!Fold, MapThenFoldSet, Running!MapThenFoldSet, StepOn, BarAt,
         Greatest, p, S
<1>6. RunBars(s, more, c) = Running!Fold(q, Unchanged(s), T)
  BY DEF RunBars, FoldLeft, Running!Fold, MapThenFoldSet, Running!MapThenFoldSet, StepOn, BarAt,
         Greatest, q, T
<1>7. \A i \in S : \A acc : StepOn(p, BarAt(p, i), acc) = StepOn(q, BarAt(q, i), acc)
  BY <1>1 DEF StepOn, BarAt
<1>8. \A acc : StepOn(q, BarAt(q, n), acc) = After(acc.events, Step(acc.state, bar, c))
  BY <1>1 DEF StepOn, BarAt
<1> HIDE DEF S, T, p, q, n, more
<1>9. Running!Picks(q, T) /\ Running!Picks(p, S)
  BY <1>1, <1>3 DEF Running!Picks, Greatest
<1>10. Running!Fold(p, Unchanged(s), S) = Running!Fold(q, Unchanged(s), S)
  <2>1. \A t \in SUBSET S : t # {} =>
          /\ Greatest(p, t) = Greatest(q, t)
          /\ \A acc : StepOn(p, BarAt(p, Greatest(p, t)), acc) = StepOn(q, BarAt(q, Greatest(p, t)), acc)
    BY <1>1, <1>3, <1>7 DEF Greatest
  <2> QED
    BY <1>2, <1>9, <2>1, Running!FoldSame
<1>11. Running!Fold(q, Unchanged(s), T) = StepOn(q, BarAt(q, n), Running!Fold(q, Unchanged(s), S))
  <2>1. T # {} /\ Greatest(q, T) = n
    BY <1>1, <1>4 DEF Greatest
  <2>2. T # {} => Running!Fold(q, Unchanged(s), T)
                    = StepOn(q, BarAt(q, Greatest(q, T)), Running!Fold(q, Unchanged(s), T \ {Greatest(q, T)}))
    BY <1>2, <1>9, Running!FoldStep
  <2>3. T \ {Greatest(q, T)} = S
    BY <1>1, <2>1
  <2> QED
    BY <2>1, <2>2, <2>3
<1> QED
  BY <1>5, <1>6, <1>8, <1>10, <1>11 DEF more

(***************************************************************************)
(* The state of that run.                                                  *)
(***************************************************************************)
LEMMA RunOne ==
  ASSUME NEW s, NEW R, NEW bars \in Seq(R), NEW bar \in R, "ts" \in DOMAIN bar, NEW c
  PROVE  RunBars(s, Append(bars, bar), c).state = Step(RunBars(s, bars, c).state, bar, c).state
<1> DEFINE r == RunBars(s, bars, c)
           q == Step(r.state, bar, c)
<1>1. Proper(q)
  BY StepOfBar DEF OfBar
<1>2. Proper(q) => After(r.events, q).state = q.state
  BY DEF After, Proper
<1> QED
  BY <1>1, <1>2, RunAppend

=============================================================================
