--------------------------- MODULE CalendarReload ---------------------------
(***************************************************************************)
(* An order is created under one loaded calendar and evaluated, days       *)
(* later, under another: calendar_for_window loads sessions around a       *)
(* window that depends on the call, and a package update may change them.  *)
(* The ledger stores calendar_window_hash at creation and                  *)
(* load_order_context refuses a calendar whose window differs.             *)
(*                                                                         *)
(* Calendar A is the one at creation, B one that passes that check.  The   *)
(* only action walks the expected minutes of the order as                  *)
(* SessionCalendar.expected_minutes does.                                  *)
(***************************************************************************)
EXTENDS Ticks, Sequences

CONSTANTS
  Calendars,    \* the calendars that can be loaded
  Instants,     \* the instants at which a signal can be created
  MaxSessions   \* bound on valid_sessions

VARIABLES
  sessionsA,  \* the calendar loaded when the order was created
  sessionsB,  \* the calendar loaded when it is evaluated
  created,    \* created_at of the signal
  start,      \* evaluation_start_ts
  until,      \* valid_until_ts
  minute      \* the expected minute the walk has reached

reloadVars == <<sessionsA, sessionsB, created, start, until, minute>>

A == INSTANCE Calendar WITH Sessions <- sessionsA
B == INSTANCE Calendar WITH Sessions <- sessionsB

ASSUME MinuteAssumption == Minute \in Nat \ {0}
ASSUME CalendarsAssumption ==
  \A s \in Calendars : s \in Seq([open : Nat, close : Nat]) /\ A!IsCalendar(s)
ASSUME InstantsAssumption == Instants \subseteq Nat /\ MaxSessions \in Nat

\* OrderContext.__post_init__, then the identity check of load_order_context.
ReloadInit ==
  /\ sessionsA \in Calendars /\ sessionsB \in Calendars /\ created \in Instants
  /\ start = A!EvaluationStart(created)
  /\ start # A!RangeError
  /\ \E n \in 1..MaxSessions : until = A!SignalValidUntil(start, n)
  /\ until # A!RangeError
  /\ A!NextExpectedMinute(A!LastExpectedMinuteBefore(until)) # A!RangeError
  /\ B!CoversMinute(start) /\ B!IsExpectedMinute(start) /\ B!IsSessionClose(until)
  /\ A!CalendarWindow(start, until) # <<>>
  /\ A!CalendarWindow(start, until) = B!CalendarWindow(start, until)
  /\ minute = start

\* One iteration of the loop of expected_minutes(start, until).
AdvanceMinute ==
  /\ A!NextExpectedMinute(minute) < until
  /\ minute' = A!NextExpectedMinute(minute)
  /\ UNCHANGED <<sessionsA, sessionsB, created, start, until>>

ReloadNext == AdvanceMinute

ReloadSpec == ReloadInit /\ [][ReloadNext]_reloadVars

-----------------------------------------------------------------------------

\* The reference: a minute is expected when it lies in some session.
MinuteIn(s, t) == /\ t % Minute = 0
                  /\ \E i \in DOMAIN s : s[i].open <= t /\ t < s[i].close

(***************************************************************************)
(* The window is exact.  The first candle starts at or after the decision  *)
(* and no whole candle between the two is given away (design 3.4); and     *)
(* last_expected_minute_before(valid_until), by which step() recognises    *)
(* the order's last bar, is the last minute the walk reaches, and the walk *)
(* skips no expected minute: the order neither ends early nor waits for a  *)
(* bar that never comes.                                                   *)
(***************************************************************************)
WindowIsExact ==
  /\ MinuteIn(sessionsA, start) /\ created <= start
  /\ \A t \in created..(start - 1) : ~MinuteIn(sessionsA, t)
  /\ minute <= A!LastExpectedMinuteBefore(until)
  /\ \A t \in (minute + 1)..(A!NextExpectedMinute(minute) - 1) : ~MinuteIn(sessionsA, t)
  /\ A!NextExpectedMinute(minute) >= until => minute = A!LastExpectedMinuteBefore(until)

(***************************************************************************)
(* The hash identifies everything the evaluation depends on: under a       *)
(* different calendar that passes the check, every calendar query the fill *)
(* model and the evaluator make inside the window has the same answer.     *)
(***************************************************************************)
WindowFixesEveryAnswer ==
  /\ B!CoversMinute(minute)
  /\ B!IsExpectedMinute(minute) = A!IsExpectedMinute(minute)
  /\ B!NextExpectedMinute(minute) = A!NextExpectedMinute(minute)
  /\ B!LastExpectedMinuteBefore(until) = A!LastExpectedMinuteBefore(until)

=============================================================================
