------------------------------ MODULE Calendar ------------------------------
(***************************************************************************)
(* The expected-minute calendar of core/domain/calendar.py: which minutes  *)
(* of the regular session a bar is expected for, and the queries the fill  *)
(* model and the evaluator ask of it.                                      *)
(*                                                                         *)
(* Time is a natural number of ticks and a minute is Minute ticks, so that *)
(* an instant inside a minute exists when Minute > 1.  A calendar is a     *)
(* sequence of sessions [open, close), ordered, not overlapping and        *)
(* bounded by whole minutes (Session and SessionCalendar reject others).   *)
(* CalendarRangeError is the value RangeError, "no session" is NoSession.  *)
(*                                                                         *)
(* The module has no variables: a specification that compares two          *)
(* calendars instantiates it twice.                                        *)
(***************************************************************************)
EXTENDS Ticks, Sequences, FiniteSets

CONSTANT Sessions     \* the loaded sessions, a sequence of [open, close] records

RangeError == -1
NoSession == 0

IsCalendar(s) ==
  /\ s # <<>>
  /\ \A i \in DOMAIN s : /\ IsWholeMinute(s[i].open) /\ IsWholeMinute(s[i].close)
                         /\ s[i].open < s[i].close
  /\ \A i \in 1..(Len(s) - 1) : s[i].close <= s[i + 1].open

\* bisect_right(closes, ts), bisect_left(closes, ts) and bisect_left(opens, ts)
ClosedBy(ts) == Cardinality({i \in DOMAIN Sessions : Sessions[i].close <= ts})
OpenedBefore(ts) == Cardinality({i \in DOMAIN Sessions : Sessions[i].open < ts})

BeforeCalendar(ts) == ts < Sessions[1].open
LastClose == Sessions[Len(Sessions)].close

\* The index of the session that contains ts.
SessionContaining(ts) ==
  LET i == ClosedBy(ts) + 1 IN
  IF BeforeCalendar(ts) THEN RangeError
  ELSE IF i > Len(Sessions) THEN RangeError
  ELSE IF Sessions[i].open <= ts THEN i ELSE NoSession

\* is_expected_minute raises for whole minutes the calendar does not cover.
CoversMinute(ts) ==
  IsWholeMinute(ts) => /\ ts <= LastClose
                       /\ ts # LastClose => ~BeforeCalendar(ts)

IsExpectedMinute(ts) == IsWholeMinute(ts) /\ SessionContaining(ts) \in DOMAIN Sessions

FirstExpectedMinuteAtOrAfter(ts) ==
  LET minute == IF IsWholeMinute(ts) THEN ts ELSE Floor(ts) + Minute
      i == ClosedBy(minute) + 1
  IN  IF BeforeCalendar(ts) \/ i > Len(Sessions) THEN RangeError
      ELSE IF Sessions[i].open > minute THEN Sessions[i].open ELSE minute

NextExpectedMinute(ts) == FirstExpectedMinuteAtOrAfter(Floor(ts) + Minute)

LastExpectedMinuteBefore(ts) ==
  LET i == OpenedBefore(ts)
      candidate == IF ts < Sessions[i].close THEN ts ELSE Sessions[i].close
  IN  IF i = 0 THEN RangeError
      ELSE IF IsWholeMinute(candidate) THEN candidate - Minute ELSE Floor(candidate)

IsSessionClose(ts) == \E i \in DOMAIN Sessions : Sessions[i].close = ts

\* nth_session_close: session n counted from the session with index first.
NthSessionClose(first, n) ==
  IF first + n - 1 > Len(Sessions) THEN RangeError ELSE Sessions[first + n - 1].close

\* Mutant: the minute in progress at the decision.
EvaluationStartInside(createdAt) == FirstExpectedMinuteAtOrAfter(Floor(createdAt))

EvaluationStart(createdAt) == FirstExpectedMinuteAtOrAfter(createdAt)

SignalValidUntil(start, validSessions) ==
  NthSessionClose(SessionContaining(start), validSessions)

\* Mutant: the window ends with the session that contains its last minute.
CalendarWindowShort(start, until) ==
  LET last == Cardinality({i \in DOMAIN Sessions : Sessions[i].open <= until}) + 1
  IN  IF last > Len(Sessions) THEN <<>>
      ELSE SubSeq(Sessions, SessionContaining(start), last - 1)

\* calendar_window_hash: the sessions from the one that contains start to the
\* first one that opens after until; <<>> when that session is not loaded.
CalendarWindow(start, until) ==
  LET last == Cardinality({i \in DOMAIN Sessions : Sessions[i].open <= until}) + 1
  IN  IF last > Len(Sessions) THEN <<>>
      ELSE SubSeq(Sessions, SessionContaining(start), last)

=============================================================================
