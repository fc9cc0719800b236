---------------------------- MODULE ResearchScan ----------------------------
(***************************************************************************)
(* The RESEARCH_SCAN job over one ticker and timeframe whose bucket is a   *)
(* whole session (Timeframe.D1): stored bars in, detections, candidates    *)
(* and supersessions out.  Bars come late and are corrected; a bucket that *)
(* was read is read again while it lies in the last sessions, and what is  *)
(* stored for it is reconciled with what is detected now.                  *)
(*                                                                         *)
(* Session k is open at instant 2k-1 and has closed by instant 2k; the     *)
(* settle time of a bucket is over when the next session opens.  What a    *)
(* row's hashes identify is kept in the row itself: evidence, the input    *)
(* of the identity span, and the series behind the features.               *)
(***************************************************************************)
EXTENDS Optional, Naturals, FiniteSets, Sequences, FiniteSetsExt

CONSTANTS
  Sessions,     \* how many sessions there are
  Lookback,     \* lookback_sessions
  Revisit,      \* revisit_sessions
  Span,         \* identity_span: the buckets a reading is derived from
  Shapes,       \* what a bucket can look like
  Patterns,     \* the patterns each shape ends
  Bounds        \* bounds: [start (the first instant), arrivals, scans, clicks]

\* The assumption on the constants, for the module that instantiates this one.
ScanAssumption ==
  /\ Sessions \in Nat /\ Lookback \in Nat /\ Revisit \in Nat /\ Span \in Nat \ {0}
  /\ \A b \in Bounds : b.start \in Nat /\ b.scans \in Nat

VARIABLES
  bound,
  now,
  bars,           \* per session None or [shape, complete]: the latest version
  arrivals,       \* how many versions were stored
  asOf,           \* the last watermark taken
  scan,           \* the scan under way
  detections,     \* pattern_detections
  gone,           \* research_supersessions
  candidates      \* setup_candidates

data == <<bars, arrivals>>
facts == <<detections, gone, candidates>>
scanVars == <<bound, now, bars, arrivals, asOf, scan, detections, gone, candidates>>

Buckets == 1..Sessions
NotScanning == [phase |-> "IDLE"]

InitScan ==
  /\ bound \in Bounds
  /\ now = bound.start /\ asOf = 0 /\ arrivals = 0
  /\ bars = [b \in Buckets |-> None]
  /\ scan = NotScanning
  /\ detections = {} /\ gone = {} /\ candidates = {}

-----------------------------------------------------------------------------
(* The windows of a scan. *)

Started(instant) == (instant + 1) \div 2
Greater(a, b) == IF a >= b THEN a ELSE b

\* _window: the first of the most recent sessions that have opened.
WindowStart(instant) == Greater(1, Started(instant) - Lookback + 1)

\* _revisit_floor; past every session when the revisit is disabled.
RevisitFloor(instant) ==
  IF Revisit = 0 THEN Sessions + 1
  ELSE Greater(WindowStart(instant), Started(instant) - Revisit + 1)

\* resample: the buckets that have elapsed and hold a bar.
ClosedCandles(s) ==
  {b \in WindowStart(s.now)..Sessions : 2 * b <= s.now /\ s.bars[b] # None}

\* The candles of the window up to a bucket, the last `count` of them.
Upto(s, bucket, count) ==
  LET before == {c \in ClosedCandles(s) : c <= bucket}
      kept == {c \in before : Cardinality({d \in before : d > c}) < count}
  IN  [c \in kept |-> s.bars[c]]

SettledBy(s, bucket) == s.bars[bucket].complete \/ 2 * bucket + 1 <= s.now

\* last_detection_end_ts
Resume == IF detections = {} THEN 0 ELSE Max({d.bucket : d \in detections})

AlreadyRead(bucket) == bucket <= Resume
Skipped(s, bucket) == AlreadyRead(bucket) /\ bucket < RevisitFloor(s.now)

\* The buckets the loop reads: it stops at the first one that is not settled.
Visited(s) ==
  {b \in ClosedCandles(s) : /\ ~Skipped(s, b)
                      /\ \A c \in ClosedCandles(s) : c <= b => Skipped(s, c) \/ SettledBy(s, c)}

-----------------------------------------------------------------------------
(* What a scan detects and stores. *)

\* The readings of a bucket: its own candle and the trend before it.
Found(s, bucket) ==
  {[bucket |-> bucket, pattern |-> p, evidence |-> Upto(s, bucket, Span)] :
     p \in Patterns[s.bars[bucket].shape]}

\* Mutant: the input identifies the candle of the bucket alone.
InputOfCandle(s, bucket) == Upto(s, bucket, 1)

\* candles_input_hash
InputOf(s, bucket) == Upto(s, bucket, Span)

ReadingOf(d) == [bucket |-> d.bucket, pattern |-> d.pattern, evidence |-> d.evidence]
Readings(rows) == {ReadingOf(d) : d \in rows}

\* record_detection: the unique key is the reading.
Recorded(s, rows, buckets) ==
  rows \cup {[bucket |-> r.bucket, pattern |-> r.pattern, evidence |-> r.evidence,
              input |-> InputOf(s, r.bucket), at |-> s.at] :
               r \in (UNION {Found(s, b) : b \in buckets}) \ Readings(rows)}

\* build_candidate and record_candidate: indicators and structure are those of
\* the series of the window.
CandidateKey(c) == [reading |-> c.reading, series |-> c.series]
Proposed(s, rows, buckets) ==
  rows \cup {[reading |-> k.reading, series |-> k.series, at |-> s.at, stored |-> s.stored] :
               k \in {[reading |-> r, series |-> Upto(s, r.bucket, Sessions)] :
                        r \in UNION {Found(s, b) : b \in buckets}}
                     \ {CandidateKey(c) : c \in rows}}

\* active_detections
Retired(superseded) == {g.fact : g \in superseded}
Active(rows, superseded, bucket) ==
  {d \in rows : d.bucket = bucket /\ ReadingOf(d) \notin Retired(superseded)}

\* Mutant: supersessions are cut at the instant, readings are not.
ActiveAsOfAll(rows, superseded, bucket, instant) ==
  Active(rows, {g \in superseded : g.at <= instant}, bucket)

\* active_detections with as_of: the whole view moves into data-time.
ActiveAsOf(rows, superseded, bucket, instant) ==
  Active({d \in rows : d.at <= instant}, {g \in superseded : g.at <= instant}, bucket)

\* reconcile: the same pattern with other evidence replaces a reading.
Replacements(found, row) == {r \in found : r.pattern = row.pattern}

\* _apply_reconciliation over the rows that are active once the new ones are
\* stored: a reading nothing replaces is retracted, one replaced by a reading
\* that is itself retired is only counted.
Superseded(s, rows, superseded, bucket) ==
  LET found == Found(s, bucket)
      stored == Active(rows, superseded, bucket)
      unchanged == stored # {} /\ \A d \in stored : d.input = InputOf(s, bucket)
      stale == {d \in stored : ReadingOf(d) \notin found}
      row(d, by) == [fact |-> ReadingOf(d), by |-> by, input |-> InputOf(s, bucket), at |-> s.at]
  IN  IF unchanged THEN {}
      ELSE {row(d, None) : d \in {e \in stale : Replacements(found, e) = {}}}
           \cup UNION {{row(d, r) : r \in Replacements(found, d) \cap Readings(stored)} : d \in stale}

-----------------------------------------------------------------------------

\* A minute, a session or the settle time goes by.
Tick ==
  /\ now < 2 * Sessions
  /\ now' = now + 1
  /\ UNCHANGED <<bound, data, asOf, scan, facts>>

\* A batch of a bucket that has closed: first bars, late bars or a correction.
Arrive(bucket, shape, complete) ==
  /\ 2 * bucket <= now
  /\ arrivals < bound.arrivals
  /\ bars[bucket] # [shape |-> shape, complete |-> complete]
  /\ bars' = [bars EXCEPT ![bucket] = [shape |-> shape, complete |-> complete]]
  /\ arrivals' = arrivals + 1
  /\ UNCHANGED <<bound, now, asOf, scan, facts>>

\* One watermark per run: every read of the run answers as of it.
StartScan ==
  /\ scan.phase = "IDLE"
  /\ asOf < bound.scans
  /\ asOf' = asOf + 1
  /\ scan' = [phase |-> "SCANNING", at |-> asOf', now |-> now, bars |-> bars,
              stored |-> arrivals, visited |-> {}]
  /\ UNCHANGED <<bound, now, data, facts>>

\* _scan_one, one transaction.
ScanOne ==
  /\ scan.phase = "SCANNING"
  /\ LET visited == Visited(scan)
         rows == Recorded(scan, detections, visited)
         again == {b \in visited : AlreadyRead(b)}
     IN  /\ detections' = rows
         /\ candidates' = Proposed(scan, candidates, visited)
         /\ gone' = gone \cup UNION {Superseded(scan, rows, gone, b) : b \in again}
         /\ scan' = [scan EXCEPT !.phase = "SCANNED", !.visited = visited]
  /\ UNCHANGED <<bound, now, data, asOf>>

\* The transaction fails (one symbol never aborts the scan), or the process
\* dies before it commits.
ScanFails ==
  /\ scan.phase = "SCANNING"
  /\ scan' = NotScanning
  /\ UNCHANGED <<bound, now, data, asOf, facts>>

FinishScan ==
  /\ scan.phase = "SCANNED"
  /\ scan' = NotScanning
  /\ UNCHANGED <<bound, now, data, asOf, facts>>

ScanNext ==
  \/ Tick
  \/ \E b \in Buckets, shape \in Shapes, complete \in BOOLEAN : Arrive(b, shape, complete)
  \/ StartScan \/ ScanOne \/ ScanFails \/ FinishScan

-----------------------------------------------------------------------------

(***************************************************************************)
(* A correction reaches the readings: once a scan has visited a bucket,    *)
(* the active view of the bucket holds what its data support.  A reading   *)
(* the data support again after it was retired does not come back, and     *)
(* what had replaced it stays: that is the only difference.                *)
(***************************************************************************)
ActiveFollowsData ==
  scan.phase = "SCANNED" =>
    \A b \in scan.visited :
      LET found == Found(scan, b)
          active == Readings(Active(detections, gone, b))
          lost == found \cap Retired(gone)
      IN  /\ found \ lost \subseteq active
          /\ \A r \in active \ found : \E l \in lost : l.pattern = r.pattern

(***************************************************************************)
(* History is not rewritten: what the active view answers as of the        *)
(* watermark of an earlier scan never changes again.                       *)
(***************************************************************************)
AnswersStay ==
  \A instant \in 0..bound.scans, b \in Buckets :
    instant < asOf =>
      Readings(ActiveAsOf(detections, gone, b, instant))'
        = Readings(ActiveAsOf(detections, gone, b, instant))

AsOfIsStable == [][AnswersStay]_scanVars

(***************************************************************************)
(* Reading an unchanged candle again writes nothing: over the same stored  *)
(* bars a reading is observed once (service.py, DEFAULT_REVISIT_SESSIONS). *)
(***************************************************************************)
RereadingWritesNothing ==
  \A c, d \in candidates : c.reading = d.reading /\ c.stored = d.stored => c = d

=============================================================================
