---------------------------- MODULE HealthReport ----------------------------
(***************************************************************************)
(* What /health makes of the facts it reads from the database: causes with *)
(* a severity, and the state the worst of them gives.  A run is the record *)
(* of a job [status, at, day, ...] with the detail of its latest status; a *)
(* run that is RUNNING, or died, has none.                                 *)
(***************************************************************************)
EXTENDS Optional, Integers, Sequences, SequencesExt, FiniteSetsExt

CONSTANTS
  FailureThreshold, \* CONSECUTIVE_FAILURE_THRESHOLD
  StaleAfter,       \* eval_interval_minutes * STALE_CYCLE_MULTIPLIER
  RunLookback       \* MISSING_RUN_LOOKBACK and the calendar's padding

ThresholdAssumption == FailureThreshold \in Nat \ {0} /\ StaleAfter \in Nat /\ RunLookback \in Nat

\* Live runs, newest first.
Completed(runs) ==
  FoldLeft(LAMBDA kept, r : IF r.status = "COMPLETED" THEN Append(kept, r) ELSE kept, <<>>, runs)

\* For how many completed runs, up to the newest one, a feed has failed.
Streak(feed, runs) ==
  Max({k \in 0..Len(runs) : \A i \in 1..k : feed \in runs[i].failing})

NewestFailing(runs) == IF runs = <<>> THEN {} ELSE Head(runs).failing

OrderErrors(f) ==
  (IF Completed(f.live) = <<>> THEN {} ELSE Head(Completed(f.live)).errors)
    \union (IF f.eod = None THEN {} ELSE f.eod.errors)
    \union (IF f.opening = None THEN {} ELSE f.opening.errors)

Stale(f) ==
  /\ f.open # None
  /\ f.now - (IF f.live = <<>> \/ Head(f.live).at < f.open THEN f.open ELSE Head(f.live).at) > StaleAfter

\* Mutant: a run that failed is a run.
MissingAnyRun(sessions, runs, now) ==
  {<<kind, s.day>> : kind \in {"OPENING", "END_OF_DAY"}, s \in {t \in sessions :
     /\ \E r \in runs : r.day < t.day
     /\ t.closeBy <= now
     /\ ~\E r \in runs : r.day = t.day}}

(* missing_job_runs: the sessions [day, open, close, openBy, closeBy] after the
   first one any job has recorded, within the lookback, whose job has had its
   chance and has no COMPLETED run.  "runs" are [kind, day, status]. *)
Missing(sessions, runs, now) ==
  LET anchor == IF runs = {} THEN None ELSE Min({r.day : r \in runs})
      checked == IF anchor = None THEN {}
                 ELSE {s \in sessions : s.day > anchor /\ s.close >= now - RunLookback}
      lacks(kind, s) == ~\E r \in runs : r.kind = kind /\ r.day = s.day /\ r.status = "COMPLETED"
  IN {<<"OPENING", s.day>> : s \in {t \in checked : t.openBy <= now /\ lacks("OPENING", t)}}
       \union {<<"END_OF_DAY", s.day>> : s \in {t \in checked : t.closeBy <= now /\ lacks("END_OF_DAY", t)}}

States == {"HEALTHY", "DEGRADED", "UNHEALTHY"}

\* What a signature can name: the causes, and what keeps the facts from being read.
Codes ==
  {"LAST_CYCLE_FAILED", "UNKNOWN_DATA_SOURCE", "INGEST_FAILURES_CONSECUTIVE", "LIVE_CYCLE_STALE",
   "INTEGRITY_INCIDENTS", "PROJECTION_MISSING_ORDERS", "INFRASTRUCTURE_ERRORS", "ORDER_ERRORS",
   "FROZEN_ORDERS", "QUALITY_NOT_EVALUATED", "OPENING_MISSING", "END_OF_DAY_MISSING",
   "OPENING_SOURCE_FAILURES", "HEALTH_QUERY_TIMEOUT", "down", "off_head"}

(* evaluate_health. *)
DegradedCodes(f) ==
  LET completed == Completed(f.live)
      rule(code, holds) == IF holds THEN {code} ELSE {}
  IN UNION {
       rule("LAST_CYCLE_FAILED", f.live # <<>> /\ Head(f.live).status = "FAILED"),
       rule("UNKNOWN_DATA_SOURCE", completed # <<>> /\ Head(completed).unknown # {}),
       rule("INGEST_FAILURES_CONSECUTIVE",
            \E feed \in NewestFailing(completed) : Streak(feed, completed) >= FailureThreshold),
       rule("LIVE_CYCLE_STALE", Stale(f)),
       rule("INTEGRITY_INCIDENTS", "incident" \in f.ledger),
       rule("PROJECTION_MISSING_ORDERS", "unprojected" \in f.ledger),
       rule("INFRASTRUCTURE_ERRORS", "INFRASTRUCTURE" \in OrderErrors(f)),
       rule("ORDER_ERRORS", "PROGRAMMING" \in OrderErrors(f)),
       rule("FROZEN_ORDERS", {"frozen", "unprojected"} \intersect f.ledger # {}),
       rule("QUALITY_NOT_EVALUATED", "pending" \in f.ledger),
       rule("OPENING_MISSING", \E miss \in f.missing : miss[1] = "OPENING"),
       rule("END_OF_DAY_MISSING", \E miss \in f.missing : miss[1] = "END_OF_DAY"),
       rule("OPENING_SOURCE_FAILURES",
            f.opening # None /\ (f.opening.status = "FAILED" \/ f.opening.failing # {}))}

(* build_health_report: what the database lets be read decides first.  The INFO
   causes are left out: neither the state nor the signature has them. *)
Signature(database, f) ==
  CASE database \in {"down", "off_head"} -> [state |-> "UNHEALTHY", codes |-> {database}]
    [] database = "slow" -> [state |-> "DEGRADED", codes |-> {"HEALTH_QUERY_TIMEOUT"}]
    [] database = "up" ->
         [state |-> IF DegradedCodes(f) = {} THEN "HEALTHY" ELSE "DEGRADED", codes |-> DegradedCodes(f)]
=============================================================================
