--------------------------- MODULE SessionQuality ---------------------------
(***************************************************************************)
(* What the evening leaves of every order's session: DATA_QUALITY, written *)
(* once for the session that just closed (D4); or, when it could not be    *)
(* measured (D12), a pending item that a recheck of a later evening        *)
(* consumes with one row of data_quality_rechecks (D22, D52).  The job of  *)
(* the worker runs at 16:30, and again at 18:30 unless the first run       *)
(* settled the session; a worker that lost its lock can overlap with the   *)
(* one that replaced it.                                                   *)
(*                                                                         *)
(* Each order has a feed of its own, and sessions are numbered.  The cycle *)
(* the job starts with, which EvaluationCycle details, is what it leaves   *)
(* here: the feeds that failed and the bars that are stored.  A job is     *)
(* over by the next evening.                                               *)
(***************************************************************************)
EXTENDS Integers, Sequences, FiniteSets, FiniteSetsExt, SequencesExt

CONSTANTS
  Orders, Workers,
  QualityBounds, \* the bounds of a behaviour: the last [day], how many transactions
                 \* have [errors], jobs that die in [crashes], and its [workers]
  RecentRuns,    \* RECENT_END_OF_DAY_RUNS
  FinalAfter     \* RECHECK_FINAL_AFTER_SESSIONS

LimitsAssumption == RecentRuns \in Nat \ {0} /\ FinalAfter \in Nat \ {0}

(* The query of the pending items looks back far enough: RecentRuns exceeds the
   runs of two slots a day, by each of the workers, before a recheck is final,
   the runs that are then in flight, and one for each transaction that fails
   and each job that dies. *)
LookbackAssumption ==
  \A b \in QualityBounds :
    /\ IsFiniteSet(b.workers) /\ b.workers \subseteq Workers
    /\ b.errors \in Nat /\ b.crashes \in Nat
    /\ (2 * FinalAfter - 1) * Cardinality(b.workers) + b.errors + b.crashes < RecentRuns

VARIABLES
  qualityBound,
  slot,        \* the runs of the schedule so far: 16:30 and 18:30 of each day
  finals,      \* the session of each order's final event, 0 before one
  observed,    \* <<order, day>> with a stored bar
  quality,     \* <<order, day>> with a DATA_QUALITY event
  rechecks,    \* data_quality_rechecks: [order, day, run, status]
  unverified,  \* <<order, day>> flagged DATA_QUALITY_UNVERIFIED
  runs,        \* the completed END_OF_DAY runs, newest first
  jobs,        \* the END_OF_DAY job of each worker
  qualitySpent \* [errors, crashes] so far

qualityVars == <<qualityBound, slot, finals, observed, quality, rechecks, unverified, runs, jobs, qualitySpent>>
accounts == <<finals, quality, rechecks, unverified>>

Day == slot \div 2 + 1

NotRunning ==
  [pc |-> "idle", slot |-> -1, day |-> 0, todo |-> {}, failed |-> {}, known |-> {},
   missed |-> {}, errors |-> {}, recorded |-> {}]

QualityInit ==
  /\ qualityBound \in QualityBounds
  /\ slot = 0
  /\ finals = [o \in Orders |-> 0]
  /\ observed = {} /\ quality = {} /\ rechecks = {} /\ unverified = {}
  /\ runs = <<>>
  /\ jobs = [w \in Workers |-> NotRunning]
  /\ qualitySpent = [errors |-> 0, crashes |-> 0]

-----------------------------------------------------------------------------
(* The schedule, and the orders that end meanwhile. *)

NextSlot ==
  /\ slot < 2 * qualityBound.day - 1
  /\ slot % 2 = 1 => \A w \in Workers : jobs[w].pc = "idle"
  /\ slot' = slot + 1
  /\ UNCHANGED <<qualityBound, accounts, observed, runs, jobs, qualitySpent>>

\* On a stored bar, not before the sessions it was already evaluated in.
OrderEnds(o, d) ==
  /\ finals[o] = 0 /\ <<o, d>> \in observed
  /\ \A e \in d + 1..Day : <<o, e>> \notin quality
  /\ finals' = [finals EXCEPT ![o] = d]
  /\ UNCHANGED <<qualityBound, slot, observed, quality, rechecks, unverified, runs, jobs, qualitySpent>>

-----------------------------------------------------------------------------
(* end_of_day *)

EndsBefore(o, d) == finals[o] # 0 /\ finals[o] < d

EndOfDaySettled(day) == \E i \in DOMAIN runs : runs[i].day = day /\ runs[i].missed = {}

Set(w, job) == jobs' = [jobs EXCEPT ![w] = job]
Stop(w) == Set(w, [NotRunning EXCEPT !.slot = jobs[w].slot])

(* The cycle, expire_due_orders and the start of run_session_quality: what is
   known, and the orders whose session it is. *)
StartEndOfDay(w) ==
  /\ w \in qualityBound.workers /\ jobs[w].pc = "idle" /\ jobs[w].slot < slot
  /\ ~EndOfDaySettled(Day)
  /\ \E failed, answered \in SUBSET Orders :
       LET stored == observed \union (answered \X {Day}) IN
       /\ observed' = stored
       /\ Set(w, [NotRunning EXCEPT !.pc = "quality", !.slot = slot, !.day = Day,
                    !.todo = {<<o, Day>> : o \in {p \in Orders : ~EndsBefore(p, Day)}},
                    !.failed = failed \X {Day}, !.known = stored])
  /\ UNCHANGED <<qualityBound, slot, accounts, runs, qualitySpent>>

\* _quality_command, one transaction.
Measure(w, o) ==
  LET job == jobs[w]  item == <<o, job.day>>  rest == [job EXCEPT !.todo = @ \ {item}] IN
  /\ job.pc = "quality" /\ item \in job.todo
  /\ IF item \in quality \/ EndsBefore(o, job.day)
       THEN Set(w, rest) /\ UNCHANGED quality
       ELSE IF item \in job.failed \/ item \notin job.known
         THEN Set(w, [rest EXCEPT !.missed = @ \union {o}]) /\ UNCHANGED quality
         ELSE Set(w, rest) /\ quality' = quality \union {item}
  /\ UNCHANGED <<qualityBound, slot, finals, rechecks, unverified, observed, runs, qualitySpent>>

\* isolated: the transaction of one order fails, the run goes on.
MeasureFails(w, o) ==
  LET job == jobs[w]  item == <<o, job.day>> IN
  /\ job.pc = "quality" /\ item \in job.todo /\ qualitySpent.errors < qualityBound.errors
  /\ Set(w, [job EXCEPT !.todo = @ \ {item}, !.errors = @ \union {o}])
  /\ qualitySpent' = [qualitySpent EXCEPT !.errors = @ + 1]
  /\ UNCHANGED <<qualityBound, slot, accounts, observed, runs>>

FinishQuality(w) ==
  LET job == jobs[w] IN
  /\ job.pc = "quality" /\ job.todo = {}
  /\ runs' = <<[day |-> job.day, missed |-> job.missed, errors |-> job.errors]>> \o runs
  /\ Set(w, [job EXCEPT !.pc = "measured"])
  /\ UNCHANGED <<qualityBound, slot, accounts, observed, qualitySpent>>

-----------------------------------------------------------------------------
(* run_quality_recheck *)

Rechecked(o, d) == \E r \in rechecks : r.order = o /\ r.day = d

\* pending_quality_sessions
Pending ==
  LET recent == SubSeq(runs, 1, IF Len(runs) < RecentRuns THEN Len(runs) ELSE RecentRuns) IN
  {item \in UNION {recent[i].missed \X {recent[i].day} : i \in DOMAIN recent} :
     item \notin quality /\ ~Rechecked(item[1], item[2])}

\* Mutant: final one session later.
FinalLater(job, d) == job.day - d > FinalAfter

Final(job, d) == job.day - d >= FinalAfter

\* The session that just closed still belongs to END_OF_DAY; the feeds of the others are asked again.
StartRecheck(w) ==
  LET older == {item \in Pending : item[2] < jobs[w].day} IN
  /\ jobs[w].pc = "measured"
  /\ IF older = {}
       THEN Stop(w) /\ UNCHANGED observed
       ELSE \E failed \in SUBSET older : \E answered \in SUBSET (older \ failed) :
              /\ observed' = observed \union answered
              /\ Set(w, [jobs[w] EXCEPT !.pc = "recheck", !.errors = {}, !.todo = older, !.failed = failed,
                           !.known = observed \union answered])
  /\ UNCHANGED <<qualityBound, slot, accounts, runs, qualitySpent>>

Row(job, item, status) == [order |-> item[1], day |-> item[2], run |-> job.slot, status |-> status]

\* What one transaction writes for an item, if anything: its row's status.
Verdict(job, item) ==
  IF EndsBefore(item[1], item[2]) THEN {"NOT_MEASURABLE"}
  ELSE IF item \in job.failed
    THEN IF Final(job, item[2]) THEN {"PROVIDER_FAILURE_FINAL"} ELSE {}
  ELSE IF item \notin job.known
    THEN IF Final(job, item[2]) THEN {"NO_OBSERVATIONS_FINAL"} ELSE {}
  ELSE {"EVALUATED"}

\* Mutant: the pending items are taken for rechecked by no one else since.
VerdictUnchecked(job, item) == Verdict(job, item)

\* Under the order's lock: a row or an event that another run wrote since is respected.
VerdictNow(job, item) ==
  IF Rechecked(item[1], item[2]) \/ item \in quality THEN {} ELSE Verdict(job, item)

Recheck(w, item) ==
  LET job == jobs[w]  verdict == VerdictNow(job, item)
      rows == {Row(job, item, status) : status \in verdict} IN
  /\ job.pc = "recheck" /\ item \in job.todo
  /\ rechecks' = rechecks \union {[row EXCEPT !.run = <<w, @>>] : row \in rows}
  /\ unverified' = IF "PROVIDER_FAILURE_FINAL" \in verdict THEN unverified \union {item} ELSE unverified
  /\ Set(w, [job EXCEPT !.todo = @ \ {item},
                        !.recorded = IF verdict = {} THEN @ ELSE @ \union {item}])
  /\ UNCHANGED <<qualityBound, slot, finals, quality, observed, runs, qualitySpent>>

\* The row rolls back, and with it what the run remembers of it.
RecheckFails(w, item) ==
  LET job == jobs[w]
      recorded == IF VerdictNow(job, item) = {} THEN job.recorded ELSE job.recorded \union {item} IN
  /\ job.pc = "recheck" /\ item \in job.todo /\ qualitySpent.errors < qualityBound.errors
  /\ Set(w, [job EXCEPT !.todo = @ \ {item}, !.errors = @ \union {item[1]},
                        !.recorded = recorded \ {item}])
  /\ qualitySpent' = [qualitySpent EXCEPT !.errors = @ + 1]
  /\ UNCHANGED <<qualityBound, slot, accounts, observed, runs>>

FinishRecheck(w) ==
  /\ jobs[w].pc = "recheck" /\ jobs[w].todo = {}
  /\ Stop(w)
  /\ UNCHANGED <<qualityBound, slot, accounts, observed, runs, qualitySpent>>

\* The worker dies, or something outside the orders' transactions fails: the run never completes.
Dies(w) ==
  /\ jobs[w].pc # "idle" /\ qualitySpent.crashes < qualityBound.crashes
  /\ qualitySpent' = [qualitySpent EXCEPT !.crashes = @ + 1]
  /\ Stop(w)
  /\ UNCHANGED <<qualityBound, slot, accounts, observed, runs>>

Job(w) ==
  \/ StartEndOfDay(w) \/ FinishQuality(w) \/ StartRecheck(w) \/ FinishRecheck(w)
  \/ \E o \in Orders : Measure(w, o)
  \/ \E item \in jobs[w].todo : Recheck(w, item)

QualityNext ==
  \/ NextSlot
  \/ \E o \in Orders, d \in 1..Day : OrderEnds(o, d)
  \/ \E w \in Workers :
       \/ Job(w) \/ Dies(w)
       \/ \E o \in Orders : MeasureFails(w, o)
       \/ \E item \in jobs[w].todo : RecheckFails(w, item)

QualitySpec == QualityInit /\ [][QualityNext]_qualityVars

-----------------------------------------------------------------------------

(***************************************************************************)
(* A session of an order has one account (D4, D22): at most one recheck    *)
(* row, however two runs overlap, and none beside a DATA_QUALITY; and what *)
(* a recheck run remembers of the rows it wrote (the evening summary and   *)
(* the run's detail) is what it committed, transactions that rolled back   *)
(* left out.                                                               *)
(***************************************************************************)
OneAccountPerSession ==
  /\ \A r, s \in rechecks : r.order = s.order /\ r.day = s.day => r = s
  /\ \A r \in rechecks : <<r.order, r.day>> \notin quality
  /\ \A w \in Workers :
       jobs[w].pc = "recheck" =>
         jobs[w].recorded = {<<r.order, r.day>> : r \in {s \in rechecks : s.run = <<w, jobs[w].slot>>}}

(***************************************************************************)
(* Nothing is dropped (D52): once an END_OF_DAY completed, the session of  *)
(* an order that had not ended before it is measured, rechecked, still     *)
(* listed as pending, or among the order errors of the newest run of its   *)
(* day; a transaction that fails or a worker that dies along the way does  *)
(* not take it out of the recent runs before the recheck is final.         *)
(***************************************************************************)
NothingDropped ==
  \A i \in DOMAIN runs, o \in Orders :
    LET d == runs[i].day  newest == Min({j \in DOMAIN runs : runs[j].day = d}) IN
    ~EndsBefore(o, d) =>
      \/ <<o, d>> \in quality \/ Rechecked(o, d) \/ <<o, d>> \in Pending
      \/ o \in runs[newest].errors

(***************************************************************************)
(* Nothing lingers (D52): a recheck run that comes to its end, whatever    *)
(* the providers answered it, leaves no session pending that closed        *)
(* FinalAfter sessions before its own, but for orders whose own            *)
(* transaction failed in it.                                               *)
(***************************************************************************)
SettlesOlderSessions ==
  \A w \in Workers :
    jobs[w].pc \in {"measured", "recheck"} /\ jobs'[w].pc = "idle" /\ qualitySpent'.crashes = qualitySpent.crashes =>
      \A item \in Pending :
        jobs[w].day - item[2] >= FinalAfter => item[1] \in jobs[w].errors

NothingLingers == [][SettlesOlderSessions]_qualityVars
=============================================================================
