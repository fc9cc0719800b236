---------------------------- MODULE HealthWatch -----------------------------
(***************************************************************************)
(* The jobs of a few days, what /health says of them, and the watcher that *)
(* tells the owner when that changes.  The watcher knows the previous      *)
(* signature twice: in health_state_log, which it cannot reach when the    *)
(* database is down, and in its memory, which a restart empties.           *)
(*                                                                         *)
(* A day is the slots before the open (0), of the session (1 to 3), after  *)
(* the close (4) and past the deadline of the end of day (5).              *)
(***************************************************************************)
EXTENDS HealthReport

CONSTANTS
  WatchedFeeds,
  Troubles,       \* what the ledger can show: a subset of the ledger's facts
  Databases,      \* the conditions the database can be in
  WatchBounds     \* the bounds of a behaviour: [days], and how many
                  \* [jobs, observations, outages, restarts, troubles] it has

ConditionAssumption ==
  /\ "up" \in Databases /\ Databases \subseteq {"up", "slow", "down", "off_head"}
  /\ Troubles \subseteq {"incident", "frozen", "unprojected", "pending"}
  /\ None \notin [state : States, codes : SUBSET Codes]

\* The behaviour ends within the lookback of missing_job_runs.
HorizonAssumption == \A bound \in WatchBounds : bound.days \in Nat /\ 6 * bound.days <= RunLookback

VARIABLES
  watchBound,          \* this behaviour's bounds
  now,
  live, eod, opening,  \* the LIVE runs, newest first; the newest of the other two kinds
  jobRuns,             \* every OPENING and END_OF_DAY run [kind, day, status]
  ledger,              \* what the ledger shows now
  database,
  memory,              \* HealthWatcher._memory
  logged,              \* the newest row of health_state_log
  told,                \* the state the owner was last told
  unheard,             \* why the owner may not know: {"call", "restart", "blind"}
  watchSpent           \* [jobs, observations, outages, restarts, troubles] so far

watchVars == <<watchBound, now, live, eod, opening, jobRuns, ledger, database, memory, logged, told, unheard, watchSpent>>
facts == <<watchBound, live, eod, opening, jobRuns, ledger>>
watcher == <<memory, logged, told, unheard>>

Slot == now % 6
Today == now \div 6 + 1
InSession == Slot \in 1..3
WatchedSessions ==
  {[day |-> d, open |-> 6 * d - 5, close |-> 6 * d - 2, openBy |-> 6 * d - 4, closeBy |-> 6 * d - 1] :
     d \in 1..watchBound.days}

Facts ==
  [now |-> now, open |-> IF InSession THEN 6 * Today - 5 ELSE None,
   live |-> live, eod |-> eod, opening |-> opening, ledger |-> ledger,
   missing |-> Missing(WatchedSessions, jobRuns, now)]

AlertStates == {"DEGRADED", "UNHEALTHY"}

-----------------------------------------------------------------------------
WatchInit ==
  /\ watchBound \in WatchBounds
  /\ now = 0
  /\ live = <<>> /\ eod = None /\ opening = None /\ jobRuns = {}
  /\ ledger = {} /\ database = "up"
  /\ memory = None /\ logged = None /\ told = "HEALTHY" /\ unheard = {}
  /\ watchSpent = [jobs |-> 0, observations |-> 0, outages |-> 0, restarts |-> 0, troubles |-> 0]

NextHour ==
  /\ now < 6 * watchBound.days - 1
  /\ now' = now + 1
  /\ UNCHANGED <<facts, database, watcher, watchSpent>>

\* At most one live cycle in a slot; a cycle can also fail, or die and stay RUNNING.
LiveCycle ==
  /\ InSession /\ watchSpent.jobs < watchBound.jobs /\ database # "down" /\ (live # <<>> => Head(live).at < now)
  /\ \E status \in {"COMPLETED", "FAILED", "RUNNING"}, failing \in SUBSET WatchedFeeds :
       /\ status # "COMPLETED" => failing = {}
       /\ live' = SubSeq(<<[status |-> status, at |-> now, failing |-> failing, unknown |-> {},
                            errors |-> {}]>> \o live, 1, IF Len(live) < 3 THEN Len(live) + 1 ELSE 3)
  /\ watchSpent' = [watchSpent EXCEPT !.jobs = @ + 1]
  /\ UNCHANGED <<watchBound, now, eod, opening, jobRuns, ledger, database, watcher>>

Opening ==
  /\ Slot = 0 /\ watchSpent.jobs < watchBound.jobs /\ database # "down"
  /\ \E status \in {"COMPLETED", "FAILED"} :
       /\ jobRuns' = jobRuns \union {[kind |-> "OPENING", day |-> Today, status |-> status]}
       /\ opening' = [status |-> status, failing |-> {}, errors |-> {}]
  /\ watchSpent' = [watchSpent EXCEPT !.jobs = @ + 1]
  /\ UNCHANGED <<watchBound, now, live, eod, ledger, database, watcher>>

\* Its session's records are the ones of SessionQuality; here it ends well, with errors or not at all.
EndOfDay ==
  /\ Slot = 4 /\ watchSpent.jobs < watchBound.jobs /\ database # "down"
  /\ \E status \in {"COMPLETED", "FAILED"}, errors \in {{}, {"PROGRAMMING"}} :
       /\ status = "FAILED" => errors = {}
       /\ jobRuns' = jobRuns \union {[kind |-> "END_OF_DAY", day |-> Today, status |-> status]}
       /\ eod' = [status |-> status, errors |-> errors]
  /\ watchSpent' = [watchSpent EXCEPT !.jobs = @ + 1]
  /\ UNCHANGED <<watchBound, now, live, opening, ledger, database, watcher>>

LedgerChange(t) ==
  /\ watchSpent.troubles < watchBound.troubles /\ database # "down"
  /\ ledger' = IF t \in ledger THEN ledger \ {t} ELSE ledger \union {t}
  /\ watchSpent' = [watchSpent EXCEPT !.troubles = @ + 1]
  /\ UNCHANGED <<watchBound, now, live, eod, opening, jobRuns, database, watcher>>

\* The bound is on the outages; the database can always come back.
DatabaseChange ==
  /\ \/ database # "up" /\ database' = "up" /\ UNCHANGED watchSpent
     \/ /\ database = "up" /\ database' \in Databases \ {"up"} /\ watchSpent.outages < watchBound.outages
        /\ watchSpent' = [watchSpent EXCEPT !.outages = @ + 1]
  /\ UNCHANGED <<now, facts, watcher>>

-----------------------------------------------------------------------------
(* observe: the report is built first; the log is read and written, with the
   outbox, in one transaction that finds the database as it is by then. *)

Recovering(previous, current) ==
  current.state = "HEALTHY" /\ previous # None /\ previous.state \in AlertStates

ShouldAlert(previous, current) ==
  \/ Recovering(previous, current)
  \/ /\ current.state \in AlertStates
     /\ \/ previous = None
        \/ previous.state # current.state
        \/ current.codes \ previous.codes # {}

\* Mutant: the log says what the previous state was, the memory only if it is empty.
PreviousLogged == IF logged # None THEN logged ELSE memory

\* A signature seen only in memory is the previous one.
Previous == IF memory # None /\ memory # logged THEN memory ELSE logged

Tell(current) == told' = current.state

ObserveLogged(current) ==
  /\ memory' = current /\ logged' = current
  /\ UNCHANGED unheard
  /\ IF Previous # current /\ ShouldAlert(Previous, current) THEN Tell(current) ELSE UNCHANGED told

(* The database is down: the webhook is called at once, and the call can fail.
   Without a previous signature, HEALTHY is no recovery: "blind". *)
ObserveInMemory(current) ==
  /\ memory' = current
  /\ UNCHANGED logged
  /\ IF memory # current /\ ShouldAlert(memory, current)
       THEN \/ Tell(current) /\ UNCHANGED unheard
            \/ UNCHANGED told /\ unheard' = unheard \union {"call"}
       ELSE /\ UNCHANGED told
            /\ unheard' = unheard \union (IF memory = None THEN {"blind"} ELSE {})

(* The database can fail, or be back, between the report and the transaction;
   with a schema off the head the log may be there or not. *)
Observe ==
  /\ watchSpent.observations < watchBound.observations
  /\ watchSpent' = [watchSpent EXCEPT !.observations = @ + 1]
  /\ UNCHANGED <<now, facts, database>>
  /\ \E report \in {Signature(database, Facts), Signature("down", Facts)} :
       /\ \/ database # "down" /\ ObserveLogged(report)
          \/ database # "up" /\ ObserveInMemory(report)
          \/ watchSpent.outages < watchBound.outages /\ ObserveInMemory(report)
       /\ report.codes = {"down"} => database = "down" \/ watchSpent.outages < watchBound.outages

(* The worker restarts: the log is all it remembers.  Unless the log has what
   the owner was told, a recovery seen from now on is not one. *)
Restart ==
  /\ watchSpent.restarts < watchBound.restarts
  /\ watchSpent' = [watchSpent EXCEPT !.restarts = @ + 1]
  /\ memory' = None
  /\ unheard' = unheard \union (IF memory # None /\ memory # logged THEN {"restart"} ELSE {})
  /\ UNCHANGED <<now, facts, database, logged, told>>

WatchNext ==
  \/ NextHour \/ LiveCycle \/ Opening \/ EndOfDay
  \/ \E t \in Troubles : LedgerChange(t)
  \/ DatabaseChange \/ Observe \/ Restart

WatchSpec == WatchInit /\ [][WatchNext]_watchVars

-----------------------------------------------------------------------------
(* HealthWatcher (D25, D32): unless a call of the webhook failed, a restart
   forgot what the log does not have, or the first observation after a restart
   could not read the log, the owner was last told the state that was last
   observed: through outages of the database that the log knows nothing of, and
   outages between a report and its row. *)
OwnerKnows ==
  unheard = {} /\ memory # None => told = memory.state

(* What observe's comment says of the recovery from an outage, without the last
   exception: it is logged and alerted like any other transition. *)
RecoveryIsTold ==
  unheard \subseteq {"blind"} /\ memory # None => told = memory.state

(* evaluate_health: the degrading codes are raised by what the jobs did.  A
   session past its deadline without a completed end of day, after the first
   recorded one, and a feed that failed in each of the newest completed runs,
   degrade the report; runs that completed with other feeds, or failed, between
   them do not hide it. *)
NothingMissedSilently ==
  LET codes == DegradedCodes(Facts)
      completed == Completed(live)
  IN /\ \A s \in WatchedSessions :
          /\ s.closeBy <= now
          /\ \E r \in jobRuns : r.day < s.day
          /\ ~\E r \in jobRuns : r.kind = "END_OF_DAY" /\ r.day = s.day /\ r.status = "COMPLETED"
          => "END_OF_DAY_MISSING" \in codes
     /\ ("INGEST_FAILURES_CONSECUTIVE" \in codes)
          <=> /\ Len(completed) >= FailureThreshold
              /\ \E feed \in WatchedFeeds : \A i \in 1..FailureThreshold : feed \in completed[i].failing
=============================================================================
