--------------------------- MODULE AlertDelivery ----------------------------
(***************************************************************************)
(* The alert outbox and the workers that empty it.  Events are recorded by *)
(* transactions that commit in any order; a worker that holds the worker   *)
(* lock turns each committed event into one alert, and attempts the alerts *)
(* that are due, oldest first, until each is DELIVERED or EXPIRED.         *)
(*                                                                         *)
(* A delivery is an HTTP call and then a transaction: the process can die, *)
(* the answer can be lost, the row can fail to commit, in between.  The    *)
(* lock is an advisory lock of a database session, which the database can  *)
(* drop while the process runs on: until watch_lock looks, or its running  *)
(* job ends, a second worker can work beside it.                           *)
(***************************************************************************)
EXTENDS Naturals, Sequences, FiniteSets, Folds, SequencesExt

CONSTANTS
  Workers,
  ReviewAlerts,     \* alert keys several events share: one (order, reason, session)
  EventAlerts,      \* alert keys of exactly one order event
  IncidentAlerts,   \* alert keys of exactly one integrity incident
  None,
  BackoffCap,       \* BACKOFF_CAP_MINUTES
  AlertExpiry,      \* ALERT_EXPIRY
  Lookback,         \* ORDER_EVENT_LOOKBACK
  Batch,            \* DELIVERY_BATCH
  ScanLimit,        \* ORDER_EVENT_SCAN_LIMIT
  LastRecord,       \* bound: no event is recorded after this instant
  End,              \* bound: time stops here
  Bounds            \* the bounds of a behaviour: [events, crashes, losses], how many of each

ASSUME OrderAssumption ==
  /\ {BackoffCap, AlertExpiry, Lookback, LastRecord, End} \subseteq Nat
  /\ 0 < BackoffCap /\ BackoffCap < AlertExpiry /\ AlertExpiry < Lookback
ASSUME NoneAssumption == None \notin Workers /\ None \notin {"DELIVERED", "FAILED"}
ASSUME WorkersAssumption == IsFiniteSet(Workers)
ASSUME LimitAssumption == Batch \in Nat \ {0} /\ ScanLimit \in Nat \ {0}

Alerts == ReviewAlerts \union EventAlerts \union IncidentAlerts

VARIABLES
  bound,      \* this behaviour's bounds
  now,
  events,     \* by id: [alert, at, committed]
  marks,      \* alert_event_marks: the ids of the marked events
  outbox,     \* alert_outbox by id: [alert, created]
  attempts,   \* alert_delivery_attempts, per alert: [failed, last, delivered, expired]
  worker,     \* per worker: [phase, run]
  holder,     \* whose session holds the worker lock
  session,    \* the newest row of worker_sessions: <<"STARTED" or "STOPPED", worker>>
  crashes, losses

vars == <<bound, now, events, marks, outbox, attempts, worker, holder, session,
          crashes, losses>>
queue == <<events, marks, outbox>>
process == <<bound, holder, session, crashes, losses>>

-----------------------------------------------------------------------------
(* What the queries see. *)

Enqueued == {outbox[i].alert : i \in DOMAIN outbox}

\* Mutant: the scan goes on from the last marked event instead of looking for unmarked ones.
IsNewAfterLastMark(i) ==
  /\ events[i].committed
  /\ events[i].at + Lookback >= now
  /\ \A m \in marks : m < i

\* An incident is new while it has no alert, an order event while it has no mark.
IsNew(i) ==
  /\ events[i].committed
  /\ events[i].at + Lookback >= now
  /\ IF events[i].alert \in IncidentAlerts THEN events[i].alert \notin Enqueued ELSE i \notin marks

\* The first new events, as many as a scan reads.
Scanned == {i \in DOMAIN events : IsNew(i) /\ Cardinality({j \in 1..i : IsNew(j)}) <= ScanLimit}

\* The row of event i, unless its alert has one.
Enqueue(rows, i) ==
  IF i \notin Scanned \/ events[i].alert \in Enqueued \union {rows[k].alert : k \in DOMAIN rows}
    THEN rows
    ELSE Append(rows, [alert |-> events[i].alert, created |-> now])

Inserted == FoldLeft(Enqueue, <<>>, [i \in DOMAIN events |-> i])

Settled(row) == row.delivered + row.expired > 0
Expires(alert) == alert.created + AlertExpiry < now /\ ~Settled(attempts[alert.alert])

\* 1, 2, 4, ... minutes, up to the cap.
Backoff(failures) ==
  IF failures = 0 THEN 0
  ELSE IF 2 ^ (failures - 1) < BackoffCap THEN 2 ^ (failures - 1) ELSE BackoffCap

\* Mutant: a delivered alert is still a candidate.
IsDueAgain(alert) ==
  /\ alert.created + AlertExpiry >= now
  /\ attempts[alert.alert].expired = 0
  /\ \/ attempts[alert.alert].failed = 0
     \/ now >= attempts[alert.alert].last + Backoff(attempts[alert.alert].failed)

IsDue(alert) ==
  /\ alert.created + AlertExpiry >= now
  /\ ~Settled(attempts[alert.alert])
  /\ \/ attempts[alert.alert].failed = 0
     \/ now >= attempts[alert.alert].last + Backoff(attempts[alert.alert].failed)

\* The ids of the first due alerts, as many as a run attempts; a run takes the
\* oldest next.
DueAlerts ==
  {k \in DOMAIN outbox : IsDue(outbox[k]) /\ Cardinality({j \in 1..k : IsDue(outbox[j])}) <= Batch}
Oldest(due) == Min(due)

Running(w) == worker[w].phase = "up"
Free(w) == worker[w].run = None
SetRun(w, run) == worker' = [worker EXCEPT ![w].run = run]

\* An alert's attempts with a row more.
Delivered(rows) == [rows EXCEPT !.delivered = @ + 1]
Failed(rows, at) == [rows EXCEPT !.failed = @ + 1, !.last = at]

\* The alert that a run attempts.
Attempted(w) == outbox[Oldest(worker[w].run.due)].alert

-----------------------------------------------------------------------------
Init ==
  /\ bound \in Bounds
  /\ now = 0
  /\ events = <<>> /\ marks = {} /\ outbox = <<>>
  /\ attempts = [a \in Alerts |-> [failed |-> 0, last |-> 0, delivered |-> 0, expired |-> 0]]
  /\ worker = [w \in Workers |-> [phase |-> "down", run |-> None]]
  /\ holder = None /\ session = None
  /\ crashes = 0 /\ losses = 0

(* A minute.  A run has a budget of 20 seconds and one attempt: it is over
   before a second minute has gone. *)
Tick ==
  /\ now < End
  /\ \A w \in Workers : ~Free(w) => worker[w].run.instant = now
  /\ now' = now + 1
  /\ UNCHANGED <<queue, attempts, worker, process>>

\* Some transaction inserts an event (its id and recorded_at are taken here) ...
RecordEvent(a) ==
  /\ Len(events) < bound.events /\ now <= LastRecord
  /\ a \in EventAlerts \union IncidentAlerts => \A i \in DOMAIN events : events[i].alert # a
  /\ events' = Append(events, [alert |-> a, at |-> now, committed |-> FALSE])
  /\ UNCHANGED <<now, marks, outbox, attempts, worker, process>>

\* ... and commits it later.
CommitEvent(i) ==
  /\ ~events[i].committed
  /\ events' = [events EXCEPT ![i].committed = TRUE]
  /\ UNCHANGED <<now, marks, outbox, attempts, worker, process>>

(* enqueue_event_alerts: by deliver_alerts, and after the opening and the end
   of day.  Of two that overlap, the second one's inserts do nothing. *)
EnqueueEventAlerts(w) ==
  /\ Running(w) /\ Scanned # {}
  /\ outbox' = outbox \o Inserted
  /\ marks' = marks \union {i \in Scanned : events[i].alert \notin IncidentAlerts}
  /\ UNCHANGED <<now, events, attempts, worker, process>>

\* deliver_pending_alerts: expire by age, then read the alerts that are due.
BeginDelivery(w) ==
  /\ Running(w) /\ Free(w) /\ outbox # <<>>
  /\ attempts' = [a \in Alerts |->
       IF \E k \in DOMAIN outbox : outbox[k].alert = a /\ Expires(outbox[k])
         THEN [attempts[a] EXCEPT !.expired = @ + 1] ELSE attempts[a]]
  /\ SetRun(w, [instant |-> now, due |-> DueAlerts, answer |-> None])
  /\ UNCHANGED <<now, queue, process>>

\* sink.deliver.  FAILED is also the answer that does not come back in time.
Send(w) ==
  /\ ~Free(w) /\ worker[w].run.due # {} /\ worker[w].run.answer = None
  /\ \E answer \in {"DELIVERED", "FAILED"} : SetRun(w, [worker[w].run EXCEPT !.answer = answer])
  /\ UNCHANGED <<now, queue, attempts, process>>

\* The attempt's row commits, and the run goes to the next alert.
RecordAttempt(w) ==
  /\ ~Free(w) /\ worker[w].run.answer # None
  /\ attempts' = [attempts EXCEPT ![Attempted(w)] =
       IF worker[w].run.answer = "DELIVERED" THEN Delivered(@) ELSE Failed(@, worker[w].run.instant)]
  /\ SetRun(w, [worker[w].run EXCEPT !.due = @ \ {Oldest(@)}, !.answer = None])
  /\ UNCHANGED <<now, queue, process>>

\* The row does not commit: the exception ends the job, the alert stays due.
AttemptNotRecorded(w) ==
  /\ ~Free(w) /\ worker[w].run.answer # None /\ crashes < bound.crashes
  /\ crashes' = crashes + 1
  /\ SetRun(w, None)
  /\ UNCHANGED <<bound, now, queue, attempts, holder, session, losses>>

\* Nothing is left, or the time budget is: the rest stays due.
EndDelivery(w) ==
  /\ ~Free(w) /\ worker[w].run.answer = None
  /\ SetRun(w, None)
  /\ UNCHANGED <<now, queue, attempts, process>>

-----------------------------------------------------------------------------
(* run_worker: the process and its lock. *)

\* A process that does not get the lock exits at once and changes nothing.
Start(w) ==
  /\ worker[w] = [phase |-> "down", run |-> None] /\ holder = None
  /\ holder' = w
  /\ session' = <<"STARTED", w>>
  /\ worker' = [worker EXCEPT ![w].phase = "up"]
  /\ UNCHANGED <<bound, now, queue, attempts, crashes, losses>>

\* The database drops the session: always after its process died, sometimes before.
DropSession ==
  /\ holder # None
  /\ \/ worker[holder].phase = "down" /\ UNCHANGED losses
     \/ worker[holder].phase # "down" /\ losses < bound.losses /\ losses' = losses + 1
  /\ holder' = None
  /\ UNCHANGED <<bound, now, queue, attempts, worker, session, crashes>>

\* watch_lock: the scheduler stops, without waiting for the job that is running.
WatchLock(w) ==
  /\ Running(w) /\ holder # w
  /\ worker' = [worker EXCEPT ![w].phase = "lost"]
  /\ UNCHANGED <<now, queue, attempts, process>>

\* Mutant: the lock is released with the signal, before the jobs have ended.
ReleaseOnSignal(w) ==
  /\ Running(w) /\ crashes < bound.crashes
  /\ crashes' = crashes + 1
  /\ worker' = [worker EXCEPT ![w].phase = "draining"]
  /\ holder' = IF holder = w THEN None ELSE holder
  /\ UNCHANGED <<bound, now, queue, attempts, session, losses>>

\* SIGTERM: the scheduler stops and waits for the running jobs.
Signal(w) ==
  /\ Running(w) /\ crashes < bound.crashes
  /\ crashes' = crashes + 1
  /\ worker' = [worker EXCEPT ![w].phase = "draining"]
  /\ UNCHANGED <<bound, now, queue, attempts, holder, session, losses>>

\* The finally of run_worker: the stop row first; then the lock, in a step of its own.
RecordStop(w) ==
  /\ \/ worker[w].phase = "lost"
     \/ worker[w].phase = "draining" /\ Free(w)
  /\ session' = <<"STOPPED", w>>
  /\ worker' = [worker EXCEPT ![w].phase = "stopped"]
  /\ UNCHANGED <<bound, now, queue, attempts, holder, crashes, losses>>

\* The process ends when the job its scheduler did not wait for has ended too.
ReleaseAndExit(w) ==
  /\ worker[w].phase = "stopped" /\ Free(w)
  /\ holder' = IF holder = w THEN None ELSE holder
  /\ worker' = [worker EXCEPT ![w].phase = "down"]
  /\ UNCHANGED <<bound, now, queue, attempts, session, crashes, losses>>

\* The process dies; its session, and the lock, live until the database notices.
Crash(w) ==
  /\ worker[w].phase # "down" /\ crashes < bound.crashes
  /\ crashes' = crashes + 1
  /\ worker' = [worker EXCEPT ![w] = [phase |-> "down", run |-> None]]
  /\ UNCHANGED <<bound, now, queue, attempts, holder, session, losses>>

Delivery(w) ==
  \/ BeginDelivery(w) \/ Send(w) \/ RecordAttempt(w) \/ EndDelivery(w)
Process(w) ==
  \/ Start(w) \/ WatchLock(w) \/ RecordStop(w) \/ ReleaseAndExit(w)

Next ==
  \/ Tick
  \/ \E a \in Alerts : RecordEvent(a)
  \/ \E i \in DOMAIN events : CommitEvent(i)
  \/ \E w \in Workers :
       \/ EnqueueEventAlerts(w) \/ Delivery(w) \/ AttemptNotRecorded(w)
       \/ Process(w) \/ Signal(w) \/ Crash(w)
  \/ DropSession

(* The scheduler of a live worker keeps running its jobs (each has a thread and
   runs every minute or so), the container runtime restarts a worker that
   ended, the server's keepalives find a dead session, transactions end, and
   time passes. *)
Fairness ==
  /\ WF_vars(Tick)
  /\ WF_vars(\E i \in DOMAIN events : CommitEvent(i))
  /\ WF_vars(DropSession /\ worker[holder].phase = "down")
  /\ \A w \in Workers :
       WF_vars(EnqueueEventAlerts(w)) /\ WF_vars(Delivery(w)) /\ WF_vars(Process(w))

Spec == Init /\ [][Next]_vars
FairSpec == Spec /\ Fairness

-----------------------------------------------------------------------------
(* deliver_pending_alerts: delivery is at least once.  A receipt is repeated
   only after an answer or a row was lost, or beside a worker whose lock session
   the database dropped: without the latter an alert is settled once, DELIVERED
   or EXPIRED, and never attempted again, and each loss repeats it once. *)
DuplicatesHaveACause ==
  \A a \in Alerts :
    attempts[a].expired + attempts[a].delivered
      + Cardinality({w \in Workers :
          ~Free(w) /\ worker[w].run.answer = "DELIVERED" /\ Attempted(w) = a})
    <= 1 + losses

(* run_worker: unless the lock was lost there is one worker, and a stop row
   directly follows the start row of the same worker, because the lock is
   released after the row, and the row is written after the last job. *)
SessionsDoNotOverlap ==
  [][losses' = 0 =>
       /\ \A v, w \in Workers : worker'[v].phase # "down" /\ worker'[w].phase # "down" => v = w
       /\ session' # session /\ session'[1] = "STOPPED" => session = <<"STARTED", session'[2]>>]_vars

(* The reason for marks: an event that does not age past the lookback (time
   stops before) gets its alert, in whatever order the events commit, and an
   alert with the time to expire is settled, whatever the webhook answers. *)
EveryEventIsHeard ==
  /\ \A i \in 1..2 :
       (i \in DOMAIN events /\ events[i].at + Lookback >= End)
         ~> (i \in DOMAIN events /\ events[i].alert \in Enqueued)
  /\ \A a \in Alerts :
       (\E k \in DOMAIN outbox : outbox[k].alert = a /\ outbox[k].created + AlertExpiry < End)
         ~> Settled(attempts[a])
=============================================================================
