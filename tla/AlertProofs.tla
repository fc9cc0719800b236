---------------------------- MODULE AlertProofs -----------------------------
(***************************************************************************)
(* Theorems about the outbox and the sessions of its workers, for every    *)
(* number of workers, events, crashes and lost locks.                      *)
(*                                                                         *)
(*   OneSessionAtATime   unless the database dropped the lock of a process *)
(*                       that runs on, there is one worker, and its stop   *)
(*                       row follows its own start row;                    *)
(*   SettledOnce         an alert is settled, or its receipt is on its     *)
(*                       way, once, and once more for each such loss.      *)
(*                                                                         *)
(* Until the first loss, whoever is not down holds the lock, so a process  *)
(* that starts finds every other one down; and the newest row is the start *)
(* row of whoever has not written its stop row yet.                        *)
(*                                                                         *)
(* With losses, a worker that runs without the lock (Strays) lost it, so   *)
(* at most 1 + losses workers run at a time. A run takes an alert only     *)
(* while it is not settled: what is counted is the rows that settle it and *)
(* the runs that have it still to attempt (Carriers). An attempt moves its *)
(* run from the second to the first, as the unique key of the outbox keeps *)
(* a run from having an alert twice.                                       *)
(***************************************************************************)
EXTENDS AlertDelivery, FiniteSetTheorems, TLAPS

\* The phases of a worker process.
Phases == {"down", "up", "lost", "draining", "stopped"}

\* A typed worker, whatever its run.
WorkersType ==
  /\ worker = [w \in Workers |-> worker[w]]
  /\ \A w \in Workers : worker[w] \in [phase : Phases, run : {worker[w].run}]
  /\ losses \in Nat

\* The lock is held by whoever is not down, and the session row is its own.
LockInv ==
  losses = 0 => \A w \in Workers :
    /\ worker[w].phase # "down" => holder = w
    /\ worker[w].phase \in {"up", "lost", "draining"} => session = <<"STARTED", w>>

(***************************************************************************)
(* What a step makes of one worker.                                        *)
(***************************************************************************)
LEMMA WorkerChanges ==
  ASSUME WorkersType, NEW w \in Workers, NEW q, q \in [phase : Phases, run : {q.run}],
         worker' = [worker EXCEPT ![w] = q], losses' \in Nat
  PROVE  /\ WorkersType'
         /\ worker'[w] = q /\ \A v \in Workers \ {w} : worker'[v] = worker[v]
<1>1. worker'[w] = q /\ \A v \in Workers \ {w} : worker'[v] = worker[v]
  BY DEF WorkersType
<1>2. worker' = [v \in Workers |-> worker'[v]]
  BY DEF WorkersType
<1>3. \A v \in Workers : worker'[v] \in [phase : Phases, run : {worker'[v].run}]
  BY <1>1 DEF WorkersType
<1> QED
  BY <1>1, <1>2, <1>3 DEF WorkersType

(***************************************************************************)
(* A run of deliveries starts, goes on and ends within its process.        *)
(***************************************************************************)
LEMMA RunKeepsPhase ==
  ASSUME WorkersType, NEW w \in Workers, NEW run, SetRun(w, run), UNCHANGED losses
  PROVE  WorkersType' /\ \A v \in Workers : worker'[v].phase = worker[v].phase
<1> DEFINE q == [worker[w] EXCEPT !.run = run]
<1>1. q \in [phase : Phases, run : {q.run}] /\ q.phase = worker[w].phase
  BY DEF WorkersType
<1>2. worker' = [worker EXCEPT ![w] = q]
  BY DEF SetRun
<1> HIDE DEF q
<1> QED
  BY <1>1, <1>2, WorkerChanges DEF WorkersType

(***************************************************************************)
(* One worker changes its phase, and keeps its run; the others keep both.  *)
(***************************************************************************)
LEMMA PhaseChanges ==
  ASSUME WorkersType, NEW w \in Workers, NEW phase \in Phases, losses' \in Nat,
         worker' = [worker EXCEPT ![w].phase = phase]
  PROVE  /\ WorkersType' /\ worker'[w].phase = phase
         /\ \A v \in Workers \ {w} : worker'[v] = worker[v]
<1> DEFINE q == [worker[w] EXCEPT !.phase = phase]
<1>1. q \in [phase : Phases, run : {q.run}] /\ q.phase = phase
  BY DEF WorkersType
<1>2. worker' = [worker EXCEPT ![w] = q]
  OBVIOUS
<1> HIDE DEF q
<1> QED
  BY <1>1, <1>2, WorkerChanges

(***************************************************************************)
(* The processes take, lose and release the lock one step at a time.       *)
(***************************************************************************)
LEMMA LockStep ==
  ASSUME WorkersType, LockInv, [Next]_vars
  PROVE  /\ WorkersType' /\ LockInv'
         /\ losses' = 0 /\ session' # session /\ session'[1] = "STOPPED" =>
              session = <<"STARTED", session'[2]>>
<1> DEFINE Goal == /\ WorkersType' /\ LockInv'
                   /\ losses' = 0 /\ session' # session /\ session'[1] = "STOPPED" =>
                        session = <<"STARTED", session'[2]>>
<1>1. ASSUME UNCHANGED <<worker, process>> PROVE Goal
  BY <1>1 DEF process, WorkersType, LockInv
<1>2. ASSUME NEW w \in Workers, NEW run, SetRun(w, run), UNCHANGED <<holder, session, losses>> PROVE Goal
  BY <1>2, RunKeepsPhase DEF LockInv
<1>3. ASSUME NEW w \in Workers, EnqueueEventAlerts(w) PROVE Goal
  BY <1>1, <1>3 DEF EnqueueEventAlerts
<1>4. ASSUME NEW w \in Workers, Delivery(w) \/ AttemptNotRecorded(w) PROVE Goal
  <2>1. UNCHANGED <<holder, session, losses>> /\ \E run : SetRun(w, run)
    BY <1>4 DEF Delivery, BeginDelivery, Send, RecordAttempt, EndDelivery, AttemptNotRecorded, process
  <2> QED
    BY <1>2, <2>1
<1>5. ASSUME NEW w \in Workers, Start(w) PROVE Goal
  <2>1. WorkersType' /\ worker'[w].phase = "up" /\ \A v \in Workers \ {w} : worker'[v] = worker[v]
    BY <1>5, PhaseChanges DEF Start, WorkersType, Phases
  <2>2. holder = None /\ holder' = w /\ session' = <<"STARTED", w>> /\ losses' = losses
    BY <1>5 DEF Start
  <2>3. losses = 0 => \A v \in Workers : worker[v].phase = "down"
    BY <2>2, NoneAssumption DEF LockInv
  <2>4. LockInv'
    BY <2>1, <2>2, <2>3 DEF LockInv
  <2> QED
    BY <2>1, <2>2, <2>4
<1>6. ASSUME NEW w \in Workers, WatchLock(w) PROVE Goal
  <2>1. WorkersType' /\ worker'[w].phase = "lost" /\ \A v \in Workers \ {w} : worker'[v] = worker[v]
    BY <1>6, PhaseChanges DEF WatchLock, process, WorkersType, Phases
  <2>2. losses # 0 /\ UNCHANGED <<session, losses>>
    BY <1>6 DEF WatchLock, LockInv, Running, process
  <2> QED
    BY <2>1, <2>2 DEF LockInv
<1>7. ASSUME NEW w \in Workers, Signal(w) PROVE Goal
  <2>1. WorkersType' /\ worker'[w].phase = "draining" /\ \A v \in Workers \ {w} : worker'[v] = worker[v]
    BY <1>7, PhaseChanges DEF Signal, WorkersType, Phases
  <2>2. UNCHANGED <<holder, session, losses>> /\ worker[w].phase = "up"
    BY <1>7 DEF Signal, Running
  <2> QED
    BY <2>1, <2>2 DEF LockInv
<1>8. ASSUME NEW w \in Workers, RecordStop(w) PROVE Goal
  <2>1. WorkersType' /\ worker'[w].phase = "stopped" /\ \A v \in Workers \ {w} : worker'[v] = worker[v]
    BY <1>8, PhaseChanges DEF RecordStop, WorkersType, Phases
  <2>2. UNCHANGED <<holder, losses>> /\ session' = <<"STOPPED", w>> /\ worker[w].phase \in {"lost", "draining"}
    BY <1>8 DEF RecordStop
  <2>3. losses = 0 => \A v \in Workers \ {w} : worker[v].phase = "down"
    BY <2>2 DEF LockInv
  <2>4. LockInv'
    BY <2>1, <2>2, <2>3 DEF LockInv
  <2>5. losses = 0 => session = <<"STARTED", w>>
    BY <2>2 DEF LockInv
  <2> QED
    BY <2>1, <2>2, <2>4, <2>5
<1>9. ASSUME NEW w \in Workers, ReleaseAndExit(w) PROVE Goal
  <2>1. WorkersType' /\ worker'[w].phase = "down" /\ \A v \in Workers \ {w} : worker'[v] = worker[v]
    BY <1>9, PhaseChanges DEF ReleaseAndExit, WorkersType, Phases
  <2>2. /\ holder' = (IF holder = w THEN None ELSE holder)
        /\ UNCHANGED <<session, losses>> /\ worker[w].phase = "stopped"
    BY <1>9 DEF ReleaseAndExit
  <2> QED
    BY <2>1, <2>2 DEF LockInv
<1>10. ASSUME NEW w \in Workers, Crash(w) PROVE Goal
  <2> DEFINE q == [phase |-> "down", run |-> None]
  <2>1. q \in [phase : Phases, run : {q.run}] /\ q.phase = "down"
    BY DEF Phases
  <2>2. worker' = [worker EXCEPT ![w] = q] /\ UNCHANGED <<holder, session, losses>>
    BY <1>10 DEF Crash
  <2> HIDE DEF q
  <2>3. WorkersType' /\ worker'[w].phase = "down" /\ \A v \in Workers \ {w} : worker'[v] = worker[v]
    BY <2>1, <2>2, WorkerChanges DEF WorkersType
  <2> QED
    BY <2>2, <2>3 DEF LockInv
<1>11. CASE DropSession
  <2>1. /\ UNCHANGED <<worker, session>> /\ holder # None
        /\ \/ worker[holder].phase = "down" /\ losses' = losses
           \/ losses' = losses + 1
    BY <1>11 DEF DropSession
  <2>2. losses' \in Nat /\ (losses' = 0 => losses = 0 /\ worker[holder].phase = "down")
    BY <2>1 DEF WorkersType
  <2>3. LockInv'
    BY <2>1, <2>2 DEF LockInv
  <2> QED
    BY <2>1, <2>2, <2>3 DEF WorkersType
<1>12. CASE Tick \/ (\E a \in Alerts : RecordEvent(a)) \/ (\E i \in DOMAIN events : CommitEvent(i))
  BY <1>1, <1>12 DEF Tick, RecordEvent, CommitEvent
<1>13. CASE UNCHANGED vars
  BY <1>1, <1>13 DEF vars, process
<1> QED
  BY <1>3, <1>4, <1>5, <1>6, <1>7, <1>8, <1>9, <1>10, <1>11, <1>12, <1>13 DEF Next, Process

(***************************************************************************)
(* run_worker: start and stop rows of worker_sessions never interleave     *)
(* while the lock is kept.                                                 *)
(***************************************************************************)
THEOREM OneSessionAtATime == Spec => SessionsDoNotOverlap
<1> DEFINE Alone ==
      losses' = 0 =>
        /\ \A v, w \in Workers : worker'[v].phase # "down" /\ worker'[w].phase # "down" => v = w
        /\ session' # session /\ session'[1] = "STOPPED" => session = <<"STARTED", session'[2]>>
<1>1. Init => WorkersType /\ LockInv
  BY DEF Init, WorkersType, LockInv, Phases
<1>2. WorkersType /\ LockInv /\ [Next]_vars => WorkersType' /\ LockInv'
  BY LockStep
<1>3. WorkersType /\ LockInv /\ [Next]_vars => [Alone]_vars
  <2> SUFFICES ASSUME WorkersType, LockInv, [Next]_vars PROVE Alone
    OBVIOUS
  <2>1. LockInv' /\ (losses' = 0 /\ session' # session /\ session'[1] = "STOPPED" =>
                       session = <<"STARTED", session'[2]>>)
    BY LockStep
  <2> QED
    BY <2>1 DEF LockInv
<1> QED
  BY <1>1, <1>2, <1>3, PTL DEF Spec, SessionsDoNotOverlap

-----------------------------------------------------------------------------
(* The rows that are inserted. *)

Insert(p, i, rows) ==
  IF i \notin p.scanned \/ p.events[i].alert \in p.enqueued \union {rows[k].alert : k \in DOMAIN rows}
    THEN rows
    ELSE Append(rows, [alert |-> p.events[i].alert, created |-> p.now])
IdAt(p, i) == p.ids[i]
Greatest(p, s) == Max(s)

OutboxRows == [alert : Alerts, created : Nat]
KeyUnique(rows) == \A j, k \in DOMAIN rows : rows[j].alert = rows[k].alert => j = k

NewRows(p, s, rows) ==
  /\ rows \in Seq(p.rows) /\ KeyUnique(rows)
  /\ \A k \in DOMAIN rows : rows[k].alert \notin p.enqueued

Inserting == INSTANCE FoldProofs WITH Apply <- Insert, Item <- IdAt, Pick <- Greatest, Holds <- NewRows

Scan ==
  [events |-> events, enqueued |-> Enqueued, scanned |-> Scanned, now |-> now,
   ids |-> [i \in DOMAIN events |-> i], rows |-> OutboxRows]

Recorded == [alert : Alerts, at : Nat, committed : BOOLEAN]

(***************************************************************************)
(* A set of naturals up to n that is not empty has its Max and its Min.    *)
(***************************************************************************)
LEMMA Extremes ==
  ASSUME NEW n \in Nat, NEW S \in SUBSET (1..n), S # {}
  PROVE  Max(S) \in S /\ Min(S) \in S
<1>1. \E x \in S : \A y \in S : x <= y
  BY Inserting!Least
<1>2. \E x \in S : \A y \in S : x >= y
  <2> DEFINE Above == {m \in Nat : \A x \in S : x <= m}
  <2>1. n \in Above
    OBVIOUS
  <2>2. PICK m \in Above : \A k \in Above : m <= k
    <3> HIDE DEF Above
    <3>1. Above \in SUBSET Nat /\ Above # {}
      BY <2>1 DEF Above
    <3> QED
      BY <3>1, Inserting!Least
  <2>3. m \in S
    <3>1. SUFFICES ASSUME m \notin S PROVE FALSE
      OBVIOUS
    <3>2. m \in Nat /\ \A x \in S : x < m
      BY <2>2, <3>1
    <3>3. PICK x \in S : x < m
      BY <3>2
    <3>4. m - 1 \in Nat /\ \A y \in S : y <= m - 1
      BY <3>2, <3>3
    <3> QED
      BY <2>2, <3>2, <3>4
  <2> QED
    BY <2>2, <2>3
<1> QED
  BY <1>1, <1>2 DEF Max, Min

(***************************************************************************)
(* A row more keeps the unique key.                                        *)
(***************************************************************************)
LEMMA InsertKeeps ==
  ASSUME NEW p, NEW i, NEW rows, NEW s, NEW t, NewRows(p, s, rows),
         [alert |-> p.events[i].alert, created |-> p.now] \in p.rows
  PROVE  NewRows(p, t, Insert(p, i, rows))
<1> DEFINE row == [alert |-> p.events[i].alert, created |-> p.now]
           known == p.enqueued \union {rows[k].alert : k \in DOMAIN rows}
           more == Append(rows, row)
<1>1. rows \in Seq(p.rows) /\ row \in p.rows /\ row.alert = p.events[i].alert
  BY DEF NewRows
<1> HIDE DEF row
<1>2. /\ more \in Seq(p.rows) /\ DOMAIN rows = 1..Len(rows) /\ Len(rows) \in Nat
      /\ DOMAIN more = 1..(Len(rows) + 1)
      /\ more[Len(rows) + 1] = row /\ \A k \in DOMAIN rows : more[k] = rows[k]
  BY <1>1
<1> HIDE DEF more
<1>3. CASE i \notin p.scanned \/ p.events[i].alert \in known
  BY <1>3 DEF Insert, NewRows
<1>4. CASE ~(i \notin p.scanned \/ p.events[i].alert \in known)
  <2>1. Insert(p, i, rows) = more
    BY <1>4 DEF Insert, more, row
  <2>2. \A k \in DOMAIN rows : rows[k].alert # row.alert
    BY <1>1, <1>4
  <2>3. \A k \in DOMAIN more : k \in DOMAIN rows \/ k = Len(rows) + 1
    BY <1>2
  <2>4. KeyUnique(more)
    BY <1>2, <2>2, <2>3 DEF KeyUnique, NewRows
  <2>5. \A k \in DOMAIN more : more[k].alert \notin p.enqueued
    BY <1>1, <1>2, <1>4, <2>3 DEF NewRows
  <2> QED
    BY <1>2, <2>1, <2>4, <2>5 DEF NewRows
<1> QED
  BY <1>3, <1>4

(***************************************************************************)
(* enqueue_order_event_alerts inserts one row per alert, for alerts that   *)
(* have none.                                                              *)
(***************************************************************************)
LEMMA InsertedRows ==
  ASSUME events \in Seq(Recorded), now \in Nat
  PROVE  NewRows(Scan, DOMAIN events, Inserted)
<1> DEFINE S == DOMAIN events
<1>1. S = 1..Len(events) /\ Len(events) \in Nat /\ \A i \in S : events[i] \in Recorded
  OBVIOUS
<1>2. Inserting!IsFiniteSet(S)
  <2> HIDE DEF S
  <2>1. IsFiniteSet(S)
    BY <1>1, FS_Interval
  <2> QED
    BY <2>1 DEF IsFiniteSet, Inserting!IsFiniteSet
<1>3. Inserting!Picks(Scan, S)
  BY <1>1, Extremes DEF Inserting!Picks, Greatest
<1>4. NewRows(Scan, {}, <<>>)
  BY DEF NewRows, KeyUnique
<1>5. ASSUME NEW s \in SUBSET S, s # {}, NEW rows, NewRows(Scan, s \ {Greatest(Scan, s)}, rows)
      PROVE  NewRows(Scan, s, Insert(Scan, IdAt(Scan, Greatest(Scan, s)), rows))
  <2> DEFINE i == Greatest(Scan, s)
  <2>1. i \in S
    BY <1>1, <1>5, Extremes DEF Greatest
  <2> HIDE DEF i
  <2>2. IdAt(Scan, i) = i
    BY <2>1 DEF IdAt, Scan
  <2>3. [alert |-> Scan.events[i].alert, created |-> Scan.now] \in Scan.rows
    BY <1>1, <2>1 DEF Scan, Recorded, OutboxRows
  <2> QED
    BY <1>5, <2>2, <2>3, InsertKeeps DEF i
<1>6. NewRows(Scan, S, Inserting!Fold(Scan, <<>>, S))
  <2> HIDE DEF S
  <2> QED
    BY <1>2, <1>3, <1>4, <1>5, Inserting!FoldHolds
<1>7. Inserted = Inserting!Fold(Scan, <<>>, S)
  BY DEF Inserted, FoldLeft, MapThenFoldSet, Inserting!Fold, Inserting!MapThenFoldSet, Enqueue, Insert,
         IdAt, Greatest, Scan
<1> QED
  BY <1>6, <1>7

-----------------------------------------------------------------------------
(* Runs and losses. *)

AttemptRows == [failed : Nat, last : Nat, delivered : Nat, expired : Nat]
Runs == [instant : Nat, due : SUBSET Nat, answer : {None, "DELIVERED", "FAILED"}]

OutboxType ==
  /\ events \in Seq(Recorded) /\ now \in Nat
  /\ outbox \in Seq(OutboxRows) /\ KeyUnique(outbox)
  /\ attempts \in [Alerts -> AttemptRows]

\* A run is of a process that lives, over rows of the outbox.
RunsInv ==
  \A w \in Workers : ~Free(w) =>
    /\ worker[w].phase # "down" /\ worker[w].run \in Runs
    /\ worker[w].run.due \subseteq DOMAIN outbox
    /\ worker[w].run.answer # None => worker[w].run.due # {}

\* The workers that run without the lock.
Strays == {w \in Workers : worker[w].phase # "down" /\ holder # w}
LossInv == Cardinality(Strays) <= losses

\* The workers whose run has the alert still to attempt.
Carriers(a) ==
  {w \in Workers : ~Free(w) /\ \E k \in worker[w].run.due : outbox[k].alert = a}
SpentInv ==
  \A a \in Alerts :
    attempts[a].expired + attempts[a].delivered + Cardinality(Carriers(a)) <= 1 + losses

OnceInv == WorkersType /\ OutboxType /\ RunsInv /\ LossInv /\ SpentInv

(***************************************************************************)
(* Sets of workers have sizes.                                             *)
(***************************************************************************)
LEMMA Sizes ==
  ASSUME NEW S \in SUBSET Workers, NEW T \in SUBSET S
  PROVE  /\ IsFiniteSet(S) /\ Cardinality(S) \in Nat
         /\ Cardinality(T) \in Nat /\ Cardinality(T) <= Cardinality(S)
         /\ \A x : Cardinality(S \union {x}) <= Cardinality(S) + 1
         /\ \A x \in S : Cardinality(S \ {x}) = Cardinality(S) - 1
<1>1. IsFiniteSet(S) /\ IsFiniteSet(T) /\ Cardinality(T) <= Cardinality(S)
  BY WorkersAssumption, FS_Subset
<1>2. Cardinality(S) \in Nat /\ Cardinality(T) \in Nat
  BY <1>1, FS_CardinalityType
<1>3. ASSUME NEW x PROVE Cardinality(S \union {x}) <= Cardinality(S) + 1
  <2>1. CASE x \in S
    <3>1. S \union {x} = S
      BY <2>1
    <3>2. Cardinality(S \union {x}) = Cardinality(S)
      BY <3>1, Zenon
    <3> QED
      BY <1>2, <3>2
  <2>2. CASE x \notin S
    <3>1. Cardinality(S \union {x}) = Cardinality(S) + 1
      BY <1>1, <2>2, FS_AddElement
    <3> QED
      BY <1>2, <3>1
  <2> QED
    BY <2>1, <2>2
<1>4. ASSUME NEW x \in S PROVE Cardinality(S \ {x}) = Cardinality(S) - 1
  BY <1>1, FS_RemoveElement
<1> QED
  BY <1>1, <1>2, <1>3, <1>4

(***************************************************************************)
(* A worker that runs lost the lock or has it: at most 1 + losses of them  *)
(* carry an alert, and one less while another one has nothing to do.       *)
(***************************************************************************)
LEMMA FewCarriers ==
  ASSUME WorkersType, RunsInv, LossInv, NEW a
  PROVE  /\ Cardinality(Carriers(a)) \in Nat /\ Cardinality(Carriers(a)) <= 1 + losses
         /\ \A w \in Workers :
              worker[w].phase # "down" /\ Free(w) => Cardinality(Carriers(a)) <= losses
<1> DEFINE Alive == {w \in Workers : worker[w].phase # "down"}
<1>1. Carriers(a) \in SUBSET Alive /\ Alive \in SUBSET Workers /\ Strays \in SUBSET Workers
  BY DEF Carriers, RunsInv, Strays
<1>2. Alive \subseteq Strays \union {holder}
  BY DEF Strays
<1>3. Cardinality(Alive) <= 1 + losses /\ Cardinality(Alive) \in Nat
  <2>1. Cardinality(Strays \union {holder}) <= Cardinality(Strays) + 1 /\ Cardinality(Strays) \in Nat
    BY <1>1, Sizes
  <2>2. IsFiniteSet(Strays \union {holder})
    BY <1>1, Sizes, FS_AddElement
  <2>3. Cardinality(Alive) <= Cardinality(Strays \union {holder})
        /\ Cardinality(Strays \union {holder}) \in Nat
    BY <1>2, <2>2, FS_Subset, FS_CardinalityType
  <2>4. Cardinality(Alive) \in Nat /\ losses \in Nat
    BY <1>1, Sizes DEF WorkersType
  <2> QED
    BY <2>1, <2>3, <2>4 DEF LossInv
<1> HIDE DEF Alive
<1>4. Cardinality(Carriers(a)) \in Nat /\ Cardinality(Carriers(a)) <= Cardinality(Alive)
  BY <1>1, Sizes
<1>5. ASSUME NEW w \in Workers, worker[w].phase # "down", Free(w)
      PROVE  Cardinality(Carriers(a)) <= losses
  <2>1. w \in Alive /\ Carriers(a) \in SUBSET (Alive \ {w})
    BY <1>1, <1>5 DEF Alive, Carriers
  <2>2. Cardinality(Alive \ {w}) = Cardinality(Alive) - 1
    BY <1>1, <2>1, Sizes
  <2>3. Cardinality(Carriers(a)) <= Cardinality(Alive \ {w})
    BY <1>1, <2>1, Sizes
  <2>4. losses \in Nat
    BY DEF WorkersType
  <2> QED
    BY <1>3, <1>4, <2>2, <2>3, <2>4
<1> QED
  BY <1>3, <1>4, <1>5 DEF WorkersType

(***************************************************************************)
(* What SetRun leaves.                                                     *)
(***************************************************************************)
LEMMA RunChanges ==
  ASSUME WorkersType, NEW w \in Workers, NEW run, SetRun(w, run)
  PROVE  /\ worker'[w].run = run /\ \A v \in Workers : worker'[v].phase = worker[v].phase
         /\ \A v \in Workers \ {w} : worker'[v] = worker[v]
<1> DEFINE q == [worker[w] EXCEPT !.run = run]
<1>1. q.run = run /\ q.phase = worker[w].phase
  BY DEF WorkersType
<1>2. worker' = [worker EXCEPT ![w] = q]
  BY DEF SetRun
<1> HIDE DEF q
<1>3. worker'[w] = q /\ \A v \in Workers \ {w} : worker'[v] = worker[v]
  BY <1>2 DEF WorkersType
<1> QED
  BY <1>1, <1>3

(***************************************************************************)
(* What a change of phase leaves.                                          *)
(***************************************************************************)
LEMMA RunKept ==
  ASSUME WorkersType, NEW w \in Workers, NEW phase, worker' = [worker EXCEPT ![w].phase = phase]
  PROVE  /\ worker'[w].phase = phase /\ worker'[w].run = worker[w].run
         /\ \A v \in Workers \ {w} : worker'[v] = worker[v]
<1> DEFINE q == [worker[w] EXCEPT !.phase = phase]
<1>1. q.run = worker[w].run /\ q.phase = phase
  BY DEF WorkersType
<1>2. worker' = [worker EXCEPT ![w] = q]
  OBVIOUS
<1> HIDE DEF q
<1>3. worker'[w] = q /\ \A v \in Workers \ {w} : worker'[v] = worker[v]
  BY <1>2 DEF WorkersType
<1> QED
  BY <1>1, <1>3

(***************************************************************************)
(* A worker only loses the lock with a loss that is counted.               *)
(***************************************************************************)
LEMMA LossStep ==
  ASSUME WorkersType, LossInv, [Next]_vars
  PROVE  LossInv' /\ losses' \in Nat /\ losses' >= losses
<1> DEFINE Goal == LossInv' /\ losses' \in Nat /\ losses' >= losses
<1>1. losses \in Nat /\ Strays \in SUBSET Workers /\ Strays' \in SUBSET Workers
  BY DEF WorkersType, Strays
<1>2. ASSUME UNCHANGED losses, Strays' \subseteq Strays PROVE Goal
  <2>1. Cardinality(Strays') <= Cardinality(Strays) /\ Cardinality(Strays') \in Nat
        /\ Cardinality(Strays) \in Nat
    BY <1>1, <1>2, Sizes
  <2> QED
    BY <1>1, <1>2, <2>1 DEF LossInv
<1>3. ASSUME UNCHANGED <<worker, process>> PROVE Goal
  BY <1>2, <1>3 DEF process, Strays
<1>4. ASSUME NEW w \in Workers, NEW run, SetRun(w, run), UNCHANGED <<holder, losses>> PROVE Goal
  BY <1>2, <1>4, RunChanges DEF Strays
<1>5. ASSUME NEW w \in Workers, EnqueueEventAlerts(w) PROVE Goal
  BY <1>3, <1>5 DEF EnqueueEventAlerts
<1>6. ASSUME NEW w \in Workers, Delivery(w) \/ AttemptNotRecorded(w) PROVE Goal
  <2>1. UNCHANGED <<holder, losses>> /\ \E run : SetRun(w, run)
    BY <1>6 DEF Delivery, BeginDelivery, Send, RecordAttempt, EndDelivery, AttemptNotRecorded, process
  <2> QED
    BY <1>4, <2>1
<1>7. ASSUME NEW w \in Workers, Process(w) \/ Signal(w) PROVE Goal
  <2>1. PICK phase : worker' = [worker EXCEPT ![w].phase = phase]
    BY <1>7 DEF Process, Start, WatchLock, RecordStop, ReleaseAndExit, Signal
  <2>2. worker'[w].phase = phase /\ \A v \in Workers \ {w} : worker'[v] = worker[v]
    BY <2>1, RunKept
  <2>3. CASE Start(w)
    BY <1>2, <2>2, <2>3, NoneAssumption DEF Start, Strays
  <2>4. CASE WatchLock(w) \/ Signal(w) \/ RecordStop(w)
    <3>1. worker[w].phase # "down" /\ UNCHANGED <<holder, losses>>
      BY <2>4 DEF WatchLock, Signal, RecordStop, Running, process
    <3> QED
      BY <1>2, <2>2, <3>1 DEF Strays
  <2>5. CASE ReleaseAndExit(w)
    <3>1. /\ worker' = [worker EXCEPT ![w].phase = "down"] /\ UNCHANGED losses
          /\ holder' = IF holder = w THEN None ELSE holder
      BY <2>5 DEF ReleaseAndExit
    <3>2. worker'[w].phase = "down"
      BY <3>1, RunKept
    <3> QED
      BY <1>2, <2>2, <3>1, <3>2 DEF Strays
  <2> QED
    BY <1>7, <2>3, <2>4, <2>5 DEF Process
<1>8. ASSUME NEW w \in Workers, Crash(w) PROVE Goal
  <2> DEFINE q == [phase |-> "down", run |-> None]
  <2>1. worker' = [worker EXCEPT ![w] = q] /\ UNCHANGED <<holder, losses>> /\ q.phase = "down"
    BY <1>8 DEF Crash
  <2> HIDE DEF q
  <2>2. worker'[w].phase = "down" /\ \A v \in Workers \ {w} : worker'[v] = worker[v]
    BY <2>1 DEF WorkersType
  <2> QED
    BY <1>2, <2>1, <2>2 DEF Strays
<1>9. CASE DropSession
  <2>1. UNCHANGED worker /\ holder' = None
    BY <1>9 DEF DropSession
  <2>2. CASE worker[holder].phase = "down" /\ UNCHANGED losses
    BY <1>2, <2>1, <2>2 DEF Strays
  <2>3. CASE losses' = losses + 1
    <3>1. Strays' \subseteq Strays \union {holder}
      BY <2>1 DEF Strays
    <3>2. IsFiniteSet(Strays \union {holder})
      BY <1>1, Sizes, FS_AddElement
    <3>3. Cardinality(Strays') <= Cardinality(Strays \union {holder})
          /\ Cardinality(Strays \union {holder}) \in Nat /\ Cardinality(Strays') \in Nat
      BY <1>1, <3>1, <3>2, FS_Subset, FS_CardinalityType
    <3>4. Cardinality(Strays \union {holder}) <= Cardinality(Strays) + 1 /\ Cardinality(Strays) \in Nat
      BY <1>1, Sizes
    <3> QED
      BY <1>1, <2>3, <3>3, <3>4 DEF LossInv
  <2> QED
    BY <1>9, <2>2, <2>3 DEF DropSession
<1>10. CASE Tick \/ (\E a \in Alerts : RecordEvent(a)) \/ (\E i \in DOMAIN events : CommitEvent(i))
  BY <1>3, <1>10 DEF Tick, RecordEvent, CommitEvent
<1>11. CASE UNCHANGED vars
  BY <1>3, <1>11 DEF vars, process
<1> QED
  BY <1>5, <1>6, <1>7, <1>8, <1>9, <1>10, <1>11 DEF Next

(***************************************************************************)
(* The rows a run takes are in the outbox, due and not settled.            *)
(***************************************************************************)
LEMMA DueRows ==
  ASSUME OutboxType
  PROVE  /\ DueAlerts \in SUBSET Nat /\ DueAlerts \subseteq DOMAIN outbox
         /\ \A k \in DOMAIN outbox : outbox[k].alert \in Alerts /\ outbox[k].created \in Nat
         /\ \A k \in DueAlerts : IsDue(outbox[k])
<1>1. DOMAIN outbox = 1..Len(outbox) /\ Len(outbox) \in Nat
      /\ \A k \in DOMAIN outbox : outbox[k] \in OutboxRows
  BY DEF OutboxType
<1> QED
  BY <1>1 DEF DueAlerts, OutboxRows

(***************************************************************************)
(* What a run attempts is one of its rows.                                 *)
(***************************************************************************)
LEMMA AttemptedRow ==
  ASSUME OutboxType, NEW due \in SUBSET (DOMAIN outbox), due # {}
  PROVE  Oldest(due) \in due /\ outbox[Oldest(due)].alert \in Alerts
<1>1. DOMAIN outbox = 1..Len(outbox) /\ Len(outbox) \in Nat
      /\ \A k \in DOMAIN outbox : outbox[k] \in OutboxRows
  BY DEF OutboxType
<1>2. Min(due) \in due
  BY <1>1, Extremes
<1> QED
  BY <1>1, <1>2 DEF Oldest, OutboxRows

(***************************************************************************)
(* One row more is still rows.                                             *)
(***************************************************************************)
LEMMA RowType ==
  ASSUME NEW row \in AttemptRows, NEW instant \in Nat
  PROVE  /\ Delivered(row) \in AttemptRows /\ Delivered(row).delivered = row.delivered + 1
         /\ Delivered(row).expired = row.expired
         /\ Failed(row, instant) \in AttemptRows /\ Failed(row, instant).delivered = row.delivered
         /\ Failed(row, instant).expired = row.expired
<1>1. /\ row.delivered + 1 \in Nat /\ row.failed + 1 \in Nat
  BY DEF AttemptRows
<1> QED
  BY <1>1 DEF Delivered, Failed, AttemptRows

(***************************************************************************)
(* RecordAttempt adds the row of the answer.                               *)
(***************************************************************************)
LEMMA RecordedRow ==
  ASSUME NEW w, RecordAttempt(w)
  PROVE  /\ worker[w].run.answer = "DELIVERED" => attempts' = [attempts EXCEPT ![Attempted(w)] = Delivered(@)]
         /\ worker[w].run.answer # "DELIVERED" =>
              attempts' = [attempts EXCEPT ![Attempted(w)] = Failed(@, worker[w].run.instant)]
BY DEF RecordAttempt

(***************************************************************************)
(* The outbox only grows, by alerts that have no row.                      *)
(***************************************************************************)
LEMMA OutboxGrows ==
  ASSUME OutboxType, NEW w, EnqueueEventAlerts(w)
  PROVE  /\ outbox' \in Seq(OutboxRows) /\ KeyUnique(outbox') /\ DOMAIN outbox \subseteq DOMAIN outbox'
         /\ \A k \in DOMAIN outbox : outbox'[k] = outbox[k]
<1> DEFINE rows == Inserted
           old == Len(outbox)
<1>1. NewRows(Scan, DOMAIN events, rows)
  BY InsertedRows DEF OutboxType
<1>2. /\ rows \in Seq(OutboxRows) /\ KeyUnique(rows) /\ outbox \in Seq(OutboxRows) /\ KeyUnique(outbox)
      /\ \A k \in DOMAIN rows : rows[k].alert \notin Enqueued
  BY <1>1 DEF NewRows, Scan, OutboxType
<1>3. outbox' = outbox \o rows
  BY DEF EnqueueEventAlerts
<1> HIDE DEF rows
<1>4. /\ outbox' \in Seq(OutboxRows) /\ old \in Nat /\ DOMAIN outbox = 1..old
      /\ Len(rows) \in Nat /\ DOMAIN rows = 1..Len(rows) /\ DOMAIN outbox' = 1..(old + Len(rows))
      /\ \A k \in 1..old : outbox'[k] = outbox[k]
      /\ \A k \in (old + 1)..(old + Len(rows)) : outbox'[k] = rows[k - old] /\ k - old \in 1..Len(rows)
  BY <1>2, <1>3
<1> HIDE DEF old
<1>5. ASSUME NEW j \in DOMAIN outbox', NEW k \in DOMAIN outbox', outbox'[j].alert = outbox'[k].alert
      PROVE  j = k
  <2>1. \A i \in DOMAIN outbox' : i \in 1..old \/ i \in (old + 1)..(old + Len(rows))
    BY <1>4
  <2>2. CASE j \in 1..old /\ k \in 1..old
    BY <1>2, <1>4, <1>5, <2>2 DEF KeyUnique
  <2>3. CASE j \in (old + 1)..(old + Len(rows)) /\ k \in (old + 1)..(old + Len(rows))
    <3>1. rows[j - old].alert = rows[k - old].alert /\ j - old \in DOMAIN rows /\ k - old \in DOMAIN rows
      BY <1>4, <1>5, <2>3
    <3>2. j - old = k - old
      BY <1>2, <3>1 DEF KeyUnique
    <3> QED
      BY <1>4, <2>3, <3>2
  <2>4. \A i \in 1..old, l \in (old + 1)..(old + Len(rows)) : outbox'[i].alert # outbox'[l].alert
    <3>1. \A i \in 1..old : outbox'[i].alert \in Enqueued
      BY <1>4 DEF Enqueued
    <3>2. \A l \in (old + 1)..(old + Len(rows)) : outbox'[l].alert \notin Enqueued
      BY <1>2, <1>4
    <3> QED
      BY <3>1, <3>2
  <2> QED
    BY <1>5, <2>1, <2>2, <2>3, <2>4
<1>6. KeyUnique(outbox')
  BY <1>5 DEF KeyUnique
<1> QED
  BY <1>4, <1>6

(***************************************************************************)
(* Types, and what the runs are over.                                      *)
(***************************************************************************)
LEMMA TypesStep ==
  ASSUME WorkersType, OutboxType, RunsInv, [Next]_vars
  PROVE  OutboxType' /\ RunsInv'
<1> DEFINE Goal == OutboxType' /\ RunsInv'
<1>1. ASSUME UNCHANGED <<now, queue, attempts>>, RunsInv' PROVE Goal
  BY <1>1 DEF queue, OutboxType
<1>2. ASSUME UNCHANGED outbox, NEW w \in Workers, \A v \in Workers \ {w} : worker'[v] = worker[v],
             worker'[w].run # None =>
               /\ worker'[w].phase # "down" /\ worker'[w].run \in Runs
               /\ worker'[w].run.due \subseteq DOMAIN outbox
               /\ worker'[w].run.answer # None => worker'[w].run.due # {}
      PROVE  RunsInv'
  BY <1>2 DEF RunsInv, Free
<1>3. CASE Tick
  <2>1. UNCHANGED <<worker, events, outbox, attempts>> /\ now' \in Nat
    BY <1>3 DEF Tick, queue, OutboxType
  <2> QED
    BY <2>1 DEF OutboxType, RunsInv, Free
<1>4. CASE (\E a \in Alerts : RecordEvent(a)) \/ (\E i \in DOMAIN events : CommitEvent(i))
  <2>1. UNCHANGED <<worker, outbox, attempts, now>>
    BY <1>4 DEF RecordEvent, CommitEvent
  <2>2. ASSUME NEW a \in Alerts, RecordEvent(a) PROVE events' \in Seq(Recorded)
    <3> DEFINE e == [alert |-> a, at |-> now, committed |-> FALSE]
    <3>1. e \in Recorded /\ events' = Append(events, e) /\ events \in Seq(Recorded)
      BY <2>2 DEF RecordEvent, Recorded, OutboxType
    <3> HIDE DEF e
    <3> QED
      BY <3>1
  <2>3. ASSUME NEW i \in DOMAIN events, CommitEvent(i) PROVE events' \in Seq(Recorded)
    <3> DEFINE e == [events[i] EXCEPT !.committed = TRUE]
    <3>1. events \in Seq(Recorded) /\ events[i] \in Recorded
      BY DEF OutboxType
    <3>2. e \in Recorded
      BY <3>1 DEF Recorded
    <3>3. events' = [events EXCEPT ![i] = e]
      BY <2>3 DEF CommitEvent
    <3> HIDE DEF e
    <3> QED
      BY <3>1, <3>2, <3>3
  <2>4. events' \in Seq(Recorded)
    BY <1>4, <2>2, <2>3
  <2> QED
    BY <2>1, <2>4 DEF OutboxType, RunsInv, Free
<1>5. ASSUME NEW w \in Workers, EnqueueEventAlerts(w) PROVE Goal
  <2>1. UNCHANGED <<now, events, attempts, worker>>
    BY <1>5 DEF EnqueueEventAlerts
  <2>2. outbox' \in Seq(OutboxRows) /\ KeyUnique(outbox') /\ DOMAIN outbox \subseteq DOMAIN outbox'
    BY <1>5, OutboxGrows
  <2> QED
    BY <2>1, <2>2 DEF OutboxType, RunsInv, Free
<1>6. ASSUME NEW w \in Workers, BeginDelivery(w) PROVE Goal
  <2> DEFINE run == [instant |-> now, due |-> DueAlerts, answer |-> None]
  <2>1. run \in Runs /\ run.due \subseteq DOMAIN outbox /\ run.answer = None
    BY DueRows DEF Runs, OutboxType
  <2>2. SetRun(w, run) /\ UNCHANGED <<now, queue>> /\ worker[w].phase # "down"
    BY <1>6 DEF BeginDelivery, Running
  <2> HIDE DEF run
  <2>3. worker'[w].run = run /\ worker'[w].phase = worker[w].phase
        /\ \A v \in Workers \ {w} : worker'[v] = worker[v]
    BY <2>2, RunChanges
  <2>4. RunsInv'
    BY <1>2, <2>1, <2>2, <2>3 DEF queue
  <2>5. attempts' \in [Alerts -> AttemptRows]
    <3>1. attempts \in [Alerts -> AttemptRows]
      BY DEF OutboxType
    <3>2. \A a \in Alerts : [attempts[a] EXCEPT !.expired = @ + 1] \in AttemptRows
      BY <3>1 DEF AttemptRows
    <3>3. attempts' = [a \in Alerts |->
            IF \E k \in DOMAIN outbox : outbox[k].alert = a /\ Expires(outbox[k])
            THEN [attempts[a] EXCEPT !.expired = @ + 1] ELSE attempts[a]]
      BY <1>6 DEF BeginDelivery
    <3> QED
      BY <3>1, <3>2, <3>3
  <2> QED
    BY <2>2, <2>4, <2>5 DEF OutboxType, queue
<1>7. ASSUME NEW w \in Workers, Send(w) PROVE Goal
  <2>1. PICK answer \in {"DELIVERED", "FAILED"} : SetRun(w, [worker[w].run EXCEPT !.answer = answer])
    BY <1>7 DEF Send
  <2> DEFINE run == [worker[w].run EXCEPT !.answer = answer]
  <2>2. /\ worker[w].phase # "down" /\ worker[w].run \in Runs /\ worker[w].run.due # {}
        /\ worker[w].run.due \subseteq DOMAIN outbox /\ UNCHANGED <<now, queue, attempts>>
    BY <1>7 DEF Send, RunsInv
  <2>3. run \in Runs /\ run.due = worker[w].run.due
    BY <2>2 DEF Runs
  <2> HIDE DEF run
  <2>4. worker'[w].run = run /\ worker'[w].phase = worker[w].phase
        /\ \A v \in Workers \ {w} : worker'[v] = worker[v]
    BY <2>1, RunChanges DEF run
  <2>5. RunsInv'
    BY <1>2, <2>2, <2>3, <2>4 DEF queue
  <2> QED
    BY <1>1, <2>2, <2>5
<1>8. ASSUME NEW w \in Workers, RecordAttempt(w) PROVE Goal
  <2> DEFINE due == worker[w].run.due
             run == [worker[w].run EXCEPT !.due = @ \ {Oldest(@)}, !.answer = None]
  <2>1. /\ worker[w].phase # "down" /\ worker[w].run \in Runs /\ due # {}
        /\ due \subseteq DOMAIN outbox /\ UNCHANGED <<now, queue>>
    BY <1>8 DEF RecordAttempt, RunsInv
  <2>2. run \in Runs /\ run.due \subseteq DOMAIN outbox /\ run.answer = None
    BY <2>1 DEF Runs
  <2>3. SetRun(w, run)
    BY <1>8 DEF RecordAttempt
  <2> HIDE DEF run
  <2>4. worker'[w].run = run /\ worker'[w].phase = worker[w].phase
        /\ \A v \in Workers \ {w} : worker'[v] = worker[v]
    BY <2>3, RunChanges
  <2>5. RunsInv'
    BY <1>2, <2>1, <2>2, <2>4 DEF queue
  <2>6. attempts' \in [Alerts -> AttemptRows]
    <3>1. Attempted(w) \in Alerts
      BY <2>1, AttemptedRow DEF Attempted
    <3>2. attempts \in [Alerts -> AttemptRows] /\ worker[w].run.instant \in Nat
      BY <2>1 DEF OutboxType, Runs
    <3>3. /\ worker[w].run.answer = "DELIVERED" => attempts' = [attempts EXCEPT ![Attempted(w)] = Delivered(@)]
          /\ worker[w].run.answer # "DELIVERED" =>
               attempts' = [attempts EXCEPT ![Attempted(w)] = Failed(@, worker[w].run.instant)]
      BY <1>8, RecordedRow
    <3>4. attempts[Attempted(w)] \in AttemptRows
      BY <3>1, <3>2
    <3>5. /\ Delivered(attempts[Attempted(w)]) \in AttemptRows
          /\ Failed(attempts[Attempted(w)], worker[w].run.instant) \in AttemptRows
      BY <3>2, <3>4, RowType
    <3> QED
      BY <3>1, <3>2, <3>3, <3>5
  <2> QED
    BY <2>1, <2>5, <2>6 DEF OutboxType, queue
<1>9. ASSUME NEW w \in Workers, EndDelivery(w) \/ AttemptNotRecorded(w) PROVE Goal
  <2>1. SetRun(w, None) /\ UNCHANGED <<now, queue, attempts>>
    BY <1>9 DEF EndDelivery, AttemptNotRecorded
  <2>2. worker'[w].run = None /\ \A v \in Workers \ {w} : worker'[v] = worker[v]
    BY <2>1, RunChanges
  <2>3. RunsInv'
    BY <1>2, <2>1, <2>2 DEF queue
  <2> QED
    BY <1>1, <2>1, <2>3
<1>10. ASSUME NEW w \in Workers, Process(w) \/ Signal(w) PROVE Goal
  <2>1. PICK phase : worker' = [worker EXCEPT ![w].phase = phase] /\ UNCHANGED <<now, queue, attempts>>
                     /\ (phase = "down" => Free(w))
    BY <1>10 DEF Process, Start, WatchLock, RecordStop, ReleaseAndExit, Signal, process
  <2>2. worker'[w].phase = phase /\ worker'[w].run = worker[w].run
        /\ \A v \in Workers \ {w} : worker'[v] = worker[v]
    BY <2>1, RunKept
  <2>3. RunsInv'
    BY <1>2, <2>1, <2>2 DEF queue, RunsInv, Free
  <2> QED
    BY <1>1, <2>1, <2>3
<1>11. ASSUME NEW w \in Workers, Crash(w) PROVE Goal
  <2> DEFINE q == [phase |-> "down", run |-> None]
  <2>1. worker' = [worker EXCEPT ![w] = q] /\ UNCHANGED <<now, queue, attempts>> /\ q.run = None
    BY <1>11 DEF Crash
  <2> HIDE DEF q
  <2>2. worker'[w].run = None /\ \A v \in Workers \ {w} : worker'[v] = worker[v]
    BY <2>1 DEF WorkersType
  <2>3. RunsInv'
    BY <1>2, <2>1, <2>2 DEF queue
  <2> QED
    BY <1>1, <2>1, <2>3
<1>12. CASE DropSession \/ UNCHANGED vars
  <2>1. UNCHANGED <<now, queue, attempts, worker>>
    BY <1>12 DEF DropSession, vars, queue
  <2>2. RunsInv'
    BY <2>1 DEF queue, RunsInv, Free
  <2> QED
    BY <1>1, <2>1, <2>2
<1> QED
  BY <1>3, <1>4, <1>5, <1>6, <1>7, <1>8, <1>9, <1>10, <1>11, <1>12 DEF Next, Delivery

(***************************************************************************)
(* A step keeps the workers typed, whoever holds the lock.                 *)
(***************************************************************************)
LEMMA WorkersStep ==
  ASSUME WorkersType, [Next]_vars
  PROVE  WorkersType'
<1>1. ASSUME UNCHANGED worker, losses' \in Nat PROVE WorkersType'
  BY <1>1 DEF WorkersType
<1>2. ASSUME NEW w \in Workers, NEW phase \in Phases, UNCHANGED losses,
             worker' = [worker EXCEPT ![w].phase = phase]
      PROVE  WorkersType'
  BY <1>2, PhaseChanges DEF WorkersType
<1>3. ASSUME NEW w \in Workers, EnqueueEventAlerts(w) PROVE WorkersType'
  BY <1>1, <1>3 DEF EnqueueEventAlerts, process, WorkersType
<1>4. ASSUME NEW w \in Workers, Delivery(w) \/ AttemptNotRecorded(w) PROVE WorkersType'
  <2>1. UNCHANGED losses /\ \E run : SetRun(w, run)
    BY <1>4 DEF Delivery, BeginDelivery, Send, RecordAttempt, EndDelivery, AttemptNotRecorded, process
  <2> QED
    BY <2>1, RunKeepsPhase
<1>5. ASSUME NEW w \in Workers, Process(w) \/ Signal(w) PROVE WorkersType'
  <2>1. UNCHANGED losses /\ \E phase \in Phases : worker' = [worker EXCEPT ![w].phase = phase]
    BY <1>5 DEF Process, Start, WatchLock, RecordStop, ReleaseAndExit, Signal, process, Phases
  <2> QED
    BY <1>2, <2>1
<1>6. ASSUME NEW w \in Workers, Crash(w) PROVE WorkersType'
  <2> DEFINE q == [phase |-> "down", run |-> None]
  <2>1. q \in [phase : Phases, run : {q.run}]
    BY DEF Phases
  <2>2. worker' = [worker EXCEPT ![w] = q] /\ UNCHANGED losses
    BY <1>6 DEF Crash
  <2> HIDE DEF q
  <2> QED
    BY <2>1, <2>2, WorkerChanges DEF WorkersType
<1>7. CASE Tick \/ (\E a \in Alerts : RecordEvent(a)) \/ (\E i \in DOMAIN events : CommitEvent(i))
           \/ UNCHANGED vars
  BY <1>1, <1>7 DEF Tick, RecordEvent, CommitEvent, vars, process, WorkersType
<1>8. CASE DropSession
  <2>1. UNCHANGED worker /\ (losses' = losses \/ losses' = losses + 1)
    BY <1>8 DEF DropSession
  <2> QED
    BY <1>1, <2>1 DEF WorkersType
<1> QED
  BY <1>3, <1>4, <1>5, <1>6, <1>7, <1>8 DEF Next

\* The rows that settle an alert.
Settles(a) == attempts[a].expired + attempts[a].delivered

(***************************************************************************)
(* What settles an alert is a number.                                      *)
(***************************************************************************)
LEMMA SettlesType ==
  ASSUME OutboxType, NEW a \in Alerts
  PROVE  /\ Settles(a) \in Nat /\ attempts[a].expired \in Nat /\ attempts[a].delivered \in Nat
         /\ ~Settled(attempts[a]) => Settles(a) = 0
<1>1. attempts[a] \in AttemptRows
  BY DEF OutboxType
<1> QED
  BY <1>1 DEF AttemptRows, Settles, Settled

(***************************************************************************)
(* A run begins with alerts that nothing settles yet.                      *)
(***************************************************************************)
LEMMA BeginSpent ==
  ASSUME OnceInv, NEW w \in Workers, BeginDelivery(w), NEW a \in Alerts,
         losses' = losses
  PROVE  Settles(a)' + Cardinality(Carriers(a)') <= 1 + losses
<1> DEFINE run == [instant |-> now, due |-> DueAlerts, answer |-> None]
           old == \E k \in DOMAIN outbox : outbox[k].alert = a /\ Expires(outbox[k])
           taken == \E k \in DueAlerts : outbox[k].alert = a
<1>1. /\ worker'[w].run = run /\ run.due = DueAlerts
      /\ \A v \in Workers \ {w} : worker'[v] = worker[v]
  BY RunChanges DEF BeginDelivery, OnceInv
<1>2. UNCHANGED outbox /\ worker[w].phase # "down" /\ Free(w)
  BY DEF BeginDelivery, queue, Running
<1> HIDE DEF run
<1>3. Carriers(a)' \subseteq Carriers(a) \union {w} /\ (~taken => Carriers(a)' \subseteq Carriers(a))
  BY <1>1, <1>2 DEF Carriers, Free
<1>4. /\ Carriers(a) \in SUBSET Workers /\ Carriers(a)' \in SUBSET Workers
  BY DEF Carriers
<1>5. Cardinality(Carriers(a)) \in Nat /\ Cardinality(Carriers(a)) <= losses /\ losses \in Nat
  BY <1>2, FewCarriers DEF OnceInv, WorkersType
<1>6. /\ Cardinality(Carriers(a)') \in Nat /\ Cardinality(Carriers(a)') <= 1 + losses
      /\ ~taken => Cardinality(Carriers(a)') <= Cardinality(Carriers(a))
  <2>1. IsFiniteSet(Carriers(a) \union {w}) /\ Cardinality(Carriers(a) \union {w}) \in Nat
        /\ Cardinality(Carriers(a) \union {w}) <= Cardinality(Carriers(a)) + 1
    BY <1>4, Sizes, FS_AddElement, FS_CardinalityType
  <2>2. Cardinality(Carriers(a)') <= Cardinality(Carriers(a) \union {w})
    BY <1>3, <2>1, FS_Subset
  <2>3. Cardinality(Carriers(a)') \in Nat
    BY <1>4, Sizes
  <2>4. ~taken => Cardinality(Carriers(a)') <= Cardinality(Carriers(a))
    BY <1>3, <1>4, Sizes
  <2> QED
    BY <1>5, <2>1, <2>2, <2>3, <2>4
<1>7. attempts'[a] = IF old THEN [attempts[a] EXCEPT !.expired = @ + 1] ELSE attempts[a]
  BY DEF BeginDelivery
<1>8. Settles(a) \in Nat /\ (~Settled(attempts[a]) => Settles(a) = 0)
  BY SettlesType DEF OnceInv
<1>9. CASE old
  <2>1. PICK k \in DOMAIN outbox : outbox[k].alert = a /\ Expires(outbox[k])
    BY <1>9
  <2>2. ~Settled(attempts[a]) /\ outbox[k].created + AlertExpiry < now
    BY <2>1 DEF Expires
  <2>3. Settles(a)' = 1
    <3>1. attempts[a] \in AttemptRows
      BY DEF OnceInv, OutboxType
    <3>2. attempts'[a].expired = attempts[a].expired + 1 /\ attempts'[a].delivered = attempts[a].delivered
      BY <1>7, <1>9, <3>1 DEF AttemptRows
    <3>3. attempts[a].expired \in Nat /\ attempts[a].delivered \in Nat
      BY SettlesType DEF OnceInv
    <3> QED
      BY <1>8, <2>2, <3>2, <3>3 DEF Settles
  <2>4. ~taken
    <3>1. SUFFICES ASSUME NEW j \in DueAlerts, outbox[j].alert = a PROVE FALSE
      OBVIOUS
    <3>2. j = k
      BY <2>1, <3>1, DueRows DEF OnceInv, OutboxType, KeyUnique
    <3>3. outbox[k].created + AlertExpiry >= now
      BY <3>1, <3>2, DueRows DEF OnceInv, IsDue
    <3>4. outbox[k].created \in Nat /\ AlertExpiry \in Nat /\ now \in Nat
      BY DueRows, OrderAssumption DEF OnceInv, OutboxType
    <3> QED
      BY <2>2, <3>3, <3>4
  <2> QED
    BY <1>5, <1>6, <2>3, <2>4
<1>10. CASE ~old
  <2>1. Settles(a)' = Settles(a)
    BY <1>7, <1>10 DEF Settles
  <2>2. CASE taken
    <3>1. PICK k \in DueAlerts : outbox[k].alert = a
      BY <2>2
    <3>2. ~Settled(attempts[a])
      BY <3>1, DueRows DEF OnceInv, IsDue
    <3> QED
      BY <1>5, <1>6, <1>8, <2>1, <3>2
  <2>3. CASE ~taken
    <3>1. Settles(a) + Cardinality(Carriers(a)) <= 1 + losses
      BY DEF OnceInv, SpentInv, Settles
    <3> QED
      BY <1>5, <1>6, <1>8, <2>1, <2>3, <3>1
  <2> QED
    BY <2>2, <2>3
<1> QED
  BY <1>9, <1>10

(***************************************************************************)
(* An attempt's row takes the alert from its run.                          *)
(***************************************************************************)
LEMMA RecordSpent ==
  ASSUME OnceInv, NEW w \in Workers, RecordAttempt(w), NEW a \in Alerts
  PROVE  Settles(a)' + Cardinality(Carriers(a)') <= Settles(a) + Cardinality(Carriers(a))
<1> DEFINE due == worker[w].run.due
           run == [worker[w].run EXCEPT !.due = @ \ {Oldest(@)}, !.answer = None]
           c == Attempted(w)
<1>1. /\ worker[w].run \in Runs /\ due \in SUBSET (DOMAIN outbox) /\ due # {} /\ ~Free(w)
  BY DEF RecordAttempt, OnceInv, RunsInv
<1>2. Oldest(due) \in due /\ c \in Alerts /\ c = outbox[Oldest(due)].alert
  BY <1>1, AttemptedRow DEF OnceInv, Attempted
<1>3. run.due = due \ {Oldest(due)}
  BY <1>1 DEF Runs
<1>4. SetRun(w, run) /\ UNCHANGED outbox
  BY DEF RecordAttempt, queue
<1> HIDE DEF run
<1>5. worker'[w].run = run /\ \A v \in Workers \ {w} : worker'[v] = worker[v]
  BY <1>4, RunChanges DEF OnceInv
<1>6. Carriers(a)' \subseteq Carriers(a)
  BY <1>1, <1>3, <1>4, <1>5 DEF Carriers, Free
<1>7. c = a => w \in Carriers(a) /\ w \notin Carriers(a)'
  <2>1. ASSUME c = a, NEW k \in run.due PROVE outbox[k].alert # a
    <3>1. k \in DOMAIN outbox /\ k # Oldest(due) /\ Oldest(due) \in DOMAIN outbox
      BY <1>1, <1>2, <1>3, <2>1
    <3> QED
      BY <1>2, <2>1, <3>1 DEF OnceInv, OutboxType, KeyUnique
  <2> QED
    BY <1>1, <1>2, <1>4, <1>5, <2>1 DEF Carriers
<1>8. /\ Carriers(a) \in SUBSET Workers /\ Cardinality(Carriers(a)) \in Nat
      /\ Cardinality(Carriers(a)') \in Nat /\ Cardinality(Carriers(a)') <= Cardinality(Carriers(a))
      /\ c = a => Cardinality(Carriers(a)') <= Cardinality(Carriers(a)) - 1
  <2>1. Carriers(a) \in SUBSET Workers
    BY DEF Carriers
  <2>2. ASSUME c = a PROVE Cardinality(Carriers(a)') <= Cardinality(Carriers(a)) - 1
    <3>1. Carriers(a) \ {w} \in SUBSET Workers /\ Carriers(a)' \in SUBSET (Carriers(a) \ {w})
      BY <1>6, <1>7, <2>1, <2>2
    <3>2. Cardinality(Carriers(a) \ {w}) = Cardinality(Carriers(a)) - 1
      BY <1>7, <2>1, <2>2, Sizes
    <3>3. Cardinality(Carriers(a)') <= Cardinality(Carriers(a) \ {w})
      BY <3>1, Sizes
    <3> QED
      BY <3>2, <3>3
  <2> QED
    BY <1>6, <2>1, <2>2, Sizes
<1>9. Settles(a)' = Settles(a) \/ (c = a /\ Settles(a)' = Settles(a) + 1)
  <2>1. attempts \in [Alerts -> AttemptRows] /\ worker[w].run.instant \in Nat
    BY <1>1 DEF OnceInv, OutboxType, Runs
  <2>2. CASE worker[w].run.answer = "DELIVERED"
    <3>1. attempts' = [attempts EXCEPT ![c] = Delivered(@)]
      BY <2>2, RecordedRow
    <3>2. attempts'[a] = IF c = a THEN Delivered(attempts[a]) ELSE attempts[a]
      BY <1>2, <2>1, <3>1
    <3>3. /\ Delivered(attempts[a]).delivered = attempts[a].delivered + 1
          /\ Delivered(attempts[a]).expired = attempts[a].expired
          /\ attempts[a].delivered \in Nat /\ attempts[a].expired \in Nat
      BY <2>1, RowType, SettlesType DEF OnceInv
    <3> QED
      BY <3>2, <3>3 DEF Settles
  <2>3. CASE worker[w].run.answer # "DELIVERED"
    <3> DEFINE at == worker[w].run.instant
    <3>1. attempts' = [attempts EXCEPT ![c] = Failed(@, at)]
      BY <2>3, RecordedRow
    <3> HIDE DEF at
    <3>2. attempts'[a] = IF c = a THEN Failed(attempts[a], at) ELSE attempts[a]
      BY <1>2, <2>1, <3>1
    <3>3. /\ Failed(attempts[a], at).delivered = attempts[a].delivered
          /\ Failed(attempts[a], at).expired = attempts[a].expired
      BY <2>1, RowType DEF at
    <3> QED
      BY <3>2, <3>3 DEF Settles
  <2> QED
    BY <2>2, <2>3
<1>10. Settles(a) \in Nat
  BY SettlesType DEF OnceInv
<1> QED
  BY <1>8, <1>9, <1>10

(***************************************************************************)
(* The invariant is inductive.                                             *)
(***************************************************************************)
LEMMA OnceStep ==
  ASSUME OnceInv, [Next]_vars
  PROVE  OnceInv'
<1>1. WorkersType' /\ OutboxType' /\ RunsInv' /\ LossInv' /\ losses' \in Nat /\ losses' >= losses
  <2>1. WorkersType'
    BY WorkersStep DEF OnceInv
  <2> QED
    BY <2>1, TypesStep, LossStep DEF OnceInv
<1>2. SUFFICES ASSUME NEW a \in Alerts
               PROVE  Settles(a)' + Cardinality(Carriers(a)') <= 1 + losses'
  BY <1>1 DEF OnceInv, SpentInv, Settles
<1>3. /\ Settles(a) \in Nat /\ losses \in Nat /\ Cardinality(Carriers(a)) \in Nat
      /\ Settles(a) + Cardinality(Carriers(a)) <= 1 + losses
      /\ Carriers(a) \in SUBSET Workers
  BY SettlesType, FewCarriers DEF OnceInv, SpentInv, Settles, WorkersType, Carriers
<1> DEFINE Goal == Settles(a)' + Cardinality(Carriers(a)') <= 1 + losses'
<1>4. ASSUME UNCHANGED attempts, Carriers(a)' \subseteq Carriers(a) PROVE Goal
  <2>1. Cardinality(Carriers(a)') <= Cardinality(Carriers(a)) /\ Cardinality(Carriers(a)') \in Nat
    BY <1>3, <1>4, Sizes
  <2>2. Settles(a)' = Settles(a)
    BY <1>4 DEF Settles
  <2> QED
    BY <1>1, <1>3, <2>1, <2>2
<1>5. ASSUME UNCHANGED <<attempts, outbox>>, NEW w \in Workers,
             \A v \in Workers \ {w} : worker'[v] = worker[v],
             worker'[w].run # None =>
               worker[w].run # None /\ worker'[w].run.due \subseteq worker[w].run.due
      PROVE  Goal
  <2>1. Carriers(a)' \subseteq Carriers(a)
    BY <1>5 DEF Carriers, Free
  <2> QED
    BY <1>4, <1>5, <2>1
<1>6. CASE UNCHANGED <<attempts, outbox, worker>>
  <2>1. Carriers(a)' = Carriers(a)
    BY <1>6 DEF Carriers, Free
  <2> QED
    BY <1>4, <1>6, <2>1
<1>7. ASSUME NEW w \in Workers, EnqueueEventAlerts(w) PROVE Goal
  <2>1. UNCHANGED <<attempts, worker>> /\ \A k \in DOMAIN outbox : outbox'[k] = outbox[k]
    BY <1>7, OutboxGrows DEF EnqueueEventAlerts, OnceInv
  <2>2. Carriers(a)' \subseteq Carriers(a)
    BY <2>1 DEF Carriers, Free, OnceInv, RunsInv
  <2> QED
    BY <1>4, <2>1, <2>2
<1>8. ASSUME NEW w \in Workers, BeginDelivery(w) PROVE Goal
  <2>1. losses' = losses
    BY <1>8 DEF BeginDelivery, process
  <2> QED
    BY <1>8, <2>1, BeginSpent
<1>9. ASSUME NEW w \in Workers, Send(w) PROVE Goal
  <2>1. PICK answer : SetRun(w, [worker[w].run EXCEPT !.answer = answer])
    BY <1>9 DEF Send
  <2> DEFINE run == [worker[w].run EXCEPT !.answer = answer]
  <2>2. worker[w].run \in Runs /\ worker[w].run # None /\ UNCHANGED <<attempts, outbox>>
    BY <1>9 DEF Send, OnceInv, RunsInv, Free, queue
  <2>3. run.due = worker[w].run.due
    BY <2>2 DEF Runs
  <2> HIDE DEF run
  <2>4. worker'[w].run = run /\ \A v \in Workers \ {w} : worker'[v] = worker[v]
    BY <2>1, RunChanges DEF OnceInv, run
  <2> QED
    BY <1>5, <2>2, <2>3, <2>4
<1>10. ASSUME NEW w \in Workers, RecordAttempt(w) PROVE Goal
  <2>1. Settles(a)' + Cardinality(Carriers(a)') <= Settles(a) + Cardinality(Carriers(a))
    BY <1>10, RecordSpent
  <2>2. Settles(a)' \in Nat /\ Cardinality(Carriers(a)') \in Nat
    <3>1. attempts' \in [Alerts -> AttemptRows]
      BY <1>1 DEF OutboxType
    <3>2. attempts'[a].expired \in Nat /\ attempts'[a].delivered \in Nat
      BY <3>1 DEF AttemptRows
    <3>3. Carriers(a)' \in SUBSET Workers
      BY DEF Carriers
    <3> QED
      BY <3>2, <3>3, Sizes DEF Settles
  <2> QED
    BY <1>1, <1>3, <2>1, <2>2
<1>11. ASSUME NEW w \in Workers, EndDelivery(w) \/ AttemptNotRecorded(w) PROVE Goal
  <2>1. SetRun(w, None) /\ UNCHANGED <<attempts, outbox>>
    BY <1>11 DEF EndDelivery, AttemptNotRecorded, queue
  <2>2. worker'[w].run = None /\ \A v \in Workers \ {w} : worker'[v] = worker[v]
    BY <2>1, RunChanges DEF OnceInv
  <2> QED
    BY <1>5, <2>1, <2>2
<1>12. ASSUME NEW w \in Workers, Process(w) \/ Signal(w) PROVE Goal
  <2>1. PICK phase : worker' = [worker EXCEPT ![w].phase = phase]
    BY <1>12 DEF Process, Start, WatchLock, RecordStop, ReleaseAndExit, Signal
  <2>2. UNCHANGED <<attempts, outbox>>
    BY <1>12 DEF Process, Start, WatchLock, RecordStop, ReleaseAndExit, Signal, queue
  <2>3. worker'[w].run = worker[w].run /\ \A v \in Workers \ {w} : worker'[v] = worker[v]
    BY <2>1, RunKept DEF OnceInv
  <2> QED
    BY <1>5, <2>2, <2>3
<1>13. ASSUME NEW w \in Workers, Crash(w) PROVE Goal
  <2> DEFINE q == [phase |-> "down", run |-> None]
  <2>1. worker' = [worker EXCEPT ![w] = q] /\ UNCHANGED <<attempts, outbox>> /\ q.run = None
    BY <1>13 DEF Crash, queue
  <2> HIDE DEF q
  <2>2. worker'[w].run = None /\ \A v \in Workers \ {w} : worker'[v] = worker[v]
    BY <2>1 DEF OnceInv, WorkersType
  <2> QED
    BY <1>5, <2>1, <2>2
<1>14. CASE Tick \/ (\E e \in Alerts : RecordEvent(e)) \/ (\E i \in DOMAIN events : CommitEvent(i))
            \/ DropSession \/ UNCHANGED vars
  BY <1>6, <1>14 DEF Tick, RecordEvent, CommitEvent, DropSession, vars, queue
<1> QED
  BY <1>7, <1>8, <1>9, <1>10, <1>11, <1>12, <1>13, <1>14 DEF Next, Delivery

(***************************************************************************)
(* deliver_pending_alerts: whatever crashes, and whatever workers overlap, *)
(* an alert is settled once, and once more for each session that the       *)
(* database dropped under a worker that ran on.                            *)
(***************************************************************************)
THEOREM SettledOnce == Spec => []DuplicatesHaveACause
<1>1. Init => OnceInv
  <2> SUFFICES ASSUME Init PROVE OnceInv
    OBVIOUS
  <2>1. WorkersType /\ \A w \in Workers : worker[w].run = None /\ worker[w].phase = "down"
    BY DEF Init, WorkersType, Phases
  <2>2. OutboxType /\ losses = 0
    <3> DEFINE row == [failed |-> 0, last |-> 0, delivered |-> 0, expired |-> 0]
    <3>1. row \in AttemptRows
      BY DEF AttemptRows
    <3>2. attempts = [a \in Alerts |-> row] /\ events = <<>> /\ outbox = <<>> /\ now = 0 /\ losses = 0
      BY DEF Init
    <3> HIDE DEF row
    <3> QED
      BY <3>1, <3>2 DEF OutboxType, KeyUnique
  <2>3. Strays = {} /\ \A a \in Alerts : Carriers(a) = {}
    BY <2>1 DEF Strays, Carriers, Free
  <2>4. Cardinality({}) = 0
    BY FS_EmptySet
  <2>5. \A a \in Alerts : attempts[a].expired = 0 /\ attempts[a].delivered = 0
    BY DEF Init
  <2>6. LossInv
    <3>1. Cardinality(Strays) = 0
      BY <2>3, <2>4, Zenon
    <3> QED
      BY <2>2, <3>1 DEF LossInv
  <2>7. SpentInv
    <3>1. SUFFICES ASSUME NEW a \in Alerts
                   PROVE  attempts[a].expired + attempts[a].delivered + Cardinality(Carriers(a)) <= 1 + losses
      BY DEF SpentInv
    <3>2. Cardinality(Carriers(a)) = 0
      BY <2>3, <2>4, Zenon
    <3> QED
      BY <2>2, <2>5, <3>2
  <2> QED
    BY <2>1, <2>2, <2>6, <2>7 DEF OnceInv, RunsInv, Free
<1>2. OnceInv /\ [Next]_vars => OnceInv'
  BY OnceStep
<1>3. OnceInv => DuplicatesHaveACause
  <2> SUFFICES ASSUME OnceInv, NEW a \in Alerts
               PROVE  attempts[a].expired + attempts[a].delivered
                        + Cardinality({w \in Workers :
                            ~Free(w) /\ worker[w].run.answer = "DELIVERED" /\ Attempted(w) = a})
                      <= 1 + losses
    BY DEF DuplicatesHaveACause
  <2> DEFINE Underway == {w \in Workers :
                            ~Free(w) /\ worker[w].run.answer = "DELIVERED" /\ Attempted(w) = a}
  <2>1. Underway \in SUBSET Carriers(a) /\ Carriers(a) \in SUBSET Workers
    <3>1. ASSUME NEW w \in Underway PROVE w \in Carriers(a)
      <4>1. /\ w \in Workers /\ ~Free(w) /\ worker[w].run.answer # None /\ Attempted(w) = a
        BY NoneAssumption
      <4>2. worker[w].run.due \in SUBSET (DOMAIN outbox) /\ worker[w].run.due # {}
        BY <4>1 DEF OnceInv, RunsInv
      <4>3. Oldest(worker[w].run.due) \in worker[w].run.due
        BY <4>2, AttemptedRow DEF OnceInv
      <4> QED
        BY <4>1, <4>3 DEF Carriers, Attempted
    <3> QED
      BY <3>1 DEF Carriers
  <2> HIDE DEF Underway
  <2>2. Cardinality(Underway) \in Nat /\ Cardinality(Underway) <= Cardinality(Carriers(a))
        /\ Cardinality(Carriers(a)) \in Nat
    BY <2>1, Sizes
  <2>3. Settles(a) + Cardinality(Carriers(a)) <= 1 + losses /\ Settles(a) \in Nat /\ losses \in Nat
    BY SettlesType DEF OnceInv, SpentInv, Settles, WorkersType
  <2>4. Settles(a) + Cardinality(Underway) <= 1 + losses
    BY <2>2, <2>3
  <2> QED
    BY <2>4 DEF Settles, Underway
<1> QED
  BY <1>1, <1>2, <1>3, PTL DEF Spec
=============================================================================
