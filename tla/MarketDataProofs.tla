--------------------------- MODULE MarketDataProofs ---------------------------
(***************************************************************************)
(* Theorems about the parts that MCMarketData puts side by side.  They     *)
(* share no variable, and neither do their arguments.                      *)
(*                                                                         *)
(* The watcher of /health, for every number of days, jobs, outages and     *)
(* restarts and every condition of the database:                           *)
(*                                                                         *)
(*   OwnerIsTold        unless the owner has a reason not to know, he was  *)
(*                      last told the state that was last observed.        *)
(*                                                                         *)
(* OwnerKnows says nothing while memory is empty, so it is not inductive:  *)
(* what the next observation compares with is then the log.  WatcherInv    *)
(* adds that the owner was told what the log has whenever the log is all   *)
(* the watcher knows, and nothing but HEALTHY when it knows nothing.       *)
(*                                                                         *)
(*   NothingMissed      a session without its end of day and a feed that   *)
(*                      failed in each of the newest runs degrade the      *)
(*                      report, within the days that it looks back.        *)
(*                                                                         *)
(* The runs that count are a fold over the rows, which FoldProofs shows to *)
(* return rows of their kind, and a streak is the greatest of a set of     *)
(* lengths.  A missing session is seen because the first day with a record *)
(* anchors the search before it.                                           *)
(*                                                                         *)
(* The quality of a session's data, for every number of orders, workers,   *)
(* runs, errors and crashes:                                               *)
(*                                                                         *)
(*   SessionsAccounted  a session of an order has at most one account, and *)
(*                      a run remembers exactly the rows it committed;     *)
(*   SessionsSettle     a recheck run that ends leaves pending nothing     *)
(*                      FinalAfter sessions old, but for its own errors;   *)
(*   NoneDropped        no session of a completed run is lost, while        *)
(*                      failures and overlapping workers are so few that   *)
(*                      the query of the pending items looks back enough   *)
(*                      runs (LookbackAssumption).                         *)
(*                                                                         *)
(* A recheck row is written in one transaction that reads first whether    *)
(* the session has an account, so two runs that overlap write at most one. *)
(* A run takes all that is pending when it starts; until it ends, what is  *)
(* pending and old is still to do, or its order failed: no session gets    *)
(* old during a run, because the day it belongs to has not closed.         *)
(* NoneDropped bounds the place of a run in the list.  A worker starts at  *)
(* most two runs a day (Pace), so the days before a recheck is final put   *)
(* so many runs in front; every later one settles the session, is about    *)
(* to (Settling), or spends a failure (Strikes).                           *)
(*                                                                         *)
(* The bar store, for any number of writers and readers, any feeds and any *)
(* clock:                                                                  *)
(*                                                                         *)
(*   Stability     an answer as of a published instant is final;           *)
(*   Tieless       no two batches share their instant;                     *)
(*   Deduplicated  no version repeats the one before it.                   *)
(*                                                                         *)
(* The clock is only read under the lock, and it moves before the lock is  *)
(* free again; so what a holder reads is later than everything stored or   *)
(* published (WatermarkInv), and what it stores can change no answer as of *)
(* an earlier instant.                                                     *)
(*                                                                         *)
(* The calendar of an order, for any two loads, instant and validity:      *)
(*                                                                         *)
(*   WindowExact        between the first candle and the end of validity   *)
(*                      the walk skips no expected minute;                 *)
(*   HashFixesAnswers   a calendar with the order's window hash answers    *)
(*                      as the one at creation did.                        *)
(*                                                                         *)
(* bisect finds a session by its index, and two loads may number the same  *)
(* session differently.  So the argument leaves the indices: a query is    *)
(* the least or the greatest expected minute on one side of an instant     *)
(* (LeastFrom), and two calendars with one hash expect the same minutes up *)
(* to one past the order's last (AgreePast).                               *)
(*                                                                         *)
(* A click beside the signal's own order, for any signal, configuration,   *)
(* calendar, candles and instants:                                         *)
(*                                                                         *)
(*   ManualFollows      the manual order goes through the states of the    *)
(*                      signal's own order, unless that one made something *)
(*                      of the bar the click fell into.                    *)
(*                                                                         *)
(* Until a click the order is the run of the bars on the tape (Taped), so  *)
(* the replay finds its state.  It is PENDING, and differs from a new one  *)
(* in its gates only (Waiting); the manual order inherits these, and from  *)
(* then on the two are twins of EngineProofs (Beside).                     *)
(***************************************************************************)
EXTENDS Watermark, CalendarReload, SessionQuality, HealthWatch, Actionability, EngineProofs,
        SequenceTheorems, FiniteSetTheorems, WellFoundedInduction, TLAPS

-----------------------------------------------------------------------------
(* The watcher of /health. *)

Signatures == [state : States, codes : SUBSET Codes]

WatcherInv ==
  /\ memory \in Signatures \cup {None} /\ logged \in Signatures \cup {None}
  /\ unheard = {} =>
       /\ memory # None => told = memory.state
       /\ logged # None /\ memory \in {None, logged} => told = logged.state
       /\ logged = None /\ memory = None => told = "HEALTHY"

(***************************************************************************)
(* Every report is a signature: one of three states and its codes.         *)
(***************************************************************************)
LEMMA SignatureType ==
  ASSUME ConditionAssumption, NEW condition \in Databases \cup {"down"}, NEW f
  PROVE  Signature(condition, f) \in Signatures
<1>1. DegradedCodes(f) \in SUBSET Codes
  BY DEF DegradedCodes, Codes
<1>2. condition \in {"up", "slow", "down", "off_head"}
  BY DEF ConditionAssumption
<1> QED
  BY <1>1, <1>2 DEF Signature, Signatures, States, Codes

(***************************************************************************)
(* An observation that reaches the log: the previous signature, wherever   *)
(* it was remembered, is what the owner was told.                          *)
(***************************************************************************)
LEMMA LoggedObservation ==
  ASSUME ConditionAssumption, WatcherInv, NEW current \in Signatures, ObserveLogged(current)
  PROVE  WatcherInv'
<1>1. None \notin Signatures
  BY DEF ConditionAssumption, Signatures, States
<1>2. ASSUME unheard = {} PROVE told' = current.state
  <2>1. CASE Previous = None
    BY <1>1, <1>2, <2>1 DEF WatcherInv, ObserveLogged, Previous, ShouldAlert, Recovering, AlertStates,
       Tell, Signatures, States
  <2>2. CASE Previous # None
    <3>1. Previous \in Signatures /\ told = Previous.state
      BY <1>2, <2>2 DEF WatcherInv, Previous
    <3> QED
      BY <2>2, <3>1 DEF ObserveLogged, ShouldAlert, Recovering, AlertStates, Tell, Signatures, States
  <2> QED
    BY <2>1, <2>2
<1> QED
  BY <1>1, <1>2 DEF WatcherInv, ObserveLogged

(***************************************************************************)
(* One that does not: what is in memory is what the owner was told, or     *)
(* there is a reason why not.                                              *)
(***************************************************************************)
LEMMA MemoryObservation ==
  ASSUME ConditionAssumption, WatcherInv, NEW current \in Signatures, ObserveInMemory(current)
  PROVE  WatcherInv'
<1>1. None \notin Signatures
  BY DEF ConditionAssumption, Signatures, States
<1>2. ASSUME unheard' = {} PROVE unheard = {} /\ told' = current.state
  <2>1. unheard = {}
    BY <1>2 DEF ObserveInMemory
  <2>2. CASE memory = None
    BY <1>1, <1>2, <2>1, <2>2 DEF ObserveInMemory, ShouldAlert, Recovering, AlertStates, Tell
  <2>3. CASE memory # None
    <3>1. memory \in Signatures /\ told = memory.state
      BY <2>1, <2>3 DEF WatcherInv
    <3> QED
      BY <1>2, <2>1, <2>3, <3>1 DEF ObserveInMemory, ShouldAlert, Recovering, AlertStates, Tell,
         Signatures, States
  <2> QED
    BY <2>1, <2>2, <2>3
<1> QED
  BY <1>1, <1>2 DEF WatcherInv, ObserveInMemory

(***************************************************************************)
(* The jobs, the ledger and the database leave the watcher alone.          *)
(***************************************************************************)
LEMMA WatcherStep ==
  ASSUME ConditionAssumption, WatcherInv, database \in Databases, [WatchNext]_watchVars
  PROVE  WatcherInv'
<1>1. CASE UNCHANGED watcher
  BY <1>1 DEF watcher, WatcherInv
<1>2. CASE Observe
  <2>1. PICK report \in {Signature(database, Facts), Signature("down", Facts)} :
          ObserveLogged(report) \/ ObserveInMemory(report)
    BY <1>2 DEF Observe
  <2>2. report \in Signatures
    BY SignatureType
  <2> QED
    BY <2>1, <2>2, LoggedObservation, MemoryObservation
<1>3. CASE Restart
  BY <1>3 DEF Restart, WatcherInv
<1> QED
  BY <1>1, <1>2, <1>3 DEF WatchNext, watchVars, watcher, NextHour, LiveCycle, Opening, EndOfDay, LedgerChange, DatabaseChange

(***************************************************************************)
(* HealthWatcher: a notice is lost only for the three named reasons, in    *)
(* every behaviour of jobs, outages and restarts.                          *)
(***************************************************************************)
THEOREM OwnerIsTold ==
  ASSUME ConditionAssumption
  PROVE  WatchSpec => []OwnerKnows
<1> DEFINE Inv == WatcherInv /\ database \in Databases
<1>1. WatchInit => Inv
  BY DEF WatchInit, WatcherInv, ConditionAssumption
<1>2. Inv /\ [WatchNext]_watchVars => Inv'
  <2>1. database \in Databases /\ [WatchNext]_watchVars => database' \in Databases
    BY DEF ConditionAssumption, WatchNext, watchVars, NextHour, LiveCycle, Opening, EndOfDay, LedgerChange,
       DatabaseChange, Observe, Restart
  <2> QED
    BY <2>1, WatcherStep
<1>3. Inv => OwnerKnows
  BY DEF WatcherInv, OwnerKnows
<1> QED
  BY <1>1, <1>2, <1>3, PTL DEF WatchSpec

-----------------------------------------------------------------------------
(* What degrades the report. *)

LiveRuns ==
  [status : {"COMPLETED", "FAILED", "RUNNING"}, at : Nat, failing : SUBSET WatchedFeeds,
   unknown : {{}}, errors : {{}}]
JobRuns == [kind : {"OPENING", "END_OF_DAY"}, day : Nat, status : {"COMPLETED", "FAILED"}]

\* The records of the jobs, within the days of the behaviour.
RecordsInv ==
  /\ watchBound \in WatchBounds /\ now \in Nat /\ (now = 0 \/ now < 6 * watchBound.days)
  /\ live \in Seq(LiveRuns) /\ jobRuns \in SUBSET JobRuns

(***************************************************************************)
(* Time and the jobs keep the records.                                     *)
(***************************************************************************)
LEMMA RecordsStep ==
  ASSUME HorizonAssumption, RecordsInv, [WatchNext]_watchVars
  PROVE  RecordsInv'
<1>1. watchBound' = watchBound /\ watchBound.days \in Nat
  <2>1. watchBound' = watchBound
    BY DEF WatchNext, watchVars, facts, watcher, NextHour, LiveCycle, Opening, EndOfDay, LedgerChange,
           DatabaseChange, Observe, ObserveLogged, ObserveInMemory, Restart
  <2> QED
    BY <2>1 DEF HorizonAssumption, RecordsInv
<1>2. now' \in Nat /\ (now' = 0 \/ now' < 6 * watchBound.days)
  <2>1. \/ now' = now
        \/ now < 6 * watchBound.days - 1 /\ now' = now + 1
    BY DEF WatchNext, watchVars, facts, watcher, NextHour, LiveCycle, Opening, EndOfDay, LedgerChange,
           DatabaseChange, Observe, ObserveLogged, ObserveInMemory, Restart
  <2> QED
    BY <1>1, <2>1 DEF RecordsInv
<1>3. live' \in Seq(LiveRuns)
  <2>1. CASE LiveCycle
    <3>1. PICK status \in {"COMPLETED", "FAILED", "RUNNING"}, failing \in SUBSET WatchedFeeds :
            live' = SubSeq(<<[status |-> status, at |-> now, failing |-> failing, unknown |-> {},
                              errors |-> {}]>> \o live, 1, IF Len(live) < 3 THEN Len(live) + 1 ELSE 3)
      BY <2>1 DEF LiveCycle
    <3> DEFINE r == [status |-> status, at |-> now, failing |-> failing, unknown |-> {}, errors |-> {}]
               n == IF Len(live) < 3 THEN Len(live) + 1 ELSE 3
               all == <<r>> \o live
    <3>2. r \in LiveRuns /\ live \in Seq(LiveRuns)
      BY DEF LiveRuns, RecordsInv
    <3>3. live' = SubSeq(all, 1, n)
      BY <3>1
    <3> HIDE DEF r, LiveRuns
    <3>4. all \in Seq(LiveRuns) /\ Len(all) = Len(live) + 1 /\ Len(live) \in Nat
      BY <3>2
    <3>5. n \in Int /\ n <= Len(live) + 1
      BY <3>4
    <3> HIDE DEF n, all
    <3>6. \A i \in 1..n : all[i] \in LiveRuns
      BY <3>4, <3>5
    <3>7. 1 \in Int
      OBVIOUS
    <3> QED
      BY <3>3, <3>5, <3>6, <3>7, SubSeqProperties
  <2>2. CASE live' = live
    BY <2>2 DEF RecordsInv
  <2> QED
    BY <2>1, <2>2
    DEF WatchNext, watchVars, facts, watcher, NextHour, Opening, EndOfDay, LedgerChange,
        DatabaseChange, Observe, ObserveLogged, ObserveInMemory, Restart
<1>4. jobRuns' \in SUBSET JobRuns
  <2>1. Today \in Nat
    BY DEF Today, RecordsInv
  <2>2. CASE Opening
    BY <2>1, <2>2 DEF Opening, JobRuns, RecordsInv
  <2>3. CASE EndOfDay
    BY <2>1, <2>3 DEF EndOfDay, JobRuns, RecordsInv
  <2>4. CASE jobRuns' = jobRuns
    BY <2>4 DEF RecordsInv
  <2> QED
    BY <2>2, <2>3, <2>4
    DEF WatchNext, watchVars, facts, watcher, NextHour, LiveCycle, LedgerChange,
        DatabaseChange, Observe, ObserveLogged, ObserveInMemory, Restart
<1> QED
  BY <1>1, <1>2, <1>3, <1>4 DEF RecordsInv

(***************************************************************************)
(* The fold of Completed.                                                  *)
(***************************************************************************)
KeptRun(p, r, kept) == IF r.status = "COMPLETED" THEN Append(kept, r) ELSE kept
RunAt(p, i) == p[i]
LastIndex(p, s) == Max(s)
RunsKept(p, s, kept) == kept \in Seq(LiveRuns)

Selecting == INSTANCE FoldProofs WITH
  Apply <- KeptRun, Item <- RunAt, Pick <- LastIndex, Holds <- RunsKept

(***************************************************************************)
(* A set of numbers up to n that is not empty has its Max.                 *)
(***************************************************************************)
LEMMA GreatestLength ==
  ASSUME NEW n \in Nat, NEW S \in SUBSET (0..n), S # {}
  PROVE  Max(S) \in S /\ \A x \in S : x <= Max(S)
<1> DEFINE Down == {n - x : x \in S}
<1>0. \A x \in S : x \in Int /\ x <= n
  OBVIOUS
<1>1. Down \in SUBSET Nat /\ Down # {}
  <2>1. \A x \in S : n - x \in Nat
    BY <1>0
  <2>2. PICK x \in S : TRUE
    OBVIOUS
  <2> QED
    BY <2>1, <2>2
<1>2. PICK u \in Down : \A v \in Down : u <= v
  BY <1>1, Least
<1>3. PICK x \in S : u = n - x
  BY <1>2
<1>4. \A y \in S : x >= y
  <2>1. ASSUME NEW y \in S PROVE x >= y
    <3>1. n - y \in Down
      OBVIOUS
    <3>2. n - x <= n - y
      BY <1>2, <1>3, <3>1
    <3>3. x \in Int /\ y \in Int
      BY <1>0
    <3> HIDE DEF Down
    <3> QED
      BY <3>2, <3>3
  <2> QED
    BY <2>1
<1>5. Max(S) \in S /\ \A y \in S : Max(S) >= y
  BY <1>3, <1>4 DEF Max
<1> QED
  BY <1>0, <1>5

(***************************************************************************)
(* A set of naturals that is not empty has its Min.                        *)
(***************************************************************************)
LEMMA Smallest ==
  ASSUME NEW S \in SUBSET Nat, S # {}
  PROVE  Min(S) \in S /\ \A x \in S : Min(S) <= x
<1>1. \E x \in S : \A y \in S : x <= y
  BY Least
<1> QED
  BY <1>1 DEF Min

(***************************************************************************)
(* The completed runs are runs.                                            *)
(***************************************************************************)
LEMMA CompletedRuns ==
  ASSUME NEW rows \in Seq(LiveRuns)
  PROVE  Completed(rows) \in Seq(LiveRuns)
<1> DEFINE S == DOMAIN rows
<1>1. S = 1..Len(rows) /\ Len(rows) \in Nat
  OBVIOUS
<1>2. Selecting!IsFiniteSet(S)
  <2>1. IsFiniteSet(1..Len(rows))
    BY <1>1, FS_Interval
  <2> QED
    BY <1>1, <2>1 DEF IsFiniteSet, Selecting!IsFiniteSet
<1>3. \A t \in SUBSET S : t # {} => Max(t) \in t
  <2>1. ASSUME NEW t \in SUBSET S, t # {} PROVE Max(t) \in t
    <3>1. t \in SUBSET (0..Len(rows)) /\ Len(rows) \in Nat
      BY <1>1
    <3> QED
      BY <2>1, <3>1, GreatestLength
  <2> QED
    BY <2>1
<1>4. Selecting!Picks(rows, S)
  BY <1>3 DEF Selecting!Picks, LastIndex
<1>5. RunsKept(rows, {}, <<>>)
  BY DEF RunsKept
<1>6. ASSUME NEW t \in SUBSET S, t # {}, NEW kept, RunsKept(rows, t \ {LastIndex(rows, t)}, kept)
      PROVE  RunsKept(rows, t, KeptRun(rows, RunAt(rows, LastIndex(rows, t)), kept))
  <2> DEFINE r == rows[LastIndex(rows, t)]
  <2>1. r \in LiveRuns
    BY <1>3, <1>6 DEF LastIndex
  <2>2. kept \in Seq(LiveRuns)
    BY <1>6 DEF RunsKept
  <2> HIDE DEF r, LiveRuns
  <2>3. Append(kept, r) \in Seq(LiveRuns)
    BY <2>1, <2>2
  <2> QED
    BY <2>2, <2>3 DEF RunsKept, KeptRun, RunAt, r
<1>7. RunsKept(rows, S, Selecting!Fold(rows, <<>>, S))
  BY <1>2, <1>4, <1>5, <1>6, Selecting!FoldHolds
<1>8. Completed(rows) = Selecting!Fold(rows, <<>>, S)
  BY DEF Completed, FoldLeft, Selecting!Fold, MapThenFoldSet, Selecting!MapThenFoldSet, KeptRun, RunAt,
         LastIndex
<1> QED
  BY <1>7, <1>8 DEF RunsKept

(***************************************************************************)
(* A feed's streak reaches the threshold when it failed in each of the     *)
(* newest runs.                                                            *)
(***************************************************************************)
LEMMA StreakReaches ==
  ASSUME ThresholdAssumption, NEW rows \in Seq(LiveRuns), NEW feed
  PROVE  Streak(feed, rows) >= FailureThreshold <=>
           Len(rows) >= FailureThreshold /\ \A i \in 1..FailureThreshold : feed \in rows[i].failing
<1> DEFINE K == {k \in 0..Len(rows) : \A i \in 1..k : feed \in rows[i].failing}
<1>1. FailureThreshold \in Nat \ {0} /\ Len(rows) \in Nat
  BY DEF ThresholdAssumption
<1>2. K \in SUBSET (0..Len(rows)) /\ 0 \in K
  BY <1>1
<1>3. Max(K) \in K /\ \A k \in K : k <= Max(K)
  BY <1>1, <1>2, GreatestLength
<1>4. Streak(feed, rows) = Max(K)
  BY DEF Streak
<1> DEFINE m == Max(K)
<1> HIDE DEF m
<1>5. /\ m \in 0..Len(rows) /\ \A i \in 1..m : feed \in rows[i].failing
      /\ Streak(feed, rows) = m
      /\ \A k \in 0..Len(rows) : (\A i \in 1..k : feed \in rows[i].failing) => k <= m
  BY <1>3, <1>4 DEF m
<1> HIDE DEF K
<1>6. ASSUME m >= FailureThreshold
      PROVE  Len(rows) >= FailureThreshold /\ \A i \in 1..FailureThreshold : feed \in rows[i].failing
  BY <1>1, <1>5, <1>6
<1>7. ASSUME Len(rows) >= FailureThreshold, \A i \in 1..FailureThreshold : feed \in rows[i].failing
      PROVE  m >= FailureThreshold
  <2>1. FailureThreshold \in 0..Len(rows)
    BY <1>1, <1>7
  <2>2. FailureThreshold <= m
    BY <1>5, <1>7, <2>1
  <2> QED
    BY <1>1, <1>5, <2>2
<1> QED
  BY <1>5, <1>6, <1>7

(***************************************************************************)
(* Which facts raise the two codes.                                        *)
(***************************************************************************)
LEMMA Raised ==
  ASSUME NEW f
  PROVE  /\ "END_OF_DAY_MISSING" \in DegradedCodes(f) <=> \E miss \in f.missing : miss[1] = "END_OF_DAY"
         /\ "INGEST_FAILURES_CONSECUTIVE" \in DegradedCodes(f) <=>
              \E feed \in NewestFailing(Completed(f.live)) :
                Streak(feed, Completed(f.live)) >= FailureThreshold
BY DEF DegradedCodes

(***************************************************************************)
(* A session past its deadline without its end of day is missing.          *)
(***************************************************************************)
LEMMA MissingRaised ==
  ASSUME ThresholdAssumption, HorizonAssumption, RecordsInv, NEW s \in WatchedSessions, s.closeBy <= now,
         NEW r \in jobRuns, r.day < s.day,
         ~\E q \in jobRuns : q.kind = "END_OF_DAY" /\ q.day = s.day /\ q.status = "COMPLETED"
  PROVE  <<"END_OF_DAY", s.day>> \in Missing(WatchedSessions, jobRuns, now)
<1> DEFINE Days == {q.day : q \in jobRuns}
<1>1. Days \in SUBSET Nat /\ r.day \in Days /\ r.day \in Nat
  BY DEF RecordsInv, JobRuns
<1>2. Min(Days) \in Nat /\ Min(Days) <= r.day
  BY <1>1, Smallest
<1>3. Min(Days) # None /\ jobRuns # {}
  BY <1>2, InstantAssumption
<1>4. s.day \in Nat /\ s.day >= 1 /\ s.close = 6 * s.day - 2 /\ watchBound.days \in Nat
  BY DEF WatchedSessions, HorizonAssumption, RecordsInv
<1>5. Min(Days) < s.day
  BY <1>1, <1>2, <1>4
<1>6. s.close >= now - RunLookback
  <2>1. now \in Nat /\ (now = 0 \/ now < 6 * watchBound.days) /\ 6 * watchBound.days <= RunLookback
    BY DEF RecordsInv, HorizonAssumption
  <2>2. RunLookback \in Nat
    BY DEF ThresholdAssumption
  <2> QED
    BY <1>4, <2>1, <2>2
<1> HIDE DEF Days
<1>7. Min({q.day : q \in jobRuns}) = Min(Days)
  BY DEF Days
<1> QED
  BY <1>3, <1>5, <1>6, <1>7 DEF Missing

(***************************************************************************)
(* The two causes are raised by what the jobs did: a session past its      *)
(* deadline without a completed end of day, and a feed that failed in each *)
(* of the newest completed runs, degrade the report, in every behaviour no *)
(* longer than the lookback.                                               *)
(***************************************************************************)
THEOREM NothingMissed ==
  ASSUME ThresholdAssumption, HorizonAssumption
  PROVE  WatchSpec => []NothingMissedSilently
<1>1. WatchInit => RecordsInv
  BY DEF WatchInit, RecordsInv
<1>2. RecordsInv /\ [WatchNext]_watchVars => RecordsInv'
  BY RecordsStep
<1>3. RecordsInv => NothingMissedSilently
  <2> SUFFICES ASSUME RecordsInv PROVE NothingMissedSilently
    OBVIOUS
  <2> DEFINE completed == Completed(live)
             T == FailureThreshold
  <2>1. Facts.missing = Missing(WatchedSessions, jobRuns, now) /\ Facts.live = live
    BY DEF Facts
  <2>2. T \in Nat \ {0} /\ completed \in Seq(LiveRuns)
    BY CompletedRuns DEF ThresholdAssumption, RecordsInv
  <2>3. ASSUME NEW s \in WatchedSessions, s.closeBy <= now, \E r \in jobRuns : r.day < s.day,
               ~\E r \in jobRuns : r.kind = "END_OF_DAY" /\ r.day = s.day /\ r.status = "COMPLETED"
        PROVE  "END_OF_DAY_MISSING" \in DegradedCodes(Facts)
    <3>1. <<"END_OF_DAY", s.day>> \in Missing(WatchedSessions, jobRuns, now)
      BY <2>3, MissingRaised
    <3>2. \E miss \in Facts.missing : miss[1] = "END_OF_DAY"
      BY <2>1, <3>1
    <3> QED
      BY <3>2, Raised
  <2>4. ("INGEST_FAILURES_CONSECUTIVE" \in DegradedCodes(Facts)) <=>
          \E feed \in NewestFailing(completed) : Streak(feed, completed) >= T
    BY <2>1, Raised
  <2> HIDE DEF completed
  <2>5. \A feed : Streak(feed, completed) >= T <=>
                    Len(completed) >= T /\ \A i \in 1..T : feed \in completed[i].failing
    BY <2>2, StreakReaches
  <2>6. ASSUME NEW feed, Streak(feed, completed) >= T
        PROVE  feed \in WatchedFeeds /\ feed \in NewestFailing(completed)
    <3>1. Len(completed) >= T /\ feed \in completed[1].failing
      BY <2>2, <2>5, <2>6
    <3>2. completed # <<>> /\ completed[1] \in LiveRuns /\ Head(completed) = completed[1]
      BY <2>2, <3>1
    <3> QED
      BY <3>1, <3>2 DEF NewestFailing, LiveRuns
  <2>7. (\E feed \in NewestFailing(completed) : Streak(feed, completed) >= T) <=>
          /\ Len(completed) >= T
          /\ \E feed \in WatchedFeeds : \A i \in 1..T : feed \in completed[i].failing
    BY <2>5, <2>6
  <2> QED
    BY <2>3, <2>4, <2>7 DEF NothingMissedSilently, completed
<1> QED
  BY <1>1, <1>2, <1>3, PTL DEF WatchSpec

-----------------------------------------------------------------------------
(* The quality of the data of a session. *)

Items == Orders \X Nat
Runs == [day : Nat, missed : SUBSET Orders, errors : SUBSET Orders]
Jobs ==
  [pc : {"idle", "quality", "measured", "recheck"}, slot : Int, day : Nat, todo : SUBSET Items,
   failed : SUBSET Items, known : SUBSET Items, missed : SUBSET Orders, errors : SUBSET Orders,
   recorded : SUBSET Items]
Rows ==
  [order : Orders, day : Nat, run : Workers \X Int,
   status : {"NOT_MEASURABLE", "PROVIDER_FAILURE_FINAL", "NO_OBSERVATIONS_FINAL", "EVALUATED"}]

\* The types of the state; what the jobs and the rows hold.
Types ==
  /\ slot \in Nat /\ qualitySpent \in [errors : Nat, crashes : Nat]
  /\ jobs \in [Workers -> Jobs] /\ runs \in Seq(Runs)
  /\ observed \in SUBSET Items /\ rechecks \in SUBSET Rows

\* A job runs in a slot that has begun, for the day of now, over earlier
\* sessions.
Evening(job) ==
  /\ job.slot <= slot
  /\ job.pc # "idle" => job.day = Day
  /\ job.pc = "recheck" => \A item \in job.todo : item[2] < Day

Evenings == \A w \in Workers : Evening(jobs[w])

\* The sessions whose row the worker wrote in its current slot.
RowsWritten(w) == {<<r.order, r.day>> : r \in {s \in rechecks : s.run = <<w, jobs[w].slot>>}}

\* One account per session, and the runs remember what they wrote.
Accounts ==
  /\ \A r, s \in rechecks : r.order = s.order /\ r.day = s.day => r = s
  /\ \A r \in rechecks : /\ <<r.order, r.day>> \notin quality
                         /\ r.day < Day /\ r.run[2] <= jobs[r.run[1]].slot
  /\ \A w \in Workers : jobs[w].pc # "idle" => jobs[w].recorded = RowsWritten(w)
  /\ \A w \in Workers : jobs[w].pc = "recheck" => jobs[w].todo \cap jobs[w].recorded = {}

\* What is old and pending is in the list of every recheck run, or failed in
\* it.
Taken ==
  \A w \in Workers : jobs[w].pc = "recheck" =>
    \A item \in Pending :
      jobs[w].day - item[2] >= FinalAfter => item \in jobs[w].todo \/ item[1] \in jobs[w].errors

\* The inductive invariant.
QualityInv == Types /\ Evenings /\ Accounts /\ Taken

-----------------------------------------------------------------------------

(***************************************************************************)
(* The slots are numbered from 0 and the days from 1.                      *)
(***************************************************************************)
LEMMA DayType ==
  ASSUME slot \in Nat
  PROVE  Day \in Nat \ {0}
BY DEF Day

(***************************************************************************)
(* A pending item was missed by one of the recent runs and has no account  *)
(* yet (the query of pending_rechecks, read from its answer).              *)
(***************************************************************************)
LEMMA RecentItems ==
  ASSUME LimitsAssumption, Types, NEW item \in Pending
  PROVE  /\ item \in Items
         /\ \E i \in DOMAIN runs : /\ i <= RecentRuns /\ item[1] \in runs[i].missed
                                   /\ item[2] = runs[i].day
         /\ item \notin quality /\ ~Rechecked(item[1], item[2])
<1> DEFINE last == IF Len(runs) < RecentRuns THEN Len(runs) ELSE RecentRuns
           recent == SubSeq(runs, 1, last)
<1>1. last \in Nat /\ last <= Len(runs) /\ last <= RecentRuns /\ RecentRuns \in Nat /\ runs \in Seq(Runs) /\ Len(runs) \in Nat
  BY DEF Types, LimitsAssumption
<1> HIDE DEF last
<1>2. DOMAIN recent = 1..last /\ \A i \in 1..last : recent[i] = runs[i]
  BY <1>1
<1> HIDE DEF recent
<1>3. Pending = {x \in UNION {recent[i].missed \X {recent[i].day} : i \in DOMAIN recent} :
                   x \notin quality /\ ~Rechecked(x[1], x[2])}
  BY DEF Pending, recent, last
<1>4. PICK i \in 1..last : item \in recent[i].missed \X {recent[i].day}
  BY <1>2, <1>3
<1>5. i \in DOMAIN runs /\ runs[i] \in Runs /\ recent[i] = runs[i]
  BY <1>1, <1>2
<1>6. item[1] \in runs[i].missed /\ item[2] = runs[i].day /\ item \in Items
  BY <1>4, <1>5 DEF Runs, Items
<1>7. i \in DOMAIN runs /\ i <= RecentRuns
  BY <1>1, <1>5
<1> QED
  BY <1>3, <1>6, <1>7

(***************************************************************************)
(* What one of the recent runs missed and has no account is pending (the   *)
(* same query, the other way).                                             *)
(***************************************************************************)
LEMMA PendingItems ==
  ASSUME LimitsAssumption, Types, NEW item \in Items,
         NEW i \in DOMAIN runs, i <= RecentRuns, item[1] \in runs[i].missed, item[2] = runs[i].day,
         item \notin quality, ~Rechecked(item[1], item[2])
  PROVE  item \in Pending
<1> DEFINE last == IF Len(runs) < RecentRuns THEN Len(runs) ELSE RecentRuns
           recent == SubSeq(runs, 1, last)
<1>1. last \in Nat /\ last <= Len(runs) /\ i \in 1..last /\ runs \in Seq(Runs) /\ Len(runs) \in Nat
  BY DEF Types, LimitsAssumption
<1> HIDE DEF last
<1>2. DOMAIN recent = 1..last /\ \A k \in 1..last : recent[k] = runs[k]
  BY <1>1
<1> HIDE DEF recent
<1>3. item \in recent[i].missed \X {recent[i].day}
  BY <1>1, <1>2 DEF Items
<1> QED
  BY <1>1, <1>2, <1>3 DEF Pending, recent, last

PendingMeans ==
  Pending = {item \in Items :
    /\ \E i \in DOMAIN runs : i <= RecentRuns /\ item[1] \in runs[i].missed /\ item[2] = runs[i].day
    /\ item \notin quality /\ ~Rechecked(item[1], item[2])}

(***************************************************************************)
(* What is pending, as a set: the form the other lemmas use.               *)
(***************************************************************************)
LEMMA PendingMeaning ==
  ASSUME LimitsAssumption
  PROVE  Types => PendingMeans
BY RecentItems, PendingItems DEF PendingMeans

(***************************************************************************)
(* The same, after a step.                                                 *)
(***************************************************************************)
LEMMA PendingMeaningNext ==
  ASSUME LimitsAssumption
  PROVE  Types' => PendingMeans'
<1>1. Types => PendingMeans
  BY PendingMeaning
<1> QED
  BY <1>1, PTL

(***************************************************************************)
(* A recheck gives a session at most one status, none when it has an       *)
(* account, and a session past its last day always gets one or has an      *)
(* account.                                                                *)
(***************************************************************************)
LEMMA VerdictIsOne ==
  ASSUME NEW job, NEW item
  PROVE  /\ VerdictNow(job, item) \in
              SUBSET {"NOT_MEASURABLE", "PROVIDER_FAILURE_FINAL", "NO_OBSERVATIONS_FINAL", "EVALUATED"}
         /\ \A s, t \in VerdictNow(job, item) : s = t
         /\ VerdictNow(job, item) # {} => ~Rechecked(item[1], item[2]) /\ item \notin quality
         /\ Final(job, item[2]) /\ VerdictNow(job, item) = {} =>
              Rechecked(item[1], item[2]) \/ item \in quality
BY DEF VerdictNow, Verdict

(***************************************************************************)
(* Before the first evening, no run has started and nothing is recorded.   *)
(***************************************************************************)
LEMMA TypesInit == QualityInit => Types /\ Evenings /\ Accounts /\ Taken
<1> SUFFICES ASSUME QualityInit PROVE Types /\ Evenings /\ Accounts /\ Taken
  OBVIOUS
<1>1. Types
  BY DEF QualityInit, Types, Jobs, NotRunning
<1>2. Evenings /\ Accounts /\ Taken
  BY DEF QualityInit, NotRunning, Evenings, Evening, Accounts, Taken
<1> QED
  BY <1>1, <1>2

(***************************************************************************)
(* Every step keeps the types, and a run that is under way belongs to the  *)
(* day: no session closes before the runs of the last one are over.        *)
(***************************************************************************)
LEMMA TypesStep ==
  ASSUME LimitsAssumption, Types, Evenings, [QualityNext]_qualityVars
  PROVE  Types' /\ Evenings'
<1>0. Day \in Nat \ {0}
  BY DayType DEF Types
<1>1. ASSUME NEW w \in Workers, NEW q \in Jobs, Set(w, q), Evening(q), UNCHANGED slot
      PROVE  (jobs \in [Workers -> Jobs])' /\ Evenings'
  <2>1. jobs' \in [Workers -> Jobs]
    BY <1>1 DEF Types, Set
  <2>2. \A v \in Workers : jobs'[v] = IF v = w THEN q ELSE jobs[v]
    BY <1>1 DEF Types, Set
  <2> QED
    BY <1>1, <2>1, <2>2 DEF Evenings, Evening, Day
<1>2. ASSUME NEW w \in Workers PROVE jobs[w] \in Jobs /\ Evening(jobs[w])
  BY DEF Types, Evenings
<1>3. CASE UNCHANGED qualityVars
  BY <1>3 DEF qualityVars, Types, Evenings, Evening, Day
<1>4. CASE NextSlot
  <2>1. slot' = slot + 1 /\ UNCHANGED <<runs, jobs, qualitySpent, observed, rechecks>>
    BY <1>4 DEF NextSlot, accounts
  <2>2. (\A w \in Workers : jobs[w].pc = "idle") \/ Day' = Day
    BY <1>4, <2>1 DEF NextSlot, Day, Types
  <2>3. Evenings'
    <3> SUFFICES ASSUME NEW w \in Workers PROVE Evening(jobs[w])'
      BY DEF Evenings
    <3>1. jobs[w].slot \in Int /\ slot \in Nat
      BY <1>2 DEF Types, Jobs
    <3>2. CASE jobs[w].pc = "idle"
      BY <1>2, <2>1, <3>1, <3>2 DEF Evening
    <3>3. CASE jobs[w].pc # "idle"
      BY <1>2, <2>1, <2>2, <3>1, <3>3 DEF Evening
    <3> QED
      BY <3>2, <3>3
  <2> QED
    BY <2>1, <2>3 DEF Types
<1>5. ASSUME NEW o \in Orders, NEW d \in 1..Day, OrderEnds(o, d) PROVE Types' /\ Evenings'
  BY <1>5 DEF OrderEnds, Types, Evenings, Evening, Day
<1>6. ASSUME NEW w \in Workers, StartEndOfDay(w) PROVE Types' /\ Evenings'
  <2>1. PICK failed \in SUBSET Orders, answered \in SUBSET Orders :
          LET stored == observed \union (answered \X {Day}) IN
          /\ observed' = stored
          /\ Set(w, [NotRunning EXCEPT !.pc = "quality", !.slot = slot, !.day = Day,
                       !.todo = {<<o, Day>> : o \in {p \in Orders : ~EndsBefore(p, Day)}},
                       !.failed = failed \X {Day}, !.known = stored])
    BY <1>6 DEF StartEndOfDay
  <2> DEFINE todo == {<<o, Day>> : o \in {p \in Orders : ~EndsBefore(p, Day)}}
             q == [NotRunning EXCEPT !.pc = "quality", !.slot = slot, !.day = Day, !.todo = todo,
                     !.failed = failed \X {Day}, !.known = observed']
  <2>2. observed' \in SUBSET Items /\ todo \in SUBSET Items /\ failed \X {Day} \in SUBSET Items
    BY <1>0, <2>1 DEF Items, Types
  <2> HIDE DEF todo
  <2>6. q \in [pc : {"quality"}, slot : {slot}, day : {Day}, todo : {todo}, failed : {failed \X {Day}},
               known : {observed'}, missed : {{}}, errors : {{}}, recorded : {{}}]
    BY DEF NotRunning
  <2>3. q \in Jobs /\ q.pc = "quality" /\ q.slot = slot /\ q.day = Day
    BY <1>0, <2>2, <2>6 DEF Jobs, Types
  <2>4. Set(w, q)
    BY <2>1 DEF todo
  <2> HIDE DEF q
  <2>5. Evening(q) /\ UNCHANGED <<slot, runs, rechecks, qualitySpent>>
    BY <1>6, <2>3 DEF Evening, StartEndOfDay, accounts, Types
  <2> QED
    BY <1>1, <2>2, <2>3, <2>4, <2>5 DEF Types
<1>7. ASSUME NEW w \in Workers, NEW o \in Orders, Measure(w, o) \/ MeasureFails(w, o) PROVE Types' /\ Evenings'
  <2> DEFINE job == jobs[w]
             rest == job.todo \ {<<o, job.day>>}
             a == [job EXCEPT !.todo = rest]
             b == [a EXCEPT !.missed = @ \union {o}]
             c == [job EXCEPT !.todo = rest, !.errors = @ \union {o}]
  <2>1. Set(w, a) \/ Set(w, b) \/ Set(w, c)
    BY <1>7 DEF Measure, MeasureFails
  <2>2. job \in Jobs /\ Evening(job) /\ job.pc = "quality"
    BY <1>2, <1>7 DEF Measure, MeasureFails
  <2>3. a \in Jobs /\ b \in Jobs /\ c \in Jobs
    BY <2>2 DEF Jobs
  <2>4. \A q \in {a, b, c} : q.pc = "quality" /\ q.slot = job.slot /\ q.day = job.day
    BY <2>2 DEF Jobs
  <2> HIDE DEF a, b, c
  <2>5. Evening(a) /\ Evening(b) /\ Evening(c)
    BY <2>2, <2>4 DEF Evening
  <2>6. UNCHANGED <<slot, runs, rechecks, observed>> /\ qualitySpent' \in [errors : Nat, crashes : Nat]
    BY <1>7 DEF Measure, MeasureFails, accounts, Types
  <2> QED
    BY <1>1, <2>1, <2>3, <2>5, <2>6 DEF Types
<1>8. ASSUME NEW w \in Workers, FinishQuality(w) PROVE Types' /\ Evenings'
  <2> DEFINE job == jobs[w]
             q == [job EXCEPT !.pc = "measured"]
             run == [day |-> job.day, missed |-> job.missed, errors |-> job.errors]
  <2>1. job \in Jobs /\ Evening(job) /\ job.pc = "quality" /\ Set(w, q) /\ runs' = <<run>> \o runs
    BY <1>2, <1>8 DEF FinishQuality
  <2>2. q \in Jobs /\ q.pc = "measured" /\ q.slot = job.slot /\ q.day = job.day /\ run \in Runs
    BY <2>1 DEF Jobs, Runs
  <2> HIDE DEF q, run
  <2>3. Evening(q)
    BY <2>1, <2>2 DEF Evening
  <2>4. runs' \in Seq(Runs)
    BY <2>1, <2>2 DEF Types
  <2>5. UNCHANGED <<slot, rechecks, observed, qualitySpent>>
    BY <1>8 DEF FinishQuality, accounts
  <2> QED
    BY <1>1, <2>1, <2>2, <2>3, <2>4, <2>5 DEF Types
<1>9. ASSUME NEW w \in Workers, Stop(w), UNCHANGED <<slot, runs, rechecks, observed>>,
             qualitySpent' \in [errors : Nat, crashes : Nat]
      PROVE  Types' /\ Evenings'
  <2> DEFINE q == [NotRunning EXCEPT !.slot = jobs[w].slot]
  <2>1. q \in Jobs /\ q.pc = "idle" /\ q.slot = jobs[w].slot
    BY <1>2 DEF Jobs, NotRunning
  <2>2. Set(w, q)
    BY <1>9 DEF Stop
  <2> HIDE DEF q
  <2>3. Evening(q)
    BY <1>2, <2>1 DEF Evening
  <2> QED
    BY <1>1, <1>9, <2>1, <2>2, <2>3 DEF Types
<1>10. ASSUME NEW w \in Workers, StartRecheck(w) PROVE Types' /\ Evenings'
  <2> DEFINE older == {item \in Pending : item[2] < jobs[w].day}
  <2>1. older \in SUBSET Items
    BY RecentItems
  <2>2. UNCHANGED <<slot, runs, rechecks, qualitySpent>> /\ jobs[w].pc = "measured"
    BY <1>10 DEF StartRecheck, accounts
  <2>3. CASE older = {}
    BY <1>9, <1>10, <2>2, <2>3 DEF StartRecheck, Types
  <2>4. CASE older # {}
    <3>0. PICK failed \in SUBSET older : \E answered \in SUBSET (older \ failed) :
            /\ observed' = observed \union answered
            /\ Set(w, [jobs[w] EXCEPT !.pc = "recheck", !.errors = {}, !.todo = older, !.failed = failed,
                         !.known = observed \union answered])
      BY <1>10, <2>4 DEF StartRecheck
    <3>1. PICK answered \in SUBSET (older \ failed) :
            /\ observed' = observed \union answered
            /\ Set(w, [jobs[w] EXCEPT !.pc = "recheck", !.errors = {}, !.todo = older, !.failed = failed,
                         !.known = observed \union answered])
      BY <3>0
    <3> DEFINE q == [jobs[w] EXCEPT !.pc = "recheck", !.errors = {}, !.todo = older, !.failed = failed,
                                  !.known = observed \union answered]
    <3>2. observed \union answered \in SUBSET Items /\ failed \in SUBSET Items
      BY <2>1 DEF Types
    <3>3. \A item \in older : item[2] < Day
      BY <1>2, <2>2 DEF Evening
    <3> HIDE DEF older
    <3>4. q \in Jobs /\ q.pc = "recheck" /\ q.slot = jobs[w].slot /\ q.day = jobs[w].day /\ q.todo = older
      BY <1>2, <2>1, <3>2 DEF Jobs
    <3>5. Set(w, q)
      BY <3>1
    <3> HIDE DEF q
    <3>6. Evening(q)
      BY <1>2, <2>2, <3>3, <3>4 DEF Evening
    <3> QED
      BY <1>1, <2>2, <3>1, <3>2, <3>4, <3>5, <3>6 DEF Types
  <2> QED
    BY <2>3, <2>4
<1>11. ASSUME NEW w \in Workers, NEW item \in jobs[w].todo, Recheck(w, item) \/ RecheckFails(w, item)
       PROVE  Types' /\ Evenings'
  <2> DEFINE job == jobs[w]
             q == jobs'[w]
  <2>1. job \in Jobs /\ Evening(job) /\ job.pc = "recheck" /\ item \in Items
    BY <1>2, <1>11 DEF Recheck, RecheckFails, Jobs
  <2>2. /\ Set(w, q)
        /\ q \in [pc : {"recheck"}, slot : {job.slot}, day : {job.day}, todo : {job.todo \ {item}},
                  failed : {job.failed}, known : {job.known}, missed : {job.missed},
                  errors : {job.errors, job.errors \union {item[1]}},
                  recorded : {job.recorded, job.recorded \union {item}, job.recorded \ {item},
                              (job.recorded \union {item}) \ {item}}]
    <3> DEFINE a == [job EXCEPT !.todo = @ \ {item},
                          !.recorded = IF VerdictNow(job, item) = {} THEN @ ELSE @ \union {item}]
               recorded == IF VerdictNow(job, item) = {} THEN job.recorded ELSE job.recorded \union {item}
               b == [job EXCEPT !.todo = @ \ {item}, !.errors = @ \union {item[1]},
                                !.recorded = recorded \ {item}]
    <3>1. Set(w, a) \/ Set(w, b)
      BY <1>11 DEF Recheck, RecheckFails
    <3>2. a \in [pc : {"recheck"}, slot : {job.slot}, day : {job.day}, todo : {job.todo \ {item}},
                  failed : {job.failed}, known : {job.known}, missed : {job.missed},
                  errors : {job.errors}, recorded : {job.recorded, job.recorded \union {item}}]
      BY <2>1 DEF Jobs
    <3>3. b \in [pc : {"recheck"}, slot : {job.slot}, day : {job.day}, todo : {job.todo \ {item}},
                  failed : {job.failed}, known : {job.known}, missed : {job.missed},
                  errors : {job.errors \union {item[1]}},
                  recorded : {job.recorded \ {item}, (job.recorded \union {item}) \ {item}}]
      BY <2>1 DEF Jobs
    <3> HIDE DEF a, b
    <3>7. jobs = [v \in Workers |-> jobs[v]]
      BY DEF Types
    <3>4. (q = a /\ Set(w, a)) \/ (q = b /\ Set(w, b))
      <4>1. \A x : jobs' = [jobs EXCEPT ![w] = x] => q = x
        BY <3>7
      <4> QED
        BY <3>1, <4>1 DEF Set
    <3> DEFINE Q == [pc : {"recheck"}, slot : {job.slot}, day : {job.day}, todo : {job.todo \ {item}},
                  failed : {job.failed}, known : {job.known}, missed : {job.missed},
                  errors : {job.errors, job.errors \union {item[1]}},
                  recorded : {job.recorded, job.recorded \union {item}, job.recorded \ {item},
                              (job.recorded \union {item}) \ {item}}]
    <3>5. a \in Q /\ b \in Q
      BY <3>2, <3>3
    <3> HIDE DEF Q, q
    <3>6. Set(w, q) /\ q \in Q
      BY <3>4, <3>5
    <3> QED
      BY <3>6 DEF Q
  <2>3. q \in Jobs
    BY <2>1, <2>2 DEF Jobs, Items
  <2>4. Evening(q)
    BY <2>1, <2>2 DEF Evening
  <2>5. UNCHANGED <<slot, runs, observed>> /\ qualitySpent' \in [errors : Nat, crashes : Nat]
    BY <1>11 DEF Recheck, RecheckFails, accounts, Types
  <2>6. rechecks' \in SUBSET Rows
    <3>1. CASE RecheckFails(w, item)
      BY <3>1 DEF RecheckFails, accounts, Types
    <3>2. CASE Recheck(w, item)
      <4>1. rechecks' = rechecks \union {[[order |-> item[1], day |-> item[2], run |-> job.slot, status |-> status]
                           EXCEPT !.run = <<w, @>>] : status \in VerdictNow(job, item)}
        BY <3>2 DEF Recheck, Row
      <4>2. \A status \in VerdictNow(job, item) :
              [[order |-> item[1], day |-> item[2], run |-> job.slot, status |-> status] EXCEPT !.run = <<w, @>>]
                \in Rows
        BY <2>1, VerdictIsOne DEF Rows, Items, Jobs
      <4> QED
        BY <4>1, <4>2 DEF Types
    <3> QED
      BY <1>11, <3>1, <3>2
  <2> QED
    BY <1>1, <2>2, <2>3, <2>4, <2>5, <2>6 DEF Types
<1>12. ASSUME NEW w \in Workers, FinishRecheck(w) \/ Dies(w) PROVE Types' /\ Evenings'
  BY <1>9, <1>12 DEF FinishRecheck, Dies, accounts, Types
<1> QED
  BY <1>3, <1>4, <1>5, <1>6, <1>7, <1>8, <1>10, <1>11, <1>12 DEF QualityNext, Job

(***************************************************************************)
(* A run that moves on without writing a row keeps the accounts, and what  *)
(* is old and pending stays in its list or among its errors.               *)
(***************************************************************************)
LEMMA Frame ==
  ASSUME Types, Evenings, Accounts, Taken, UNCHANGED <<slot, quality, rechecks, runs>>,
         NEW w \in Workers, NEW q \in Jobs, Set(w, q), q.slot = jobs[w].slot,
         q.pc # "idle" => /\ jobs[w].pc # "idle" /\ q.recorded = jobs[w].recorded /\ q.day = jobs[w].day,
         q.pc = "recheck" =>
           /\ q.todo \cap q.recorded = {}
           /\ \A item \in Pending : q.day - item[2] >= FinalAfter => item \in q.todo \/ item[1] \in q.errors
  PROVE  Accounts' /\ Taken'
<1>1. jobs' = [v \in Workers |-> IF v = w THEN q ELSE jobs[v]]
  BY DEF Types, Set
<1>2. \A v \in Workers : jobs'[v] = IF v = w THEN q ELSE jobs[v]
  BY <1>1
<1>3. \A v \in Workers : jobs'[v].slot = jobs[v].slot
  BY <1>2
<1>4. Pending' = Pending /\ Day' = Day
  BY DEF Pending, Rechecked, Day
<1>5. \A v \in Workers : RowsWritten(v)' = RowsWritten(v)
  BY <1>3 DEF RowsWritten
<1>6. \A r \in rechecks : r.run[1] \in Workers
  BY DEF Types, Rows
<1>7. Accounts'
  <2>1. \A r \in rechecks' : r.run[2] <= jobs'[r.run[1]].slot
    BY <1>3, <1>6 DEF Accounts
  <2>2. \A v \in Workers : jobs'[v].pc # "idle" => jobs'[v].recorded = RowsWritten(v)'
    BY <1>2, <1>5 DEF Accounts
  <2>3. \A v \in Workers : jobs'[v].pc = "recheck" => jobs'[v].todo \cap jobs'[v].recorded = {}
    BY <1>2 DEF Accounts
  <2> QED
    BY <1>4, <2>1, <2>2, <2>3 DEF Accounts
<1>8. Taken'
  BY <1>2, <1>4 DEF Taken
<1> QED
  BY <1>7, <1>8

(***************************************************************************)
(* No step gives a session a second account, or lets an old pending        *)
(* session leave the list of a run without one.                            *)
(***************************************************************************)
LEMMA AccountsStep ==
  ASSUME LimitsAssumption, Types, Evenings, Accounts, Taken, [QualityNext]_qualityVars
  PROVE  Accounts' /\ Taken'
<1>0. Types' /\ Evenings' /\ Day \in Nat \ {0} /\ FinalAfter \in Nat \ {0} /\ RecentRuns \in Nat \ {0}
  BY TypesStep, DayType DEF Types, LimitsAssumption
<1>99. PendingMeans /\ PendingMeans'
  BY <1>0, PendingMeaning, PendingMeaningNext
<1>1. ASSUME NEW w \in Workers PROVE jobs[w] \in Jobs /\ Evening(jobs[w])
  BY DEF Types, Evenings
<1>2. ASSUME UNCHANGED <<quality, rechecks, runs, jobs>>, Day' >= Day PROVE Accounts' /\ Taken'
  <2>1. Pending' = Pending /\ \A w \in Workers : RowsWritten(w)' = RowsWritten(w)
    BY <1>2 DEF Pending, Rechecked, RowsWritten
  <2>2. Taken'
    BY <1>2, <2>1 DEF Taken
  <2>3. \A r \in rechecks : r.day < Day'
    <3> SUFFICES ASSUME NEW r \in rechecks PROVE r.day < Day'
      OBVIOUS
    <3>1. r.day \in Nat /\ r.day < Day
      BY DEF Types, Rows, Accounts
    <3>2. Day' \in Nat
      <4>1. slot' \in Nat
        BY <1>0 DEF Types
      <4>2. \A n \in Nat : n \div 2 + 1 \in Nat
        OBVIOUS
      <4> QED
        BY <4>1, <4>2 DEF Day
    <3> QED
      BY <1>0, <1>2, <3>1, <3>2
  <2> QED
    BY <1>2, <2>1, <2>2, <2>3 DEF Accounts
<1>3. CASE UNCHANGED qualityVars \/ NextSlot \/ \E o \in Orders, d \in 1..Day : OrderEnds(o, d)
  <2>1. UNCHANGED <<quality, rechecks, runs, jobs>> /\ slot' \in {slot, slot + 1}
    BY <1>3 DEF qualityVars, NextSlot, OrderEnds, accounts
  <2>2. Day' >= Day
    <3>1. \A n \in Nat : (n + 1) \div 2 >= n \div 2 /\ n \div 2 \in Nat
      OBVIOUS
    <3> QED
      BY <2>1, <3>1 DEF Day, Types
  <2> QED
    BY <1>2, <2>1, <2>2
<1>4. ASSUME NEW w \in Workers, StartEndOfDay(w) PROVE Accounts' /\ Taken'
  <2>1. /\ UNCHANGED <<slot, quality, rechecks, runs>> /\ jobs[w].slot < slot
        /\ \E q : Set(w, q) /\ q.pc = "quality" /\ q.slot = slot /\ q.recorded = {}
    <3>1. PICK failed \in SUBSET Orders, answered \in SUBSET Orders :
            LET stored == observed \union (answered \X {Day}) IN
            Set(w, [NotRunning EXCEPT !.pc = "quality", !.slot = slot, !.day = Day,
                         !.todo = {<<o, Day>> : o \in {p \in Orders : ~EndsBefore(p, Day)}},
                         !.failed = failed \X {Day}, !.known = stored])
      BY <1>4 DEF StartEndOfDay
    <3> DEFINE todo == {<<o, Day>> : o \in {p \in Orders : ~EndsBefore(p, Day)}}
               known == observed \union (answered \X {Day})
               q == [NotRunning EXCEPT !.pc = "quality", !.slot = slot, !.day = Day, !.todo = todo,
                       !.failed = failed \X {Day}, !.known = known]
    <3>2. q \in [pc : {"quality"}, slot : {slot}, day : {Day}, todo : {todo}, failed : {failed \X {Day}},
                 known : {known}, missed : {{}}, errors : {{}}, recorded : {{}}]
      BY DEF NotRunning
    <3>3. Set(w, q)
      BY <3>1
    <3> HIDE DEF todo, known, q
    <3>4. q.pc = "quality" /\ q.slot = slot /\ q.recorded = {}
      BY <3>2
    <3>5. UNCHANGED <<slot, quality, rechecks, runs>> /\ jobs[w].slot < slot
      BY <1>4 DEF StartEndOfDay, accounts
    <3> QED
      BY <3>3, <3>4, <3>5
  <2>2. PICK q : Set(w, q) /\ q.pc = "quality" /\ q.slot = slot /\ q.recorded = {}
    BY <2>1
  <2>3. \A v \in Workers : jobs'[v] = IF v = w THEN q ELSE jobs[v]
    BY <2>2 DEF Types, Set
  <2>4. \A r \in rechecks : r.run \in Workers \X Int /\ r.run[2] <= jobs[r.run[1]].slot
    BY DEF Accounts, Types, Rows
  <2>5. \A r \in rechecks : r.run # <<w, slot>> /\ r.run[2] <= jobs'[r.run[1]].slot
    <3> SUFFICES ASSUME NEW r \in rechecks PROVE r.run # <<w, slot>> /\ r.run[2] <= jobs'[r.run[1]].slot
      OBVIOUS
    <3>1. r.run[1] \in Workers /\ r.run[2] \in Int /\ slot \in Nat /\ jobs[r.run[1]].slot \in Int
      BY <1>1, <2>4 DEF Types, Jobs
    <3>2. CASE r.run[1] = w
      BY <2>1, <2>2, <2>3, <2>4, <3>1, <3>2
    <3>3. CASE r.run[1] # w
      BY <2>3, <2>4, <3>1, <3>3
    <3> QED
      BY <3>2, <3>3
  <2>6. RowsWritten(w)' = {}
    BY <2>1, <2>2, <2>3, <2>5 DEF RowsWritten
  <2>7. \A v \in Workers \ {w} : RowsWritten(v)' = RowsWritten(v)
    BY <2>1, <2>3 DEF RowsWritten
  <2>8. Pending' = Pending /\ Day' = Day
    BY <2>1 DEF Pending, Rechecked, Day
  <2>9. Taken'
    BY <2>2, <2>3, <2>8 DEF Taken
  <2>10. \A v \in Workers : jobs'[v].pc # "idle" => jobs'[v].recorded = RowsWritten(v)'
    BY <2>2, <2>3, <2>6, <2>7 DEF Accounts
  <2>11. \A v \in Workers : jobs'[v].pc = "recheck" => jobs'[v].todo \cap jobs'[v].recorded = {}
    BY <2>2, <2>3 DEF Accounts
  <2>12. Accounts'
    BY <2>1, <2>5, <2>8, <2>10, <2>11 DEF Accounts
  <2> QED
    BY <2>9, <2>12
<1>5. ASSUME NEW w \in Workers, NEW o \in Orders, Measure(w, o) \/ MeasureFails(w, o)
      PROVE  Accounts' /\ Taken'
  <2> DEFINE job == jobs[w]
             rest == job.todo \ {<<o, job.day>>}
             a == [job EXCEPT !.todo = rest]
             b == [a EXCEPT !.missed = @ \union {o}]
             c == [job EXCEPT !.todo = rest, !.errors = @ \union {o}]
  <2>1. Set(w, a) \/ Set(w, b) \/ Set(w, c)
    BY <1>5 DEF Measure, MeasureFails
  <2>2. job \in Jobs /\ Evening(job) /\ job.pc = "quality"
    BY <1>1, <1>5 DEF Measure, MeasureFails
  <2>3. a \in Jobs /\ b \in Jobs /\ c \in Jobs
    BY <2>2 DEF Jobs
  <2>4. \A q \in {a, b, c} : q.pc = "quality" /\ q.slot = job.slot /\ q.day = job.day /\ q.recorded = job.recorded
    BY <2>2 DEF Jobs
  <2> HIDE DEF a, b, c
  <2>5. PICK q \in {a, b, c} : Set(w, q)
    BY <2>1
  <2>6. q \in Jobs /\ q.pc = "quality" /\ q.slot = job.slot /\ q.day = job.day /\ q.recorded = job.recorded
    BY <2>3, <2>4
  <2>7. UNCHANGED <<slot, rechecks, runs>> /\ quality' \in {quality, quality \union {<<o, Day>>}}
    BY <2>2, <1>5 DEF Measure, MeasureFails, accounts, Evening
  <2>8. \A v \in Workers : jobs'[v] = IF v = w THEN q ELSE jobs[v]
    BY <2>5 DEF Types, Set
  <2>9. Pending' \subseteq Pending
    <3>1. \A x : Rechecked(x[1], x[2])' <=> Rechecked(x[1], x[2])
      BY <2>7 DEF Rechecked
    <3> QED
      BY <1>99, <2>7, <3>1 DEF PendingMeans
  <2>10. \A v \in Workers : jobs'[v].slot = jobs[v].slot /\ RowsWritten(v)' = RowsWritten(v)
    BY <2>6, <2>7, <2>8 DEF RowsWritten
  <2>11. \A r \in rechecks : <<r.order, r.day>> \notin quality' /\ r.run[2] <= jobs'[r.run[1]].slot
    <3> SUFFICES ASSUME NEW r \in rechecks PROVE <<r.order, r.day>> \notin quality' /\ r.run[2] <= jobs'[r.run[1]].slot
      OBVIOUS
    <3>1. r.day # Day /\ r.run[1] \in Workers /\ <<r.order, r.day>> \notin quality /\ r.run[2] <= jobs[r.run[1]].slot
      BY <1>0 DEF Accounts, Types, Rows
    <3> QED
      BY <2>7, <2>10, <3>1
  <2>12. Day' = Day
    BY <2>7 DEF Day
  <2>13. Taken'
    BY <2>2, <2>6, <2>8, <2>9 DEF Taken
  <2>14. \A v \in Workers : /\ jobs'[v].pc # "idle" => jobs'[v].recorded = RowsWritten(v)'
                            /\ jobs'[v].pc = "recheck" => jobs'[v].todo \cap jobs'[v].recorded = {}
    BY <2>2, <2>6, <2>8, <2>10 DEF Accounts
  <2>15. Accounts'
    BY <2>7, <2>11, <2>12, <2>14 DEF Accounts
  <2> QED
    BY <2>13, <2>15
<1>6. ASSUME NEW w \in Workers, FinishQuality(w) PROVE Accounts' /\ Taken'
  <2> DEFINE job == jobs[w]
             q == [job EXCEPT !.pc = "measured"]
             run == [day |-> job.day, missed |-> job.missed, errors |-> job.errors]
  <2>1. job \in Jobs /\ Evening(job) /\ job.pc = "quality" /\ Set(w, q) /\ runs' = <<run>> \o runs
    BY <1>1, <1>6 DEF FinishQuality
  <2>2. /\ q \in Jobs /\ q.pc = "measured" /\ q.slot = job.slot /\ q.day = job.day /\ q.recorded = job.recorded
        /\ run \in Runs /\ run.day = Day
    BY <2>1 DEF Jobs, Runs, Evening
  <2> HIDE DEF q, run
  <2>3. UNCHANGED <<slot, quality, rechecks>>
    BY <1>6 DEF FinishQuality, accounts
  <2>4. \A v \in Workers : jobs'[v] = IF v = w THEN q ELSE jobs[v]
    BY <2>1 DEF Types, Set
  <2>5. \A v \in Workers : jobs'[v].slot = jobs[v].slot /\ RowsWritten(v)' = RowsWritten(v)
    BY <2>2, <2>3, <2>4 DEF RowsWritten
  <2>6. ASSUME NEW item \in Pending' PROVE item \in Pending \/ item[2] = Day
    <3>1. /\ item \in Items /\ item \notin quality /\ ~Rechecked(item[1], item[2])
          /\ \E i \in DOMAIN runs' : /\ i <= RecentRuns /\ item[1] \in runs'[i].missed
                                     /\ item[2] = runs'[i].day
      BY <1>99, <2>3 DEF PendingMeans, Rechecked
    <3>2. PICK i \in DOMAIN runs' : i <= RecentRuns /\ item[1] \in runs'[i].missed /\ item[2] = runs'[i].day
      BY <3>1
    <3>3. runs \in Seq(Runs) /\ DOMAIN runs' = 1..(Len(runs) + 1) /\ i \in Int
      BY <2>1, <2>2, <3>2 DEF Types
    <3>4. CASE i = 1
      BY <2>1, <2>2, <3>2, <3>3, <3>4
    <3>5. CASE i # 1
      <4>1. i - 1 \in DOMAIN runs /\ runs'[i] = runs[i - 1]
        BY <2>1, <2>2, <3>2, <3>3, <3>5
      <4> QED
        BY <1>0, <3>1, <3>2, <3>3, <4>1, PendingItems
    <3> QED
      BY <3>4, <3>5
  <2>7. Day' = Day
    BY <2>3 DEF Day
  <2>8. Taken'
    <3> SUFFICES ASSUME NEW v \in Workers, jobs'[v].pc = "recheck", NEW item \in Pending',
                        jobs'[v].day - item[2] >= FinalAfter
                 PROVE  item \in jobs'[v].todo \/ item[1] \in jobs'[v].errors
      BY DEF Taken
    <3>1. v # w /\ jobs'[v] = jobs[v] /\ jobs[v].day = Day
      BY <1>1, <2>2, <2>4 DEF Evening
    <3>2. item[2] # Day
      BY <1>0, <3>1
    <3> QED
      BY <2>6, <3>1, <3>2 DEF Taken
  <2>9. \A v \in Workers : /\ jobs'[v].pc # "idle" => jobs'[v].recorded = RowsWritten(v)'
                           /\ jobs'[v].pc = "recheck" => jobs'[v].todo \cap jobs'[v].recorded = {}
    BY <2>1, <2>2, <2>4, <2>5 DEF Accounts
  <2>10. \A r \in rechecks : r.run[2] <= jobs'[r.run[1]].slot
    BY <2>5 DEF Accounts, Types, Rows
  <2> QED
    BY <2>3, <2>7, <2>8, <2>9, <2>10 DEF Accounts
<1>7. ASSUME NEW w \in Workers, Stop(w), UNCHANGED <<slot, quality, rechecks, runs>> PROVE Accounts' /\ Taken'
  <2> DEFINE q == [NotRunning EXCEPT !.slot = jobs[w].slot]
  <2>1. q \in Jobs /\ q.pc = "idle" /\ q.slot = jobs[w].slot
    BY <1>1 DEF Jobs, NotRunning
  <2>2. Set(w, q)
    BY <1>7 DEF Stop
  <2> HIDE DEF q
  <2> QED
    BY <1>7, <2>1, <2>2, Frame
<1>8. ASSUME NEW w \in Workers, StartRecheck(w) PROVE Accounts' /\ Taken'
  <2> DEFINE older == {item \in Pending : item[2] < jobs[w].day}
  <2>1. older \in SUBSET Items /\ \A item \in older : ~Rechecked(item[1], item[2])
    BY RecentItems
  <2>2. UNCHANGED <<slot, quality, rechecks, runs>> /\ jobs[w].pc = "measured"
    BY <1>8 DEF StartRecheck, accounts
  <2>3. CASE older = {}
    BY <1>7, <1>8, <2>2, <2>3 DEF StartRecheck
  <2>4. CASE older # {}
    <3>1. PICK failed, known :
            Set(w, [jobs[w] EXCEPT !.pc = "recheck", !.errors = {}, !.todo = older, !.failed = failed,
                         !.known = known])
      BY <1>8, <2>4 DEF StartRecheck
    <3> DEFINE q == [jobs[w] EXCEPT !.pc = "recheck", !.errors = {}, !.todo = older, !.failed = failed,
                                  !.known = known]
    <3>2. \A item \in Pending : jobs[w].day - item[2] >= FinalAfter => item \in older
      <4> SUFFICES ASSUME NEW item \in Pending, jobs[w].day - item[2] >= FinalAfter
                   PROVE  item[2] < jobs[w].day
        OBVIOUS
      <4>1. item[2] \in Nat /\ jobs[w].day \in Nat
        BY <1>1, RecentItems DEF Items, Jobs
      <4> QED
        BY <1>0, <4>1
    <3> HIDE DEF older
    <3>3. /\ q \in [pc : {"recheck"}, slot : {jobs[w].slot}, day : {jobs[w].day}, todo : {older},
                   failed : {failed}, known : {known}, missed : {jobs[w].missed}, errors : {{}},
                   recorded : {jobs[w].recorded}]
          /\ Set(w, q)
      BY <1>1, <3>1 DEF Jobs
    <3> HIDE DEF q
    <3>4. q \in Jobs
      <4>1. jobs'[w] = q
        BY <3>3 DEF Types, Set
      <4> QED
        BY <1>0, <4>1 DEF Types
    <3>5. jobs[w].recorded = RowsWritten(w)
      BY <2>2 DEF Accounts
    <3>6. older \cap jobs[w].recorded = {}
      BY <2>1, <3>5 DEF RowsWritten, Rechecked
    <3> QED
      BY <2>2, <3>2, <3>3, <3>4, <3>6, Frame
  <2> QED
    BY <2>3, <2>4
<1>9. ASSUME NEW w \in Workers, NEW item \in jobs[w].todo, RecheckFails(w, item) PROVE Accounts' /\ Taken'
  <2> DEFINE job == jobs[w]
             recorded == IF VerdictNow(job, item) = {} THEN job.recorded ELSE job.recorded \union {item}
             q == [job EXCEPT !.todo = @ \ {item}, !.errors = @ \union {item[1]},
                              !.recorded = recorded \ {item}]
  <2>1. job \in Jobs /\ job.pc = "recheck" /\ Set(w, q)
    BY <1>1, <1>9 DEF RecheckFails
  <2>2. recorded \ {item} = job.recorded
    <3>1. item \notin job.recorded
      BY <1>9, <2>1 DEF Accounts
    <3> QED
      BY <3>1
  <2> HIDE DEF recorded
  <2>3. q \in [pc : {"recheck"}, slot : {job.slot}, day : {job.day}, todo : {job.todo \ {item}},
               failed : {job.failed}, known : {job.known}, missed : {job.missed},
               errors : {job.errors \union {item[1]}}, recorded : {job.recorded}]
    BY <2>1, <2>2 DEF Jobs
  <2> HIDE DEF q
  <2>4. q \in Jobs
    <3>1. jobs'[w] = q
      BY <2>1 DEF Types, Set
    <3> QED
      BY <1>0, <3>1 DEF Types
  <2>5. UNCHANGED <<slot, quality, rechecks, runs>>
    BY <1>9 DEF RecheckFails, accounts
  <2>6. \A x \in Pending : q.day - x[2] >= FinalAfter => x \in q.todo \/ x[1] \in q.errors
    BY <2>1, <2>3 DEF Taken
  <2>7. q.todo \cap q.recorded = {}
    BY <2>1, <2>3 DEF Accounts
  <2> QED
    BY <2>1, <2>3, <2>4, <2>5, <2>6, <2>7, Frame
<1>10. ASSUME NEW w \in Workers, NEW item \in jobs[w].todo, Recheck(w, item) PROVE Accounts' /\ Taken'
  <2> DEFINE job == jobs[w]
             verdict == VerdictNow(job, item)
             q == [job EXCEPT !.todo = @ \ {item}, !.recorded = IF verdict = {} THEN @ ELSE @ \union {item}]
             rows == {[Row(job, item, status) EXCEPT !.run = <<w, @>>] : status \in verdict}
  <2>1. job \in Jobs /\ job.pc = "recheck" /\ Set(w, q) /\ item \in Items /\ item[2] < Day /\ job.day = Day
    BY <1>1, <1>10 DEF Recheck, Jobs, Evening
  <2>2. rechecks' = rechecks \union rows
    BY <1>10 DEF Recheck
  <2>3. \A r \in rows : /\ r.order = item[1] /\ r.day = item[2] /\ r.run = <<w, job.slot>>
                        /\ r.status \in verdict
                        /\ r \in [order : {item[1]}, day : {item[2]}, run : {<<w, job.slot>>}, status : verdict]
    BY DEF Row
  <2>4. \A r, s \in rows : r = s
    BY <2>3, VerdictIsOne
  <2>5. verdict = {} => rows = {}
    OBVIOUS
  <2>6. verdict # {} => rows # {} /\ ~Rechecked(item[1], item[2]) /\ item \notin quality
    <3>1. \A status \in verdict : [Row(job, item, status) EXCEPT !.run = <<w, @>>] \in rows
      OBVIOUS
    <3>2. verdict # {} => ~Rechecked(item[1], item[2]) /\ item \notin quality
      BY VerdictIsOne
    <3> HIDE DEF rows, verdict
    <3> QED
      BY <3>1, <3>2
  <2>7. q \in [pc : {"recheck"}, slot : {job.slot}, day : {job.day}, todo : {job.todo \ {item}},
               failed : {job.failed}, known : {job.known}, missed : {job.missed},
               errors : {job.errors},
               recorded : {IF verdict = {} THEN job.recorded ELSE job.recorded \union {item}}]
    BY <2>1 DEF Jobs
  <2>8. Final(job, item[2]) /\ verdict = {} => Rechecked(item[1], item[2]) \/ item \in quality
    BY VerdictIsOne
  <2> HIDE DEF q, rows, verdict
  <2>9. UNCHANGED <<slot, quality, runs>> /\ Day' = Day
    BY <1>10 DEF Recheck, Day
  <2>10. jobs'[w] = q /\ \A v \in Workers : jobs'[v] = IF v = w THEN q ELSE jobs[v]
    BY <2>1 DEF Types, Set
  <2>11. item = <<item[1], item[2]>>
    BY <2>1 DEF Items
  <2>12. Pending' = Pending \ (IF verdict = {} THEN {} ELSE {item})
    <3>1. \A x \in Items : Rechecked(x[1], x[2])' <=> Rechecked(x[1], x[2]) \/ (verdict # {} /\ x = item)
      <4>1. \A x \in Items : x = item <=> x[1] = item[1] /\ x[2] = item[2]
        BY <2>1 DEF Items
      <4> QED
        BY <2>2, <2>3, <2>5, <2>6, <4>1 DEF Rechecked
    <3>2. ASSUME NEW x \in Pending' PROVE x \in Pending /\ (verdict # {} => x # item)
      <4>1. /\ x \in Items /\ x \notin quality /\ ~Rechecked(x[1], x[2])'
            /\ \E i \in DOMAIN runs : /\ i <= RecentRuns /\ x[1] \in runs[i].missed /\ x[2] = runs[i].day
        BY <1>99, <2>9 DEF PendingMeans
      <4> QED
        BY <3>1, <4>1, PendingItems
    <3>3. ASSUME NEW x \in Pending, verdict # {} => x # item PROVE x \in Pending'
      <4>1. /\ x \in Items /\ x \notin quality' /\ ~Rechecked(x[1], x[2])'
            /\ \E i \in DOMAIN runs' : /\ i <= RecentRuns /\ x[1] \in runs'[i].missed /\ x[2] = runs'[i].day
        BY <2>9, <3>1, <3>3, RecentItems
      <4> QED
        BY <1>99, <4>1 DEF PendingMeans
    <3> QED
      BY <3>2, <3>3
  <2>13. Taken'
    <3> SUFFICES ASSUME NEW v \in Workers, jobs'[v].pc = "recheck", NEW x \in Pending',
                        jobs'[v].day - x[2] >= FinalAfter
                 PROVE  x \in jobs'[v].todo \/ x[1] \in jobs'[v].errors
      BY DEF Taken
    <3>1. x \in Pending /\ (verdict # {} => x # item)
      BY <2>12
    <3>2. CASE v # w
      BY <2>10, <3>1, <3>2 DEF Taken
    <3>3. CASE v = w
      <4>1. jobs'[v].day = job.day /\ jobs'[v].todo = job.todo \ {item} /\ jobs'[v].errors = job.errors
        BY <2>7, <2>10, <3>3
      <4>2. x \in job.todo \/ x[1] \in job.errors
        BY <2>1, <3>1, <4>1 DEF Taken
      <4>3. x # item
        <5> SUFFICES ASSUME x = item, verdict = {} PROVE FALSE
          BY <3>1
        <5>1. Final(job, item[2])
          BY <4>1 DEF Final
        <5> QED
          BY <2>8, <3>1, <5>1, RecentItems
      <4> QED
        BY <4>1, <4>2, <4>3
    <3> QED
      BY <3>2, <3>3
  <2>14. \A r, s \in rechecks' : r.order = s.order /\ r.day = s.day => r = s
    BY <2>2, <2>3, <2>4, <2>5, <2>6 DEF Accounts, Rechecked
  <2>15. \A r \in rechecks' : <<r.order, r.day>> \notin quality' /\ r.day < Day'
    BY <2>1, <2>2, <2>3, <2>5, <2>6, <2>9, <2>11 DEF Accounts
  <2>16. \A v \in Workers : jobs'[v].slot = jobs[v].slot /\ jobs[v].slot \in Int
    BY <1>1, <2>7, <2>10 DEF Jobs
  <2>17. \A r \in rechecks' : r.run[2] <= jobs'[r.run[1]].slot
    <3>1. \A r \in rechecks : r.run[1] \in Workers /\ r.run[2] <= jobs[r.run[1]].slot
      BY DEF Accounts, Types, Rows
    <3> QED
      BY <2>2, <2>3, <2>16, <3>1
  <2>18. \A v \in Workers \ {w} : RowsWritten(v)' = RowsWritten(v)
    BY <2>2, <2>3, <2>16 DEF RowsWritten
  <2>19. RowsWritten(w)' = RowsWritten(w) \union (IF verdict = {} THEN {} ELSE {item})
    <3>1. {r \in rechecks' : r.run = <<w, jobs'[w].slot>>} = {r \in rechecks : r.run = <<w, job.slot>>} \union rows
      BY <2>2, <2>3, <2>16
    <3>2. \A r \in rows : <<r.order, r.day>> = item
      BY <2>3, <2>11
    <3> QED
      BY <2>5, <2>6, <3>1, <3>2 DEF RowsWritten
  <2>20. \A v \in Workers : jobs'[v].pc # "idle" => jobs'[v].recorded = RowsWritten(v)'
    <3> SUFFICES ASSUME NEW v \in Workers, jobs'[v].pc # "idle" PROVE jobs'[v].recorded = RowsWritten(v)'
      OBVIOUS
    <3>1. CASE v # w
      <4>1. RowsWritten(v)' = RowsWritten(v)
        BY <2>18, <3>1
      <4> QED
        BY <2>10, <3>1, <4>1 DEF Accounts
    <3>2. CASE v = w
      <4>1. job.recorded = RowsWritten(w)
        BY <2>1 DEF Accounts
      <4>2. q.recorded = IF verdict = {} THEN job.recorded ELSE job.recorded \union {item}
        BY <2>7
      <4>3. q.recorded = RowsWritten(w)'
        BY <2>19, <4>1, <4>2
      <4> QED
        BY <2>10, <3>2, <4>3
    <3> QED
      BY <3>1, <3>2
  <2>21. \A v \in Workers : jobs'[v].pc = "recheck" => jobs'[v].todo \cap jobs'[v].recorded = {}
    BY <2>1, <2>7, <2>10 DEF Accounts
  <2> QED
    BY <2>13, <2>14, <2>15, <2>17, <2>20, <2>21 DEF Accounts
<1>12. ASSUME NEW w \in Workers, FinishRecheck(w) \/ Dies(w) PROVE Accounts' /\ Taken'
  BY <1>7, <1>12 DEF FinishRecheck, Dies, accounts
<1> QED
  BY <1>3, <1>4, <1>5, <1>6, <1>8, <1>9, <1>10, <1>12 DEF QualityNext, Job

-----------------------------------------------------------------------------

(***************************************************************************)
(* A run that ends without crashing has an empty list, so that only the    *)
(* orders whose transaction failed can leave something old pending.        *)
(***************************************************************************)
LEMMA SettlesStep ==
  ASSUME LimitsAssumption, QualityInv, [QualityNext]_qualityVars
  PROVE  [SettlesOlderSessions]_qualityVars
<1> SUFFICES ASSUME QualityNext, NEW w \in Workers, jobs[w].pc \in {"measured", "recheck"},
                    jobs'[w].pc = "idle", qualitySpent'.crashes = qualitySpent.crashes,
                    NEW item \in Pending, jobs[w].day - item[2] >= FinalAfter
             PROVE  item[1] \in jobs[w].errors
  BY DEF SettlesOlderSessions
<1>1. jobs \in [Workers -> Jobs] /\ qualitySpent \in [errors : Nat, crashes : Nat]
  BY DEF QualityInv, Types
<1>2. ASSUME NEW v \in Workers, NEW q, Set(v, q), q.pc # "idle" \/ v # w PROVE FALSE
  BY <1>1, <1>2 DEF Set
<1>3. CASE StartRecheck(w)
  <2>1. {x \in Pending : x[2] < jobs[w].day} = {}
    <3>1. SUFFICES ASSUME {x \in Pending : x[2] < jobs[w].day} # {} PROVE FALSE
      OBVIOUS
    <3>2. PICK failed, known :
            Set(w, [jobs[w] EXCEPT !.pc = "recheck", !.errors = {},
                      !.todo = {x \in Pending : x[2] < jobs[w].day}, !.failed = failed, !.known = known])
      BY <1>3, <3>1 DEF StartRecheck
    <3> QED
      BY <1>1, <1>2, <3>2 DEF Jobs
  <2>2. item[2] \in Nat /\ jobs[w].day \in Nat /\ FinalAfter \in Nat \ {0}
    BY <1>1, RecentItems DEF QualityInv, Items, Jobs, LimitsAssumption
  <2> QED
    BY <2>1, <2>2
<1>4. CASE FinishRecheck(w)
  BY <1>4 DEF FinishRecheck, QualityInv, Taken
<1>5. CASE \E v \in Workers : Dies(v)
  BY <1>1, <1>5 DEF Dies
<1>6. ASSUME NEW v \in Workers, NEW x, Recheck(v, x) \/ RecheckFails(v, x) PROVE FALSE
  <2>1. PICK rest, recorded, errors :
          \/ Set(v, [jobs[v] EXCEPT !.todo = rest, !.recorded = recorded])
          \/ Set(v, [jobs[v] EXCEPT !.todo = rest, !.errors = errors, !.recorded = recorded])
    BY <1>6 DEF Recheck, RecheckFails
  <2>2. jobs[v].pc = "recheck"
    BY <1>6 DEF Recheck, RecheckFails
  <2>3. [jobs[v] EXCEPT !.todo = rest, !.recorded = recorded].pc = "recheck"
    BY <1>1, <2>2 DEF Jobs
  <2>4. [jobs[v] EXCEPT !.todo = rest, !.errors = errors, !.recorded = recorded].pc = "recheck"
    BY <1>1, <2>2 DEF Jobs
  <2> QED
    BY <1>2, <2>1, <2>3, <2>4
<1>7. ASSUME NEW v \in Workers, NEW o, Measure(v, o) \/ MeasureFails(v, o) PROVE FALSE
  <2>1. jobs[v].pc = "quality" /\ \E q : Set(v, q)
    BY <1>7 DEF Measure, MeasureFails
  <2> QED
    BY <1>2, <2>1
<1>8. ASSUME NEW v \in Workers, StartEndOfDay(v) \/ FinishQuality(v) PROVE FALSE
  <2>1. jobs[v].pc \in {"idle", "quality"} /\ \E q : Set(v, q)
    BY <1>8 DEF StartEndOfDay, FinishQuality
  <2> QED
    BY <1>2, <2>1
<1>9. ASSUME NEW v \in Workers, StartRecheck(v) \/ FinishRecheck(v) PROVE v = w
  <2>1. \E q : Set(v, q)
    BY <1>9 DEF StartRecheck, FinishRecheck, Stop
  <2> QED
    BY <1>2, <2>1
<1>10. ~NextSlot /\ ~\E o \in Orders, d \in 1..Day : OrderEnds(o, d)
  BY DEF NextSlot, OrderEnds
<1> QED
  BY <1>3, <1>4, <1>5, <1>6, <1>7, <1>8, <1>9, <1>10 DEF QualityNext, Job

(***************************************************************************)
(* One account per session and order, however two runs overlap, and the    *)
(* run's own summary is what it committed (D4, D22).                       *)
(***************************************************************************)
THEOREM SessionsAccounted ==
  ASSUME LimitsAssumption
  PROVE  QualitySpec => []OneAccountPerSession
<1>1. QualityInit => QualityInv
  BY TypesInit DEF QualityInv
<1>2. QualityInv /\ [QualityNext]_qualityVars => QualityInv'
  BY TypesStep, AccountsStep DEF QualityInv
<1>3. QualityInv => OneAccountPerSession
  BY DEF QualityInv, Accounts, OneAccountPerSession, RowsWritten
<1> QED
  BY <1>1, <1>2, <1>3, PTL DEF QualitySpec

(***************************************************************************)
(* A recheck run that comes to its end settles every session of FinalAfter *)
(* sessions before, but for the orders whose own transaction failed in it  *)
(* (D52).                                                                  *)
(***************************************************************************)
THEOREM SessionsSettle ==
  ASSUME LimitsAssumption
  PROVE  QualitySpec => NothingLingers
<1>1. QualityInit => QualityInv
  BY TypesInit DEF QualityInv
<1>2. QualityInv /\ [QualityNext]_qualityVars => QualityInv'
  BY TypesStep, AccountsStep DEF QualityInv
<1>3. QualityInv /\ [QualityNext]_qualityVars => [SettlesOlderSessions]_qualityVars
  BY SettlesStep
<1> QED
  BY <1>1, <1>2, <1>3, PTL DEF QualitySpec, NothingLingers

-----------------------------------------------------------------------------
(* No session is dropped. *)

Crew == qualityBound.workers
Measuring == {w \in Crew : jobs[w].pc = "quality"}
Begun == {w \in Crew : jobs[w].slot = slot}

\* At most so many runs began in the first slot, when this is the second.
FirstSlot == IF slot % 2 = 1 THEN Cardinality(Crew) ELSE 0

\* What a run of the day, or its record, knows of an order's session.
Known(o, run) ==
  EndsBefore(o, run.day) \/ <<o, run.day>> \in quality \/ o \in run.missed \/ o \in run.errors

Newest(j) == \A m \in DOMAIN runs : runs[m].day = runs[j].day => j <= m
Unsettled(o, day) == <<o, day>> \notin quality /\ ~Rechecked(o, day)

\* The jobs that will settle the item unless they fail.
Settling(item) ==
  {w \in Crew : /\ jobs[w].day - item[2] >= FinalAfter
                /\ jobs[w].pc = "measured" \/ (jobs[w].pc = "recheck" /\ item \in jobs[w].todo)}

\* No run measures without the schedule, and none forgets an order.
Staffed ==
  /\ qualityBound \in QualityBounds
  /\ qualitySpent.errors <= qualityBound.errors /\ qualitySpent.crashes <= qualityBound.crashes
  /\ \A w \in Workers : jobs[w].pc # "idle" => w \in Crew

Complete ==
  /\ \A i \in DOMAIN runs, o \in Orders : Known(o, runs[i])
  /\ \A w \in Workers, o \in Orders :
       jobs[w].pc = "quality" => Known(o, jobs[w]) \/ <<o, jobs[w].day>> \in jobs[w].todo

\* A day has at most two runs of each worker.
Pace ==
  /\ Cardinality(Measuring) <= Cardinality(Begun) + FirstSlot
  /\ \A i \in DOMAIN runs :
       /\ runs[i].day <= Day
       /\ i + Cardinality(Measuring)
            <= Cardinality(Begun) + FirstSlot + 2 * Cardinality(Crew) * (Day - runs[i].day)
  /\ \A i, k \in DOMAIN runs : k <= i =>
       /\ runs[i].day <= runs[k].day
       /\ i - k + 1 <= 2 * Cardinality(Crew) * (runs[k].day - runs[i].day + 1)

\* A run that comes after the last day of a missed session settles it, or is
\* about to, or had a failure of its own.
Strikes ==
  \A j \in DOMAIN runs : Newest(j) =>
    \A o \in runs[j].missed : Unsettled(o, runs[j].day) =>
      \A i \in DOMAIN runs : runs[i].day - runs[j].day >= FinalAfter =>
        i <= Cardinality(Settling(<<o, runs[j].day>>)) + qualitySpent.errors + qualitySpent.crashes

LookbackInv == Staffed /\ Complete /\ Pace /\ Strikes

\* The steps of a job [q], by what the invariants tell apart.
Keeps(w, q) == q.slot = jobs[w].slot /\ q.day = jobs[w].day

Begins(w, q) ==
  /\ w \in Crew /\ jobs[w].pc = "idle" /\ jobs[w].slot < slot
  /\ q.pc = "quality" /\ q.slot = slot /\ q.day = Day
  /\ \A o \in Orders : EndsBefore(o, Day) \/ <<o, Day>> \in q.todo
  /\ UNCHANGED <<runs, qualitySpent>>

Measures(w, q) ==
  /\ jobs[w].pc = "quality" /\ q.pc = "quality" /\ Keeps(w, q)
  /\ \A o \in Orders : Known(o, jobs[w]) \/ <<o, jobs[w].day>> \in jobs[w].todo =>
                         Known(o, q)' \/ <<o, q.day>> \in q.todo
  /\ UNCHANGED runs

Completes(w, q) ==
  /\ jobs[w].pc = "quality" /\ jobs[w].todo = {} /\ q.pc = "measured" /\ Keeps(w, q)
  /\ runs' = <<[day |-> jobs[w].day, missed |-> jobs[w].missed, errors |-> jobs[w].errors]>> \o runs
  /\ UNCHANGED qualitySpent

TakesUp(w, q) ==
  /\ jobs[w].pc = "measured" /\ q.slot = jobs[w].slot /\ q.pc \in {"recheck", "idle"}
  /\ \A item \in Pending : item[2] < jobs[w].day =>
       q.pc = "recheck" /\ q.day = jobs[w].day /\ item \in q.todo
  /\ UNCHANGED <<runs, qualitySpent, quality, rechecks>>

Decides(w, q, item) ==
  /\ jobs[w].pc = "recheck" /\ q.pc = "recheck" /\ Keeps(w, q) /\ q.todo = jobs[w].todo \ {item}
  /\ \/ qualitySpent'.errors = qualitySpent.errors + 1
     \/ jobs[w].day - item[2] >= FinalAfter => (item \in quality \/ Rechecked(item[1], item[2])')
  /\ UNCHANGED runs

Ends(w, q) ==
  /\ jobs[w].pc # "idle" /\ q.pc = "idle" /\ q.slot = jobs[w].slot
  /\ \/ jobs[w].pc = "recheck" /\ jobs[w].todo = {}
     \/ qualitySpent'.crashes = qualitySpent.crashes + 1
  /\ UNCHANGED <<runs, quality, rechecks>>

\* What no step takes back.
Lasting ==
  /\ quality \subseteq quality' /\ rechecks \subseteq rechecks'
  /\ \A o \in Orders, d \in Nat : EndsBefore(o, d) => EndsBefore(o, d)'
  /\ UNCHANGED qualityBound
  /\ qualitySpent'.errors >= qualitySpent.errors /\ qualitySpent'.crashes >= qualitySpent.crashes
  /\ qualitySpent'.errors <= qualityBound.errors /\ qualitySpent'.crashes <= qualityBound.crashes

JobMoves(w, q) ==
  /\ Set(w, q) /\ UNCHANGED slot
  /\ \/ Begins(w, q) \/ Measures(w, q) \/ Completes(w, q) \/ TakesUp(w, q) \/ Ends(w, q)
     \/ \E item \in jobs[w].todo : Decides(w, q, item)

Rests == UNCHANGED <<slot, runs, jobs, quality, rechecks, qualitySpent>>

(***************************************************************************)
(* Every step is one of these.                                             *)
(***************************************************************************)
LEMMA JobStep ==
  ASSUME LimitsAssumption, LookbackAssumption, Types, Evenings, Staffed, [QualityNext]_qualityVars
  PROVE  /\ Lasting
         /\ Rests \/ NextSlot \/ \E w \in Workers, q \in Jobs : JobMoves(w, q)
<1>0. /\ qualitySpent \in [errors : Nat, crashes : Nat] /\ Day \in Nat \ {0} /\ slot \in Nat
      /\ qualityBound.errors \in Nat /\ qualityBound.crashes \in Nat
  BY DayType DEF Types, Staffed, LookbackAssumption
<1>1. ASSUME NEW w \in Workers PROVE jobs[w] \in Jobs /\ Evening(jobs[w])
  BY DEF Types, Evenings
<1>2. ASSUME UNCHANGED <<finals, qualityBound, quality>>, rechecks \subseteq rechecks',
             qualitySpent' = qualitySpent
      PROVE  Lasting
  BY <1>0, <1>2 DEF Lasting, EndsBefore, Staffed
<1>3. ASSUME UNCHANGED qualityVars \/ NextSlot PROVE Lasting /\ (Rests \/ NextSlot)
  BY <1>2, <1>3 DEF qualityVars, NextSlot, accounts, Rests
<1>4. ASSUME NEW o \in Orders, NEW d \in 1..Day, OrderEnds(o, d) PROVE Lasting /\ Rests
  <2>1. UNCHANGED <<qualityBound, slot, quality, rechecks, runs, jobs, qualitySpent>>
    BY <1>4 DEF OrderEnds
  <2>2. finals[o] = 0 /\ finals' = [finals EXCEPT ![o] = d]
    BY <1>4 DEF OrderEnds
  <2>3. \A p \in Orders, e \in Nat : EndsBefore(p, e) => EndsBefore(p, e)'
    <3> SUFFICES ASSUME NEW p \in Orders, NEW e \in Nat, EndsBefore(p, e) PROVE EndsBefore(p, e)'
      OBVIOUS
    <3>1. p # o
      BY <2>2 DEF EndsBefore
    <3>2. finals'[p] = finals[p]
      BY <2>2, <3>1
    <3> QED
      BY <3>2 DEF EndsBefore
  <2> QED
    BY <1>0, <2>1, <2>3 DEF Lasting, Rests, Staffed
<1>6. ASSUME NEW w \in Workers, StartEndOfDay(w) PROVE Lasting /\ \E q \in Jobs : JobMoves(w, q)
  <2>1. PICK failed \in SUBSET Orders, answered \in SUBSET Orders :
          LET stored == observed \union (answered \X {Day}) IN
          /\ observed' = stored
          /\ Set(w, [NotRunning EXCEPT !.pc = "quality", !.slot = slot, !.day = Day,
                       !.todo = {<<o, Day>> : o \in {p \in Orders : ~EndsBefore(p, Day)}},
                       !.failed = failed \X {Day}, !.known = stored])
    BY <1>6 DEF StartEndOfDay
  <2> DEFINE todo == {<<o, Day>> : o \in {p \in Orders : ~EndsBefore(p, Day)}}
             q == [NotRunning EXCEPT !.pc = "quality", !.slot = slot, !.day = Day, !.todo = todo,
                     !.failed = failed \X {Day}, !.known = observed']
  <2>2. /\ observed' \in SUBSET Items /\ todo \in SUBSET Items /\ failed \X {Day} \in SUBSET Items
        /\ \A o \in Orders : EndsBefore(o, Day) \/ <<o, Day>> \in todo
    BY <1>0, <2>1 DEF Items, Types
  <2>3. Set(w, q)
    BY <2>1 DEF todo
  <2> HIDE DEF todo
  <2>4. q \in [pc : {"quality"}, slot : {slot}, day : {Day}, todo : {todo}, failed : {failed \X {Day}},
               known : {observed'}, missed : {{}}, errors : {{}}, recorded : {{}}]
    BY DEF NotRunning
  <2>5. q \in Jobs /\ q.pc = "quality" /\ q.slot = slot /\ q.day = Day /\ q.todo = todo
    BY <1>0, <2>2, <2>4 DEF Jobs, Types
  <2> HIDE DEF q
  <2>6. /\ UNCHANGED <<qualityBound, slot, finals, quality, rechecks, runs, qualitySpent>>
        /\ w \in Crew /\ jobs[w].pc = "idle" /\ jobs[w].slot < slot
    BY <1>6 DEF StartEndOfDay, accounts, Crew
  <2>7. Begins(w, q)
    BY <2>2, <2>5, <2>6 DEF Begins
  <2> QED
    BY <1>2, <2>3, <2>5, <2>6, <2>7 DEF JobMoves
<1>7. ASSUME NEW w \in Workers, NEW o \in Orders, Measure(w, o) \/ MeasureFails(w, o)
      PROVE  Lasting /\ \E q \in Jobs : JobMoves(w, q)
  <2> DEFINE job == jobs[w]
             item == <<o, job.day>>
             rest == job.todo \ {item}
             a == [job EXCEPT !.todo = rest]
             b == [a EXCEPT !.missed = @ \union {o}]
             c == [job EXCEPT !.todo = rest, !.errors = @ \union {o}]
  <2>1. /\ job \in Jobs /\ Evening(job) /\ job.pc = "quality" /\ job.day \in Nat
        /\ UNCHANGED <<qualityBound, slot, finals, rechecks, runs>>
    BY <1>1, <1>7 DEF Measure, MeasureFails, accounts, Jobs
  <2>2. a \in Jobs /\ b \in Jobs /\ c \in Jobs
    BY <2>1 DEF Jobs
  <2>3. \A q \in {a, b, c} : q.pc = "quality" /\ q.slot = job.slot /\ q.day = job.day /\ q.todo = rest
    BY <2>1 DEF Jobs
  <2>4. /\ a.missed = job.missed /\ a.errors = job.errors /\ c.missed = job.missed /\ b.errors = job.errors
        /\ b.missed = job.missed \union {o} /\ c.errors = job.errors \union {o}
    BY <2>1 DEF Jobs
  <2>5. \/ /\ Set(w, a) /\ (item \in quality \/ EndsBefore(o, job.day))
           /\ UNCHANGED <<quality, qualitySpent>>
        \/ Set(w, b) /\ UNCHANGED <<quality, qualitySpent>>
        \/ Set(w, a) /\ quality' = quality \union {item} /\ UNCHANGED qualitySpent
        \/ /\ Set(w, c) /\ UNCHANGED quality /\ qualitySpent.errors < qualityBound.errors
           /\ qualitySpent' = [qualitySpent EXCEPT !.errors = @ + 1]
    BY <1>7 DEF Measure, MeasureFails, accounts
  <2> HIDE DEF a, b, c
  <2>6. Lasting
    <3>1. quality \subseteq quality'
      BY <2>5
    <3>2. /\ qualitySpent'.errors >= qualitySpent.errors /\ qualitySpent'.crashes >= qualitySpent.crashes
          /\ qualitySpent'.errors <= qualityBound.errors /\ qualitySpent'.crashes <= qualityBound.crashes
      BY <1>0, <2>5 DEF Staffed
    <3> QED
      BY <2>1, <3>1, <3>2 DEF Lasting, EndsBefore
  <2>7. PICK q \in {a, b, c} : Set(w, q) /\ (Known(o, q)' \/ item \in quality')
    <3>1. CASE Set(w, a) /\ (item \in quality \/ EndsBefore(o, job.day)) /\ UNCHANGED quality
      BY <2>1, <2>3, <3>1 DEF Known, EndsBefore
    <3>2. CASE Set(w, b)
      BY <2>4, <3>2 DEF Known
    <3>3. CASE Set(w, a) /\ quality' = quality \union {item}
      BY <3>3
    <3>4. CASE Set(w, c)
      BY <2>4, <3>4 DEF Known
    <3> QED
      BY <2>5, <3>1, <3>2, <3>3, <3>4
  <2>8. \A p \in Orders : Known(p, job) => Known(p, q)'
    <3>1. job.missed \subseteq q.missed /\ job.errors \subseteq q.errors
      BY <2>4
    <3>2. q.day = job.day
      BY <2>3
    <3> QED
      BY <2>1, <2>6, <3>1, <3>2 DEF Known, Lasting
  <2>9. \A p \in Orders : Known(p, job) \/ <<p, job.day>> \in job.todo => Known(p, q)' \/ <<p, q.day>> \in q.todo
    <3> SUFFICES ASSUME NEW p \in Orders, <<p, job.day>> \in job.todo PROVE Known(p, q)' \/ <<p, q.day>> \in q.todo
      BY <2>8
    <3>1. CASE p = o
      BY <2>3, <2>7, <3>1 DEF Known
    <3>2. CASE p # o
      BY <2>3, <3>2
    <3> QED
      BY <3>1, <3>2
  <2>10. q \in Jobs /\ Measures(w, q)
    BY <2>1, <2>2, <2>3, <2>9 DEF Measures, Keeps
  <2> QED
    BY <2>1, <2>6, <2>7, <2>10 DEF JobMoves
<1>8. ASSUME NEW w \in Workers, FinishQuality(w) PROVE Lasting /\ \E q \in Jobs : JobMoves(w, q)
  <2> DEFINE job == jobs[w]
             q == [job EXCEPT !.pc = "measured"]
  <2>1. job \in Jobs /\ job.pc = "quality" /\ job.todo = {} /\ Set(w, q)
    BY <1>1, <1>8 DEF FinishQuality
  <2>2. q \in Jobs /\ q.pc = "measured" /\ q.slot = job.slot /\ q.day = job.day
    BY <2>1 DEF Jobs
  <2> HIDE DEF q
  <2>3. /\ UNCHANGED <<qualityBound, slot, finals, quality, rechecks, qualitySpent>>
        /\ runs' = <<[day |-> job.day, missed |-> job.missed, errors |-> job.errors]>> \o runs
    BY <1>8 DEF FinishQuality, accounts
  <2>4. Completes(w, q)
    BY <2>1, <2>2, <2>3 DEF Completes, Keeps
  <2> QED
    BY <1>2, <2>1, <2>2, <2>3, <2>4 DEF JobMoves
<1>9. ASSUME NEW w \in Workers, Stop(w)
      PROVE  \E q \in Jobs : Set(w, q) /\ q.pc = "idle" /\ q.slot = jobs[w].slot
  <2> DEFINE q == [NotRunning EXCEPT !.slot = jobs[w].slot]
  <2>1. q \in Jobs /\ q.pc = "idle" /\ q.slot = jobs[w].slot
    BY <1>1 DEF Jobs, NotRunning
  <2>2. Set(w, q)
    BY <1>9 DEF Stop
  <2> HIDE DEF q
  <2> QED
    BY <2>1, <2>2
<1>10. ASSUME NEW w \in Workers, StartRecheck(w) PROVE Lasting /\ \E q \in Jobs : JobMoves(w, q)
  <2> DEFINE older == {item \in Pending : item[2] < jobs[w].day}
  <2>1. /\ UNCHANGED <<qualityBound, slot, finals, quality, rechecks, runs, qualitySpent>>
        /\ jobs[w].pc = "measured"
    BY <1>10 DEF StartRecheck, accounts
  <2>2. \E q \in Jobs : Set(w, q) /\ TakesUp(w, q)
    <3>1. CASE older = {}
      <4>1. Stop(w)
        BY <1>10, <3>1 DEF StartRecheck
      <4>2. PICK q \in Jobs : Set(w, q) /\ q.pc = "idle" /\ q.slot = jobs[w].slot
        BY <1>9, <4>1
      <4> QED
        BY <2>1, <3>1, <4>2 DEF TakesUp
    <3>2. CASE older # {}
      <4>1. PICK failed, known :
              Set(w, [jobs[w] EXCEPT !.pc = "recheck", !.errors = {}, !.todo = older, !.failed = failed,
                           !.known = known])
        BY <1>10, <3>2 DEF StartRecheck
      <4> DEFINE q == [jobs[w] EXCEPT !.pc = "recheck", !.errors = {}, !.todo = older, !.failed = failed,
                                    !.known = known]
      <4>2. \A item \in Pending : item[2] < jobs[w].day => item \in older
        OBVIOUS
      <4> HIDE DEF older
      <4>3. Set(w, q) /\ q.pc = "recheck" /\ q.day = jobs[w].day /\ q.slot = jobs[w].slot /\ q.todo = older
        BY <1>1, <4>1 DEF Jobs
      <4> HIDE DEF q
      <4>4. q \in Jobs
        <5>1. jobs'[w] = q
          BY <4>3 DEF Types, Set
        <5>2. Types'
          BY TypesStep
        <5> QED
          BY <5>1, <5>2 DEF Types
      <4> QED
        BY <2>1, <4>2, <4>3, <4>4 DEF TakesUp
    <3> QED
      BY <3>1, <3>2
  <2> QED
    BY <1>2, <2>1, <2>2 DEF JobMoves
<1>11. ASSUME NEW w \in Workers, NEW item \in jobs[w].todo, RecheckFails(w, item)
       PROVE  Lasting /\ \E q \in Jobs : JobMoves(w, q)
  <2> DEFINE job == jobs[w]
             recorded == IF VerdictNow(job, item) = {} THEN job.recorded ELSE job.recorded \union {item}
             q == [job EXCEPT !.todo = @ \ {item}, !.errors = @ \union {item[1]},
                              !.recorded = recorded \ {item}]
  <2>1. job \in Jobs /\ job.pc = "recheck" /\ Set(w, q)
    BY <1>1, <1>11 DEF RecheckFails
  <2> HIDE DEF recorded
  <2>2. q.pc = "recheck" /\ q.slot = job.slot /\ q.day = job.day /\ q.todo = job.todo \ {item}
    BY <2>1 DEF Jobs
  <2> HIDE DEF q
  <2>3. q \in Jobs
    <3>1. jobs'[w] = q
      BY <2>1 DEF Types, Set
    <3>2. Types'
      BY TypesStep
    <3> QED
      BY <3>1, <3>2 DEF Types
  <2>4. /\ UNCHANGED <<qualityBound, slot, finals, quality, rechecks, runs>>
        /\ qualitySpent.errors < qualityBound.errors
        /\ qualitySpent' = [qualitySpent EXCEPT !.errors = @ + 1]
    BY <1>11 DEF RecheckFails, accounts
  <2>5. qualitySpent'.errors = qualitySpent.errors + 1 /\ qualitySpent'.crashes = qualitySpent.crashes
    BY <1>0, <2>4
  <2>6. Lasting
    BY <1>0, <2>4, <2>5 DEF Lasting, EndsBefore, Staffed
  <2>7. Decides(w, q, item)
    BY <2>1, <2>2, <2>4, <2>5 DEF Decides, Keeps
  <2> QED
    BY <2>1, <2>3, <2>4, <2>6, <2>7 DEF JobMoves
<1>12. ASSUME NEW w \in Workers, NEW item \in jobs[w].todo, Recheck(w, item)
       PROVE  Lasting /\ \E q \in Jobs : JobMoves(w, q)
  <2> DEFINE job == jobs[w]
             verdict == VerdictNow(job, item)
             q == [job EXCEPT !.todo = @ \ {item}, !.recorded = IF verdict = {} THEN @ ELSE @ \union {item}]
             rows == {[Row(job, item, status) EXCEPT !.run = <<w, @>>] : status \in verdict}
  <2>1. job \in Jobs /\ job.pc = "recheck" /\ Set(w, q)
    BY <1>1, <1>12 DEF Recheck
  <2>2. rechecks' = rechecks \union rows
    BY <1>12 DEF Recheck
  <2>3. (verdict # {} => rows # {}) /\ \A r \in rows : r.order = item[1] /\ r.day = item[2]
    <3>1. \A r \in rows : r.order = item[1] /\ r.day = item[2]
      BY DEF Row
    <3>2. \A status \in verdict : [Row(job, item, status) EXCEPT !.run = <<w, @>>] \in rows
      OBVIOUS
    <3> HIDE DEF rows, verdict
    <3> QED
      BY <3>1, <3>2
  <2>4. Final(job, item[2]) => verdict # {} \/ Rechecked(item[1], item[2]) \/ item \in quality
    BY VerdictIsOne
  <2> HIDE DEF rows, verdict
  <2>5. q.pc = "recheck" /\ q.slot = job.slot /\ q.day = job.day /\ q.todo = job.todo \ {item}
    BY <2>1 DEF Jobs
  <2> HIDE DEF q
  <2>6. q \in Jobs
    <3>1. jobs'[w] = q
      BY <2>1 DEF Types, Set
    <3>2. Types'
      BY TypesStep
    <3> QED
      BY <3>1, <3>2 DEF Types
  <2>7. UNCHANGED <<qualityBound, slot, finals, quality, runs, qualitySpent>>
    BY <1>12 DEF Recheck
  <2>8. Lasting
    BY <1>2, <2>2, <2>7
  <2>9. job.day - item[2] >= FinalAfter => item \in quality \/ Rechecked(item[1], item[2])'
    <3>1. Rechecked(item[1], item[2]) => Rechecked(item[1], item[2])'
      BY <2>2 DEF Rechecked
    <3>2. verdict # {} => Rechecked(item[1], item[2])'
      BY <2>2, <2>3 DEF Rechecked
    <3> QED
      BY <2>4, <3>1, <3>2 DEF Final
  <2>10. Decides(w, q, item)
    BY <2>1, <2>5, <2>7, <2>9 DEF Decides, Keeps
  <2> QED
    BY <2>1, <2>6, <2>7, <2>8, <2>10 DEF JobMoves
<1>13. ASSUME NEW w \in Workers, FinishRecheck(w) \/ Dies(w) PROVE Lasting /\ \E q \in Jobs : JobMoves(w, q)
  <2>1. PICK q \in Jobs : Set(w, q) /\ q.pc = "idle" /\ q.slot = jobs[w].slot
    BY <1>9, <1>13 DEF FinishRecheck, Dies
  <2>2. /\ UNCHANGED <<qualityBound, slot, finals, quality, rechecks, runs>>
        /\ jobs[w].pc # "idle"
        /\ \/ jobs[w].pc = "recheck" /\ jobs[w].todo = {} /\ UNCHANGED qualitySpent
           \/ /\ qualitySpent.crashes < qualityBound.crashes
              /\ qualitySpent' = [qualitySpent EXCEPT !.crashes = @ + 1]
    BY <1>13 DEF FinishRecheck, Dies, accounts
  <2>3. Lasting /\ ((jobs[w].pc = "recheck" /\ jobs[w].todo = {}) \/ qualitySpent'.crashes = qualitySpent.crashes + 1)
    BY <1>0, <2>2 DEF Lasting, EndsBefore, Staffed
  <2>4. Ends(w, q)
    BY <2>1, <2>2, <2>3 DEF Ends
  <2> QED
    BY <2>1, <2>2, <2>3, <2>4 DEF JobMoves
<1> QED
  BY <1>3, <1>4, <1>6, <1>7, <1>8, <1>10, <1>11, <1>12, <1>13 DEF QualityNext, Job

(***************************************************************************)
(* A set that differs from another in one element has one more or less.    *)
(***************************************************************************)
LEMMA OneMoves ==
  ASSUME NEW C, IsFiniteSet(C), NEW w \in C, NEW S \in SUBSET C, NEW T \in SUBSET C,
         \A v \in C \ {w} : v \in S <=> v \in T
  PROVE  /\ Cardinality(S) \in Nat /\ Cardinality(T) \in Nat
         /\ Cardinality(T) + (IF w \in S THEN 1 ELSE 0) = Cardinality(S) + (IF w \in T THEN 1 ELSE 0)
<1>1. IsFiniteSet(S) /\ IsFiniteSet(T)
  BY FS_Subset
<1>2. Cardinality(S) \in Nat /\ Cardinality(T) \in Nat
  BY <1>1, FS_CardinalityType
<1>3. /\ Cardinality(S \ {w}) = IF w \in S THEN Cardinality(S) - 1 ELSE Cardinality(S)
      /\ Cardinality(T \ {w}) = IF w \in T THEN Cardinality(T) - 1 ELSE Cardinality(T)
  BY <1>1, FS_RemoveElement
<1>4. S \ {w} = T \ {w}
  OBVIOUS
<1> QED
  BY <1>2, <1>3, <1>4

(***************************************************************************)
(* No more workers measure, began or settle than there are.                *)
(***************************************************************************)
LEMMA Sizes ==
  ASSUME LookbackAssumption, Staffed
  PROVE  /\ IsFiniteSet(Crew) /\ Cardinality(Crew) \in Nat
         /\ \A S \in SUBSET Crew : Cardinality(S) \in Nat /\ Cardinality(S) <= Cardinality(Crew)
<1>1. IsFiniteSet(Crew)
  BY DEF LookbackAssumption, Staffed, Crew
<1> QED
  BY <1>1, FS_CardinalityType, FS_Subset

(***************************************************************************)
(* A run that completes comes first.                                       *)
(***************************************************************************)
LEMMA Prepended ==
  ASSUME Types, NEW r \in Runs, runs' = <<r>> \o runs
  PROVE  /\ Len(runs) \in Nat /\ DOMAIN runs = 1..Len(runs) /\ DOMAIN runs' = 1..(Len(runs) + 1)
         /\ runs'[1] = r
         /\ \A i \in DOMAIN runs' : i # 1 => i - 1 \in DOMAIN runs /\ runs'[i] = runs[i - 1]
         /\ \A i \in DOMAIN runs : i + 1 \in DOMAIN runs' /\ runs'[i + 1] = runs[i]
<1>1. runs \in Seq(Runs)
  BY DEF Types
<1> QED
  BY <1>1

(***************************************************************************)
(* A job and its run know what became of each order, at every step.        *)
(***************************************************************************)
LEMMA CompleteStep ==
  ASSUME LimitsAssumption, LookbackAssumption, Types, Evenings, Staffed, Complete, [QualityNext]_qualityVars
  PROVE  Staffed' /\ Complete'
<1>1. Lasting /\ (Rests \/ NextSlot \/ \E w \in Workers, q \in Jobs : JobMoves(w, q))
  BY JobStep
<1>2. ASSUME NEW o \in Orders, NEW run, run.day \in Nat, Known(o, run) PROVE Known(o, run)'
  <2>1. quality \subseteq quality' /\ (EndsBefore(o, run.day) => EndsBefore(o, run.day)')
    BY <1>1, <1>2 DEF Lasting
  <2> QED
    BY <1>2, <2>1 DEF Known, EndsBefore
<1>3. /\ \A i \in DOMAIN runs : runs[i].day \in Nat
      /\ \A w \in Workers : jobs[w] \in Jobs /\ jobs[w].day \in Nat
  <2>1. ASSUME NEW i \in DOMAIN runs PROVE runs[i].day \in Nat
    <3>1. runs[i] \in Runs
      BY DEF Types
    <3> QED
      BY <3>1 DEF Runs
  <2>2. ASSUME NEW w \in Workers PROVE jobs[w] \in Jobs /\ jobs[w].day \in Nat
    BY DEF Types, Jobs
  <2> QED
    BY <2>1, <2>2
<1>4. ASSUME NEW w \in Workers, NEW q \in Jobs, JobMoves(w, q)
      PROVE  \A v \in Workers : jobs'[v] = IF v = w THEN q ELSE jobs[v]
  BY <1>4 DEF JobMoves, Set, Types
<1>5. Staffed'
  <2>1. Crew' = Crew
    BY <1>1 DEF Lasting, Crew
  <2>2. \A w \in Workers : jobs'[w].pc # "idle" => w \in Crew
    <3>1. CASE Rests \/ NextSlot
      BY <3>1 DEF Rests, NextSlot, Staffed
    <3>2. ASSUME NEW w \in Workers, NEW q \in Jobs, JobMoves(w, q)
          PROVE  \A v \in Workers : jobs'[v].pc # "idle" => v \in Crew
      <4>1. q.pc # "idle" => w \in Crew
        BY <3>2 DEF JobMoves, Begins, Measures, Completes, TakesUp, Decides, Ends, Staffed
      <4> QED
        BY <1>4, <3>2, <4>1 DEF Staffed
    <3> QED
      BY <1>1, <3>1, <3>2
  <2> QED
    BY <1>1, <2>1, <2>2 DEF Staffed, Lasting
<1>6. \A i \in DOMAIN runs', o \in Orders : Known(o, runs[i])'
  <2>1. CASE runs' = runs
    <3> SUFFICES ASSUME NEW i \in DOMAIN runs, NEW o \in Orders PROVE Known(o, runs[i])'
      BY <2>1
    <3>1. PICK run : run = runs[i]
      OBVIOUS
    <3>2. Known(o, run)'
      BY <1>2, <1>3, <3>1 DEF Complete
    <3> QED
      BY <2>1, <3>1, <3>2 DEF Known, EndsBefore
  <2>2. ASSUME NEW w \in Workers, NEW q \in Jobs, Completes(w, q)
        PROVE  \A i \in DOMAIN runs', o \in Orders : Known(o, runs[i])'
    <3> DEFINE run == [day |-> jobs[w].day, missed |-> jobs[w].missed, errors |-> jobs[w].errors]
    <3>1. run \in Runs /\ runs' = <<run>> \o runs
      BY <1>3, <2>2 DEF Completes, Runs, Jobs
    <3>2. \A o \in Orders : Known(o, run)
      BY <2>2 DEF Completes, Complete, Known
    <3>3. run.day \in Nat
      BY <3>1 DEF Runs
    <3> HIDE DEF run
    <3> SUFFICES ASSUME NEW i \in DOMAIN runs', NEW o \in Orders PROVE Known(o, runs[i])'
      OBVIOUS
    <3>4. PICK r : r = runs'[i]
      OBVIOUS
    <3>6. ASSUME i # 1 PROVE r.day \in Nat /\ Known(o, r)
      <4>1. i - 1 \in DOMAIN runs /\ r = runs[i - 1]
        BY <3>1, <3>4, <3>6, Prepended
      <4> QED
        BY <1>3, <4>1 DEF Complete
    <3>7. Known(o, r)'
      <4>1. i = 1 => r = run
        BY <3>1, <3>4, Prepended
      <4> QED
        BY <1>2, <3>2, <3>3, <3>6, <4>1
    <3> QED
      BY <3>4, <3>7 DEF Known, EndsBefore
  <2> QED
    BY <1>1, <2>1, <2>2 DEF Rests, NextSlot, JobMoves, Begins, Measures, TakesUp, Decides, Ends
<1>7. \A w \in Workers, o \in Orders :
        jobs'[w].pc = "quality" => Known(o, jobs[w])' \/ <<o, jobs'[w].day>> \in jobs'[w].todo
  <2>1. ASSUME NEW v \in Workers, NEW o \in Orders, jobs'[v] = jobs[v], jobs[v].pc = "quality"
        PROVE  Known(o, jobs[v])' \/ <<o, jobs'[v].day>> \in jobs'[v].todo
    <3>1. PICK job : job = jobs[v]
      OBVIOUS
    <3>2. Known(o, job) => Known(o, job)'
      BY <1>2, <1>3, <3>1
    <3>3. Known(o, job) \/ <<o, job.day>> \in job.todo
      BY <2>1, <3>1 DEF Complete
    <3> QED
      BY <2>1, <3>1, <3>2, <3>3 DEF Known, EndsBefore
  <2>2. ASSUME NEW w \in Workers, NEW q \in Jobs, JobMoves(w, q), NEW v \in Workers, NEW o \in Orders,
               jobs'[v].pc = "quality"
        PROVE  Known(o, jobs[v])' \/ <<o, jobs'[v].day>> \in jobs'[v].todo
    <3>1. CASE v # w
      <4>1. jobs'[v] = jobs[v]
        BY <1>4, <2>2, <3>1
      <4> QED
        BY <2>1, <2>2, <4>1
    <3>2. CASE v = w
      <4>1. jobs'[v] = q /\ (Begins(w, q) \/ Measures(w, q))
        BY <1>4, <2>2, <3>2 DEF JobMoves, Completes, TakesUp, Decides, Ends
      <4>2. CASE Begins(w, q)
        <5>1. EndsBefore(o, Day) \/ <<o, q.day>> \in q.todo
          BY <4>2 DEF Begins
        <5>2. EndsBefore(o, Day) => EndsBefore(o, q.day)'
          BY <1>1, <2>2, <4>2 DEF Begins, Lasting, Jobs, EndsBefore
        <5> QED
          BY <4>1, <5>1, <5>2 DEF Known, EndsBefore
      <4>3. CASE Measures(w, q)
        <5>1. Known(o, jobs[w]) \/ <<o, jobs[w].day>> \in jobs[w].todo
          BY <4>3 DEF Measures, Complete
        <5>2. Known(o, q)' \/ <<o, q.day>> \in q.todo
          BY <4>3, <5>1 DEF Measures
        <5> QED
          BY <4>1, <5>2 DEF Known, EndsBefore
      <4> QED
        BY <4>1, <4>2, <4>3
    <3> QED
      BY <3>1, <3>2
  <2> QED
    BY <1>1, <2>1, <2>2 DEF Rests, NextSlot
<1> QED
  BY <1>5, <1>6, <1>7 DEF Complete

(***************************************************************************)
(* A worker begins once in each slot, and a day has two: the runs of the   *)
(* days since a run are bounded, and so is its place in the list.          *)
(***************************************************************************)
LEMMA PaceStep ==
  ASSUME LimitsAssumption, LookbackAssumption, Types, Evenings, Staffed, Pace, [QualityNext]_qualityVars
  PROVE  Pace'
<1> DEFINE n == Cardinality(Crew)
           m == Cardinality(Measuring)
           b == Cardinality(Begun)
<1>1. Lasting /\ (Rests \/ NextSlot \/ \E w \in Workers, q \in Jobs : JobMoves(w, q))
  BY JobStep
<1>2. Crew' = Crew
  BY <1>1 DEF Lasting, Crew
<1>3. n \in Nat /\ m \in Nat /\ b \in Nat /\ b <= n /\ FirstSlot \in {0, n} /\ IsFiniteSet(Crew)
  <2>1. Measuring \in SUBSET Crew /\ Begun \in SUBSET Crew
    BY DEF Measuring, Begun
  <2> QED
    BY <2>1, Sizes DEF FirstSlot
<1>4. /\ slot \in Nat /\ Day \in Nat
      /\ \A w \in Workers : jobs[w].slot \in Int /\ jobs[w].slot <= slot
                            /\ (jobs[w].pc # "idle" => jobs[w].day = Day)
  BY DayType DEF Types, Evenings, Evening, Jobs
<1>5. /\ Len(runs) \in Nat /\ DOMAIN runs = 1..Len(runs)
      /\ \A i \in DOMAIN runs : runs[i] \in Runs /\ runs[i].day \in Nat
  <2>1. runs \in Seq(Runs)
    BY DEF Types
  <2>2. \A r \in Runs : r.day \in Nat
    BY DEF Runs
  <2> QED
    BY <2>1, <2>2
<1>6. m <= b + FirstSlot /\ \A i \in DOMAIN runs : runs[i].day <= Day /\ i + m <= b + FirstSlot + 2 * n * (Day - runs[i].day)
  BY DEF Pace
<1>7. \A i, k \in DOMAIN runs : k <= i =>
        runs[i].day <= runs[k].day /\ i - k + 1 <= 2 * n * (runs[k].day - runs[i].day + 1)
  BY DEF Pace
<1>8. Crew \subseteq Workers
  BY DEF LookbackAssumption, Staffed, Crew
<1>9. CASE Rests
  BY <1>2, <1>9 DEF Rests, Pace, Measuring, Begun, FirstSlot, Day
<1>10. CASE NextSlot
  <2>1. slot' = slot + 1 /\ runs' = runs /\ jobs' = jobs
    BY <1>10 DEF NextSlot
  <2>2. Begun' = {} /\ Cardinality(Begun)' = 0
    <3>1. \A w \in Workers : jobs[w].slot # slot + 1
      BY <1>4
    <3> QED
      BY <1>2, <1>8, <2>1, <3>1, FS_EmptySet DEF Begun
  <2>3. Measuring' = Measuring
    BY <1>2, <2>1 DEF Measuring
  <2>4. CASE slot % 2 = 1
    <3>1. FirstSlot = n /\ FirstSlot' = 0 /\ Day' = Day + 1
      <4>1. (slot + 1) % 2 = 0 /\ (slot + 1) \div 2 = slot \div 2 + 1
        BY <1>4, <2>4
      <4> QED
        BY <2>1, <2>4, <4>1 DEF FirstSlot, Day
    <3>2. m = 0
      <4>1. Measuring = {}
        BY <1>8, <1>10, <2>4 DEF NextSlot, Measuring
      <4> QED
        BY <4>1, FS_EmptySet
    <3>3. m <= 0 + 0 /\ \A i \in DOMAIN runs : i + m <= 0 + 0 + 2 * n * (Day + 1 - runs[i].day)
      <4> SUFFICES ASSUME NEW i \in DOMAIN runs PROVE i + m <= 0 + 0 + 2 * n * (Day + 1 - runs[i].day)
        BY <3>2
      <4>1. i + m <= b + FirstSlot + 2 * n * (Day - runs[i].day) /\ i \in Nat /\ runs[i].day \in Nat
        BY <1>5, <1>6
      <4> DEFINE d == runs[i].day
      <4> HIDE DEF n, m, b, d
      <4>2. 2 * n * (Day + 1 - d) = 2 * n * (Day - d) + 2 * n
        BY <1>3, <1>4, <4>1 DEF d
      <4>3. 2 * n * (Day - d) \in Int
        BY <1>3, <1>4, <4>1 DEF d
      <4> QED
        BY <1>3, <3>1, <3>2, <4>1, <4>2, <4>3 DEF d
    <3>4. \A i \in DOMAIN runs : runs[i].day <= Day + 1
      BY <1>4, <1>5, <1>6
    <3>5. Cardinality(Measuring)' <= Cardinality(Begun)' + FirstSlot'
      BY <2>2, <2>3, <3>1, <3>3
    <3>6. ASSUME NEW i \in DOMAIN runs'
          PROVE  /\ runs'[i].day <= Day'
                 /\ i + Cardinality(Measuring)' <= Cardinality(Begun)' + FirstSlot'
                                                   + 2 * Cardinality(Crew)' * (Day' - runs'[i].day)
      <4>1. i \in DOMAIN runs /\ runs'[i] = runs[i]
        BY <2>1
      <4>2. /\ Cardinality(Measuring)' = m /\ Cardinality(Begun)' = 0 /\ FirstSlot' = 0
            /\ Cardinality(Crew)' = n /\ Day' = Day + 1
        BY <1>2, <2>2, <2>3, <3>1
      <4>3. i + m <= 0 + 0 + 2 * n * (Day + 1 - runs[i].day) /\ runs[i].day <= Day + 1
        BY <3>3, <3>4, <4>1
      <4>4. i \in Nat /\ runs[i].day \in Nat
        BY <1>5, <4>1
      <4> HIDE DEF m, n
      <4> QED
        BY <1>3, <1>4, <4>1, <4>2, <4>3, <4>4
    <3> QED
      BY <1>2, <1>7, <2>1, <3>5, <3>6 DEF Pace
  <2>5. CASE slot % 2 # 1
    <3>1. FirstSlot = 0 /\ FirstSlot' = n /\ Day' = Day
      <4>1. (slot + 1) % 2 = 1 /\ (slot + 1) \div 2 = slot \div 2
        BY <1>4, <2>5
      <4> QED
        BY <1>2, <2>1, <2>5, <4>1 DEF FirstSlot, Day
    <3>2. \A i \in DOMAIN runs : i + m <= 0 + n + 2 * n * (Day - runs[i].day)
      <4> SUFFICES ASSUME NEW i \in DOMAIN runs PROVE i + m <= 0 + n + 2 * n * (Day - runs[i].day)
        OBVIOUS
      <4>1. i + m <= b + FirstSlot + 2 * n * (Day - runs[i].day) /\ i \in Nat /\ runs[i].day \in Nat
        BY <1>5, <1>6
      <4> DEFINE d == 2 * n * (Day - runs[i].day)
      <4>2. d \in Int
        BY <1>3, <1>4, <4>1
      <4> HIDE DEF n, m, b, d
      <4>3. i + m <= b + FirstSlot + d
        BY <4>1 DEF d
      <4>4. i + m <= 0 + n + d
        BY <1>3, <3>1, <4>1, <4>2, <4>3
      <4> QED
        BY <4>4 DEF d
    <3>3. m <= 0 + n
      BY <1>3, <1>6, <3>1
    <3> QED
      BY <1>2, <1>6, <1>7, <2>1, <2>2, <2>3, <3>1, <3>2, <3>3 DEF Pace
  <2> QED
    BY <2>4, <2>5
<1>11. ASSUME NEW w \in Workers, NEW q \in Jobs, JobMoves(w, q) PROVE Pace'
  <2>1. /\ \A v \in Workers : jobs'[v] = IF v = w THEN q ELSE jobs[v]
        /\ slot' = slot /\ Day' = Day /\ FirstSlot' = FirstSlot
    BY <1>2, <1>11 DEF JobMoves, Set, Types, Day, FirstSlot
  <2>2. w \in Crew
    BY <1>11 DEF JobMoves, Begins, Measures, Completes, TakesUp, Decides, Ends, Staffed
  <2> DEFINE m1 == Cardinality(Measuring')
             b1 == Cardinality(Begun')
  <2>3. /\ m1 \in Nat
        /\ m1 + (IF jobs[w].pc = "quality" THEN 1 ELSE 0) = m + (IF q.pc = "quality" THEN 1 ELSE 0)
    <3>1. /\ Measuring \in SUBSET Crew /\ Measuring' \in SUBSET Crew
          /\ \A v \in Crew \ {w} : v \in Measuring <=> v \in Measuring'
          /\ w \in Measuring <=> jobs[w].pc = "quality"
          /\ w \in Measuring' <=> q.pc = "quality"
      BY <1>2, <1>8, <2>1, <2>2 DEF Measuring
    <3> HIDE DEF m
    <3> QED
      BY <1>3, <2>2, <3>1, OneMoves DEF m
  <2>4. /\ b1 \in Nat
        /\ b1 + (IF jobs[w].slot = slot THEN 1 ELSE 0) = b + (IF q.slot = slot THEN 1 ELSE 0)
    <3>1. /\ Begun \in SUBSET Crew /\ Begun' \in SUBSET Crew
          /\ \A v \in Crew \ {w} : v \in Begun <=> v \in Begun'
          /\ w \in Begun <=> jobs[w].slot = slot
          /\ w \in Begun' <=> q.slot = slot
      BY <1>2, <1>8, <2>1, <2>2 DEF Begun
    <3> QED
      BY <1>3, <2>2, <3>1, OneMoves DEF b
  <2>5. CASE runs' = runs /\ m1 - b1 <= m - b
    <3>1. \A i \in DOMAIN runs : i + m1 <= b1 + FirstSlot + 2 * n * (Day - runs[i].day)
      <4> SUFFICES ASSUME NEW i \in DOMAIN runs PROVE i + m1 <= b1 + FirstSlot + 2 * n * (Day - runs[i].day)
        OBVIOUS
      <4> DEFINE d == 2 * n * (Day - runs[i].day)
      <4>1. d \in Int /\ i \in Nat /\ i + m <= b + FirstSlot + d
        BY <1>3, <1>4, <1>5, <1>6
      <4> HIDE DEF n, m, b, d, m1, b1
      <4>2. i + m1 <= b1 + FirstSlot + d
        BY <1>3, <2>3, <2>4, <2>5, <4>1
      <4> QED
        BY <4>2 DEF d
    <3>2. m1 <= b1 + FirstSlot
      <4> HIDE DEF n, m, b, m1, b1
      <4> QED
        BY <1>3, <1>6, <2>3, <2>4, <2>5
    <3> QED
      BY <1>2, <1>6, <1>7, <2>1, <2>5, <3>1, <3>2 DEF Pace
  <2>6. CASE Completes(w, q)
    <3> DEFINE run == [day |-> jobs[w].day, missed |-> jobs[w].missed, errors |-> jobs[w].errors]
    <3>1. run \in Runs /\ runs' = <<run>> \o runs /\ run.day = Day
      BY <1>4, <2>6 DEF Completes, Runs, Jobs, Types
    <3> HIDE DEF run
    <3>2. /\ DOMAIN runs' = 1..(Len(runs) + 1) /\ runs'[1].day = Day
          /\ \A i \in DOMAIN runs' : i # 1 => i - 1 \in DOMAIN runs /\ runs'[i] = runs[i - 1]
      BY <3>1, Prepended
    <3>3. m1 = m - 1 /\ b1 = b
      <4> HIDE DEF m, b, m1, b1
      <4> QED
        BY <1>3, <2>3, <2>4, <2>6 DEF Completes, Keeps
    <3>4. m >= 1 /\ 1 <= 2 * n /\ b + FirstSlot <= 2 * n
      <4> HIDE DEF n, m, b, m1, b1
      <4> QED
        BY <1>3, <1>6, <2>3, <3>3
    <3>5. ASSUME NEW i \in DOMAIN runs'
          PROVE  /\ i \in Nat \ {0} /\ runs'[i].day \in Nat /\ runs'[i].day <= Day
                 /\ i + m1 <= b1 + FirstSlot + 2 * n * (Day - runs'[i].day)
                 /\ i <= 2 * n * (Day - runs'[i].day + 1)
      <4>1. i \in Nat \ {0} /\ runs'[i].day \in Nat /\ runs'[i].day <= Day
        BY <1>4, <1>5, <1>6, <3>2
      <4> DEFINE e == Day - runs'[i].day
                 d == 2 * n * e
      <4>2. e \in Nat /\ 2 * n * (e + 1) = d + 2 * n /\ d \in Nat
        <5>1. e \in Nat
          BY <1>4, <4>1
        <5> HIDE DEF n, e
        <5> QED
          BY <1>3, <5>1
      <4>3. i # 1 => (i - 1) + m <= b + FirstSlot + d
        BY <1>6, <3>2
      <4>4. i = 1 => d = 0
        <5>1. i = 1 => e = 0
          BY <1>4, <3>2
        <5> HIDE DEF n, e
        <5> QED
          BY <1>3, <5>1
      <4> HIDE DEF n, m, b, m1, b1, d
      <4>5. i + m1 <= b1 + FirstSlot + d
        BY <1>3, <1>6, <3>3, <4>1, <4>2, <4>3, <4>4
      <4>6. i <= d + 2 * n
        BY <1>3, <3>3, <3>4, <4>1, <4>2, <4>5
      <4> QED
        BY <4>1, <4>2, <4>5, <4>6 DEF d
    <3>6. ASSUME NEW i \in DOMAIN runs', NEW k \in DOMAIN runs', k <= i
          PROVE  /\ runs'[i].day <= runs'[k].day
                 /\ i - k + 1 <= 2 * n * (runs'[k].day - runs'[i].day + 1)
      <4>1. i \in Nat /\ k \in Nat /\ k >= 1
        BY <3>5
      <4>2. CASE k = 1
        <5>1. i - k + 1 = i /\ runs'[k].day = Day
          BY <3>2, <4>1, <4>2
        <5> QED
          BY <3>5, <5>1
      <4>3. CASE k # 1
        <5>1. /\ i - 1 \in DOMAIN runs /\ runs'[i] = runs[i - 1]
              /\ k - 1 \in DOMAIN runs /\ runs'[k] = runs[k - 1]
          BY <3>2, <3>6, <4>1, <4>3
        <5>2. k - 1 <= i - 1 /\ (i - 1) - (k - 1) + 1 = i - k + 1
          BY <3>6, <4>1
        <5> QED
          BY <1>7, <5>1, <5>2
      <4> QED
        BY <4>2, <4>3
    <3>7. m1 <= b1 + FirstSlot
      <4> HIDE DEF n, m, b, m1, b1
      <4> QED
        BY <1>3, <1>6, <3>3
    <3>8. \A i, k \in DOMAIN runs' : k <= i =>
            runs'[i].day <= runs'[k].day /\ i - k + 1 <= 2 * n * (runs'[k].day - runs'[i].day + 1)
      BY <3>6
    <3> QED
      BY <1>2, <2>1, <3>5, <3>7, <3>8 DEF Pace
  <2>7. Completes(w, q) \/ (runs' = runs /\ m1 - b1 <= m - b)
    <3>1. CASE Begins(w, q)
      <4>1. jobs[w].slot # slot
        BY <1>4, <3>1 DEF Begins
      <4> HIDE DEF n, m, b, m1, b1
      <4> QED
        BY <1>3, <2>3, <2>4, <3>1, <4>1 DEF Begins
    <3>2. CASE Measures(w, q) \/ TakesUp(w, q) \/ Ends(w, q) \/ \E item \in jobs[w].todo : Decides(w, q, item)
      <4>1. runs' = runs /\ q.slot = jobs[w].slot /\ (q.pc = "quality" => jobs[w].pc = "quality")
        BY <3>2 DEF Measures, TakesUp, Ends, Decides, Keeps
      <4> HIDE DEF n, m, b, m1, b1
      <4> QED
        BY <1>3, <2>3, <2>4, <4>1
    <3> QED
      BY <1>11, <3>1, <3>2 DEF JobMoves
  <2> QED
    BY <2>5, <2>6, <2>7
<1> QED
  BY <1>1, <1>9, <1>10, <1>11

(***************************************************************************)
(* The newest run that missed a session with no account is a recent one.   *)
(***************************************************************************)
LEMMA WithinReach ==
  ASSUME LimitsAssumption, LookbackAssumption, Types, Staffed, Pace, Strikes,
         NEW j \in DOMAIN runs, Newest(j), NEW o \in runs[j].missed, Unsettled(o, runs[j].day)
  PROVE  j <= RecentRuns
<1> DEFINE n == Cardinality(Crew)
           d == runs[j].day
           failures == qualitySpent.errors + qualitySpent.crashes
           Early == {k \in 1..j : runs[k].day - d < FinalAfter}
<1>1. /\ Len(runs) \in Nat /\ DOMAIN runs = 1..Len(runs) /\ j \in Nat \ {0}
      /\ \A i \in DOMAIN runs : runs[i].day \in Nat
  <2>1. runs \in Seq(Runs)
    BY DEF Types
  <2>2. \A r \in Runs : r.day \in Nat
    BY DEF Runs
  <2> QED
    BY <2>1, <2>2
<1>2. FinalAfter \in Nat \ {0} /\ RecentRuns \in Nat /\ n \in Nat /\ failures \in Nat
  BY Sizes DEF LimitsAssumption, Types
<1>3. (2 * FinalAfter - 1) * n + failures < RecentRuns
  <2>1. /\ (2 * FinalAfter - 1) * n + qualityBound.errors + qualityBound.crashes < RecentRuns
        /\ qualityBound.errors \in Nat /\ qualityBound.crashes \in Nat
    BY DEF LookbackAssumption, Staffed, Crew
  <2>2. /\ qualitySpent.errors \in Nat /\ qualitySpent.crashes \in Nat
        /\ qualitySpent.errors <= qualityBound.errors /\ qualitySpent.crashes <= qualityBound.crashes
    BY DEF Types, Staffed
  <2> DEFINE p == (2 * FinalAfter - 1) * n
  <2>3. p \in Int
    BY <1>2
  <2> HIDE DEF p
  <2>4. p + qualitySpent.errors + qualitySpent.crashes < RecentRuns
    BY <1>2, <2>1, <2>2, <2>3 DEF p
  <2> HIDE DEF n
  <2>5. p + failures < RecentRuns
    BY <1>2, <2>2, <2>3, <2>4
  <2> QED
    BY <2>5 DEF p
<1>4. Early \in SUBSET Nat /\ j \in Early
  BY <1>1, <1>2
<1>5. PICK k \in Early : \A i \in Early : k <= i
  BY <1>4, Least
<1>6. k \in 1..j /\ k \in DOMAIN runs /\ runs[k].day - d < FinalAfter
  BY <1>1, <1>5
<1>7. k - 1 <= n + failures
  <2>1. CASE k = 1
    BY <1>2, <2>1
  <2>2. CASE k # 1
    <3>1. k - 1 \in DOMAIN runs /\ k - 1 \in 1..j /\ k - 1 \notin Early
      BY <1>1, <1>5, <1>6, <2>2
    <3>2. runs[k - 1].day - d >= FinalAfter
      BY <1>1, <1>2, <3>1
    <3>3. k - 1 <= Cardinality(Settling(<<o, d>>)) + qualitySpent.errors + qualitySpent.crashes
      BY <3>1, <3>2 DEF Strikes
    <3>4. Cardinality(Settling(<<o, d>>)) \in Nat /\ Cardinality(Settling(<<o, d>>)) <= n
      BY Sizes DEF Settling
    <3> DEFINE s == Cardinality(Settling(<<o, d>>))
    <3>5. qualitySpent.errors \in Nat /\ qualitySpent.crashes \in Nat /\ k \in Nat
      BY <1>6 DEF Types
    <3> HIDE DEF s, n
    <3> QED
      BY <1>2, <3>3, <3>4, <3>5 DEF s
  <2> QED
    BY <2>1, <2>2
<1>8. j - k <= 2 * n * (FinalAfter - 1)
  <2>1. 2 * n * (FinalAfter - 1) >= 0
    <3> HIDE DEF n
    <3>1. FinalAfter - 1 \in Nat /\ 2 * n \in Nat
      BY <1>2
    <3>2. \A x, y \in Nat : x * y >= 0
      OBVIOUS
    <3> QED
      BY <3>1, <3>2
  <2>2. CASE k = j
    BY <1>1, <2>1, <2>2
  <2>3. CASE k # j
    <3>1. j - 1 \in DOMAIN runs /\ k <= j - 1 /\ k \in Nat
      BY <1>1, <1>6, <2>3
    <3>2. runs[j - 1].day > d
      <4>1. runs[j - 1].day # d
        BY <1>1, <3>1 DEF Newest
      <4>2. d <= runs[j - 1].day
        BY <1>1, <3>1 DEF Pace
      <4> QED
        BY <1>1, <3>1, <4>1, <4>2
    <3> DEFINE x == runs[k].day - runs[j - 1].day + 1
    <3>3. x \in Int /\ x <= FinalAfter - 1
      BY <1>1, <1>2, <1>6, <3>1, <3>2
    <3>4. (j - 1) - k + 1 <= 2 * n * x
      BY <3>1, <1>6 DEF Pace
    <3> HIDE DEF n, x
    <3>5. 2 * n * x <= 2 * n * (FinalAfter - 1)
      <4>1. \A u \in Nat, v, z \in Int : v <= z => u * v <= u * z
        OBVIOUS
      <4>2. 2 * n \in Nat /\ FinalAfter - 1 \in Int
        BY <1>2
      <4> QED
        BY <3>3, <4>1, <4>2
    <3> DEFINE u == 2 * n * x
               v == 2 * n * (FinalAfter - 1)
    <3>6. u \in Int /\ v \in Int
      BY <1>2, <3>3
    <3> HIDE DEF u, v
    <3>7. (j - 1) - k + 1 <= u /\ u <= v
      BY <3>4, <3>5 DEF u, v
    <3>8. j - k <= v
      BY <1>1, <3>1, <3>6, <3>7
    <3> QED
      BY <3>8 DEF v
  <2> QED
    BY <2>2, <2>3
<1>9. (2 * FinalAfter - 1) * n = 2 * n * (FinalAfter - 1) + n
  <2> HIDE DEF n
  <2> QED
    BY <1>2
<1> DEFINE p == 2 * n * (FinalAfter - 1)
<1>10. p \in Int /\ k \in Nat
  BY <1>2, <1>6
<1>11. p + n + failures < RecentRuns /\ j - k <= p
  BY <1>3, <1>8, <1>9
<1> HIDE DEF n, failures, p, d, Early
<1> QED
  BY <1>1, <1>2, <1>7, <1>10, <1>11

(***************************************************************************)
(* A run that comes after the last day of a missed session takes it up,    *)
(* and it settles it unless it fails.                                      *)
(***************************************************************************)
LEMMA StrikesStep ==
  ASSUME LimitsAssumption, LookbackAssumption, Types, Evenings, Staffed, Pace, Strikes,
         [QualityNext]_qualityVars
  PROVE  Strikes'
<1>1. Lasting /\ (Rests \/ NextSlot \/ \E w \in Workers, q \in Jobs : JobMoves(w, q))
  BY JobStep
<1>2. /\ FinalAfter \in Nat \ {0} /\ Day \in Nat
      /\ qualitySpent.errors \in Nat /\ qualitySpent.crashes \in Nat
      /\ qualitySpent'.errors \in Nat /\ qualitySpent'.crashes \in Nat
      /\ qualitySpent'.errors >= qualitySpent.errors /\ qualitySpent'.crashes >= qualitySpent.crashes
  <2>1. Types'
    BY TypesStep
  <2> QED
    BY <1>1, <2>1, DayType DEF LimitsAssumption, Types, Lasting
<1>3. /\ Len(runs) \in Nat /\ DOMAIN runs = 1..Len(runs)
      /\ \A i \in DOMAIN runs : runs[i] \in Runs /\ runs[i].day \in Nat /\ runs[i].missed \subseteq Orders
  <2>1. runs \in Seq(Runs)
    BY DEF Types
  <2>2. \A r \in Runs : r.day \in Nat /\ r.missed \subseteq Orders
    BY DEF Runs
  <2> QED
    BY <2>1, <2>2
<1>4. Crew' = Crew /\ IsFiniteSet(Crew) /\ Crew \subseteq Workers
  BY <1>1, Sizes DEF Lasting, Crew, LookbackAssumption, Staffed
<1>5. \A item, o, d : /\ Settling(item) \in SUBSET Crew /\ Settling(item)' \in SUBSET Crew
                      /\ Cardinality(Settling(item)) \in Nat
                      /\ Cardinality(Settling(item)') \in Nat
                      /\ Unsettled(o, d)' => Unsettled(o, d)
  <2>1. \A item : Settling(item) \in SUBSET Crew /\ Settling(item)' \in SUBSET Crew
    BY <1>4 DEF Settling
  <2>2. \A o, d : Unsettled(o, d)' => Unsettled(o, d)
    BY <1>1 DEF Unsettled, Rechecked, Lasting
  <2>3. \A item : Cardinality(Settling(item)') \in Nat
    <3> SUFFICES ASSUME NEW item PROVE Cardinality(Settling(item)') \in Nat
      OBVIOUS
    <3>1. PICK T : T = Settling(item)'
      OBVIOUS
    <3>2. IsFiniteSet(T)
      BY <1>4, <2>1, <3>1, FS_Subset
    <3> QED
      BY <3>1, <3>2, FS_CardinalityType
  <2> QED
    BY <2>1, <2>2, <2>3, Sizes
<1>6. ASSUME NEW w \in Workers, NEW q \in Jobs, JobMoves(w, q)
      PROVE  /\ \A v \in Workers : jobs'[v] = IF v = w THEN q ELSE jobs[v]
             /\ w \in Crew /\ jobs[w] \in Jobs /\ (jobs[w].pc # "idle" => jobs[w].day = Day)
  <2>1. \A v \in Workers : jobs'[v] = IF v = w THEN q ELSE jobs[v]
    BY <1>6 DEF JobMoves, Set, Types
  <2>2. w \in Crew
    BY <1>6 DEF JobMoves, Begins, Measures, Completes, TakesUp, Decides, Ends, Staffed
  <2> QED
    BY <2>1, <2>2 DEF Types, Evenings, Evening
\* The workers that will settle an item, after a step of one of them.
<1>7. ASSUME NEW w \in Workers, NEW q \in Jobs, JobMoves(w, q), NEW item
      PROVE  /\ Cardinality(Settling(item)') \in Nat
             /\ w \in Settling(item) <=>
                  /\ jobs[w].day - item[2] >= FinalAfter
                  /\ jobs[w].pc = "measured" \/ (jobs[w].pc = "recheck" /\ item \in jobs[w].todo)
             /\ w \in Settling(item)' <=>
                  /\ q.day - item[2] >= FinalAfter
                  /\ q.pc = "measured" \/ (q.pc = "recheck" /\ item \in q.todo)
             /\ Cardinality(Settling(item)') + (IF w \in Settling(item) THEN 1 ELSE 0)
                  = Cardinality(Settling(item)) + (IF w \in Settling(item)' THEN 1 ELSE 0)
  <2>1. /\ \A v \in Workers : jobs'[v] = IF v = w THEN q ELSE jobs[v]
        /\ w \in Crew
    BY <1>6, <1>7
  <2>2. /\ \A v \in Crew \ {w} : v \in Settling(item) <=> v \in Settling(item)'
        /\ w \in Settling(item)' <=>
             /\ q.day - item[2] >= FinalAfter
             /\ q.pc = "measured" \/ (q.pc = "recheck" /\ item \in q.todo)
    BY <1>4, <2>1 DEF Settling
  <2>3. w \in Settling(item) <=>
          /\ jobs[w].day - item[2] >= FinalAfter
          /\ jobs[w].pc = "measured" \/ (jobs[w].pc = "recheck" /\ item \in jobs[w].todo)
    BY <2>1 DEF Settling
  <2>4. Settling(item) \in SUBSET Crew /\ Settling(item)' \in SUBSET Crew
    BY <1>5
  <2> QED
    BY <1>4, <2>1, <2>2, <2>3, <2>4, OneMoves
\* A missed session of the runs so far loses no worker without a failure.
<1>8. ASSUME NEW j \in DOMAIN runs, Newest(j), NEW o \in runs[j].missed, NEW d, d = runs[j].day,
             Unsettled(o, d)', runs' = runs
      PROVE  Cardinality(Settling(<<o, d>>)) + qualitySpent.errors + qualitySpent.crashes
               <= Cardinality(Settling(<<o, d>>)') + qualitySpent'.errors + qualitySpent'.crashes
  <2> DEFINE item == <<o, d>>
             s == Cardinality(Settling(item))
             t == Cardinality(Settling(item)')
  <2>1. item \in Items /\ o \in Orders /\ d \in Nat /\ Unsettled(o, d)
    BY <1>3, <1>5, <1>8 DEF Items
  <2>2. CASE Rests \/ NextSlot
    <3>1. jobs' = jobs
      BY <2>2 DEF Rests, NextSlot
    <3>2. Settling(item)' = Settling(item)
      BY <1>4, <3>1 DEF Settling
    <3>3. s \in Nat /\ t = s
      BY <1>5, <3>2
    <3> HIDE DEF s, t
    <3>4. s + qualitySpent.errors + qualitySpent.crashes <= t + qualitySpent'.errors + qualitySpent'.crashes
      BY <1>2, <3>3
    <3> QED
      BY <3>4 DEF s, t
  <2>3. ASSUME NEW w \in Workers, NEW q \in Jobs, JobMoves(w, q)
        PROVE  s + qualitySpent.errors + qualitySpent.crashes <= t + qualitySpent'.errors + qualitySpent'.crashes
    <3>1. w \in Settling(item) =>
            \/ w \in Settling(item)'
            \/ qualitySpent'.errors = qualitySpent.errors + 1
            \/ qualitySpent'.crashes = qualitySpent.crashes + 1
      <4> SUFFICES ASSUME w \in Settling(item)
                   PROVE  \/ w \in Settling(item)'
                          \/ qualitySpent'.errors = qualitySpent.errors + 1
                          \/ qualitySpent'.crashes = qualitySpent.crashes + 1
        OBVIOUS
      <4>1. /\ jobs[w].day - d >= FinalAfter
            /\ jobs[w].pc = "measured" \/ (jobs[w].pc = "recheck" /\ item \in jobs[w].todo)
        BY <1>7, <2>3
      <4>2. CASE TakesUp(w, q)
        <5>1. j <= RecentRuns
          BY <1>8, <2>1, WithinReach
        <5>2. item \in Pending
          BY <1>8, <2>1, <5>1, PendingItems DEF Unsettled
        <5>3. d < jobs[w].day
          <6>1. jobs[w].day \in Nat
            BY <1>6, <2>3 DEF Jobs
          <6> QED
            BY <1>2, <2>1, <4>1, <6>1
        <5>4. q.pc = "recheck" /\ q.day = jobs[w].day /\ item \in q.todo
          BY <4>2, <5>2, <5>3 DEF TakesUp
        <5> QED
          BY <1>7, <2>3, <4>1, <5>4
      <4>3. ASSUME NEW x \in jobs[w].todo, Decides(w, q, x)
            PROVE  w \in Settling(item)' \/ qualitySpent'.errors = qualitySpent.errors + 1
        <5>1. CASE x = item
          <6>1. ~ (item \in quality \/ Rechecked(item[1], item[2])')
            BY <1>1, <1>8 DEF Unsettled, Lasting, Rechecked
          <6> QED
            BY <4>1, <4>3, <5>1, <6>1 DEF Decides
        <5>2. CASE x # item
          <6>1. q.day - d >= FinalAfter /\ q.pc = "recheck" /\ item \in q.todo
            BY <4>1, <4>3, <5>2 DEF Decides, Keeps
          <6> QED
            BY <1>7, <2>3, <6>1
        <5> QED
          BY <5>1, <5>2
      <4>4. CASE Ends(w, q)
        BY <4>1, <4>4 DEF Ends
      <4>5. ~Begins(w, q) /\ ~Measures(w, q) /\ ~Completes(w, q)
        BY <4>1 DEF Begins, Measures, Completes
      <4> QED
        BY <2>3, <4>2, <4>3, <4>4, <4>5 DEF JobMoves
    <3>2. /\ s \in Nat /\ t \in Nat
          /\ t + (IF w \in Settling(item) THEN 1 ELSE 0) = s + (IF w \in Settling(item)' THEN 1 ELSE 0)
      BY <1>5, <1>7, <2>3
    <3> HIDE DEF s, t
    <3>3. CASE w \in Settling(item)' \/ w \notin Settling(item)
      BY <1>2, <3>2, <3>3
    <3>4. CASE qualitySpent'.errors = qualitySpent.errors + 1 \/ qualitySpent'.crashes = qualitySpent.crashes + 1
      BY <1>2, <3>2, <3>4
    <3> QED
      BY <3>1, <3>3, <3>4
  <2> QED
    BY <1>1, <2>2, <2>3
<1> SUFFICES ASSUME NEW j \in DOMAIN runs', Newest(j)', NEW o \in runs'[j].missed, Unsettled(o, runs[j].day)',
                    NEW i \in DOMAIN runs', runs'[i].day - runs'[j].day >= FinalAfter
             PROVE  i <= Cardinality(Settling(<<o, runs[j].day>>))' + qualitySpent'.errors + qualitySpent'.crashes
  BY DEF Strikes
<1>9. PICK d : d = runs'[j].day
  OBVIOUS
<1> DEFINE item == <<o, d>>
           s == Cardinality(Settling(item))
           t == Cardinality(Settling(item)')
<1>10. Cardinality(Settling(<<o, runs[j].day>>))' = t /\ Unsettled(o, d)'
  BY <1>9 DEF Settling, Unsettled, Rechecked
<1>11. CASE runs' = runs
  <2>1. j \in DOMAIN runs /\ d = runs[j].day /\ o \in runs[j].missed /\ i \in DOMAIN runs
    BY <1>9, <1>11
  <2>2. Newest(j)
    BY <1>11 DEF Newest
  <2>3. i <= s + qualitySpent.errors + qualitySpent.crashes
    BY <1>5, <1>9, <1>10, <1>11, <2>1, <2>2 DEF Strikes
  <2>4. s + qualitySpent.errors + qualitySpent.crashes <= t + qualitySpent'.errors + qualitySpent'.crashes
    <3>1. Unsettled(o, d)'
      BY <1>10
    <3> QED
      BY <1>8, <1>11, <2>1, <2>2, <3>1
  <2>5. s \in Nat /\ t \in Nat /\ i \in Nat
    <3>1. s \in Nat /\ t \in Nat
      BY <1>5, Zenon
    <3>2. i \in Nat
      BY <1>3, <2>1
    <3> QED
      BY <3>1, <3>2
  <2> HIDE DEF s, t
  <2>6. i <= t + qualitySpent'.errors + qualitySpent'.crashes
    BY <1>2, <2>3, <2>4, <2>5
  <2> QED
    BY <1>10, <2>6
<1>12. ASSUME NEW w \in Workers, NEW q \in Jobs, JobMoves(w, q), Completes(w, q)
       PROVE  i <= t + qualitySpent'.errors + qualitySpent'.crashes
  <2> DEFINE run == [day |-> jobs[w].day, missed |-> jobs[w].missed, errors |-> jobs[w].errors]
  <2>1. run \in Runs /\ runs' = <<run>> \o runs /\ run.day = Day /\ jobs[w].day = Day
    BY <1>6, <1>12 DEF Completes, Runs, Jobs
  <2> HIDE DEF run
  <2>2. /\ DOMAIN runs' = 1..(Len(runs) + 1) /\ runs'[1].day = Day
        /\ \A k \in DOMAIN runs' : k # 1 => k - 1 \in DOMAIN runs /\ runs'[k] = runs[k - 1]
        /\ \A k \in DOMAIN runs : k + 1 \in DOMAIN runs' /\ runs'[k + 1] = runs[k]
    BY <2>1, Prepended
  <2>3. \A k \in DOMAIN runs' : k \in Nat /\ runs'[k].day \in Nat /\ runs'[k].day <= Day
    <3>1. \A k \in DOMAIN runs : runs[k].day \in Nat /\ runs[k].day <= Day
      BY <1>3 DEF Pace
    <3> SUFFICES ASSUME NEW k \in DOMAIN runs'
                 PROVE  k \in Nat /\ runs'[k].day \in Nat /\ runs'[k].day <= Day
      OBVIOUS
    <3>2. k \in Nat
      BY <1>3, <2>2
    <3>3. CASE k = 1
      BY <1>2, <2>2, <3>2, <3>3
    <3>4. CASE k # 1
      BY <2>2, <3>1, <3>2, <3>4
    <3> QED
      BY <3>3, <3>4
  <2>4. j # 1
    BY <1>2, <1>9, <2>2, <2>3
  <2>5. j - 1 \in DOMAIN runs /\ d = runs[j - 1].day /\ o \in runs[j - 1].missed
    BY <1>9, <2>2, <2>4
  <2>6. Newest(j - 1)
    <3> SUFFICES ASSUME NEW k \in DOMAIN runs, runs[k].day = d PROVE j - 1 <= k
      BY <2>5 DEF Newest
    <3>1. k + 1 \in DOMAIN runs' /\ runs'[k + 1].day = runs'[j].day
      BY <1>9, <2>2
    <3>2. j <= k + 1
      BY <3>1 DEF Newest
    <3> QED
      BY <1>3, <2>3, <3>2
  <2>7. Day - d >= FinalAfter
    BY <1>2, <1>9, <2>3
  <2>8. t = s + 1 /\ s \in Nat
    <3>1. w \in Settling(item)' /\ w \notin Settling(item)
      BY <1>7, <1>12, <2>1, <2>7 DEF Completes, Keeps
    <3>2. t \in Nat /\ s \in Nat /\ t + 0 = s + 1
      BY <1>5, <1>7, <1>12, <3>1
    <3> HIDE DEF s, t
    <3> QED
      BY <3>2
  <2>9. qualitySpent' = qualitySpent
    BY <1>12 DEF Completes
  <2>10. i # 1 => i - 1 <= s + qualitySpent.errors + qualitySpent.crashes
    <3>1. SUFFICES ASSUME i # 1 PROVE i - 1 <= s + qualitySpent.errors + qualitySpent.crashes
      OBVIOUS
    <3>2. i - 1 \in DOMAIN runs /\ runs[i - 1].day - runs[j - 1].day >= FinalAfter
      BY <1>9, <2>2, <2>5, <3>1
    <3>3. Unsettled(o, runs[j - 1].day)
      BY <1>5, <1>10, <2>5
    <3> QED
      BY <2>5, <2>6, <3>2, <3>3 DEF Strikes
  <2>11. i \in Nat
    BY <2>3
  <2> HIDE DEF s, t
  <2> QED
    BY <1>2, <2>8, <2>9, <2>10, <2>11
<1>13. runs' = runs \/ \E w \in Workers, q \in Jobs : JobMoves(w, q) /\ Completes(w, q)
  BY <1>1 DEF Rests, NextSlot, JobMoves, Begins, Measures, TakesUp, Decides, Ends
<1> QED
  BY <1>10, <1>11, <1>12, <1>13

(***************************************************************************)
(* No session is dropped (D52), however runs overlap, transactions fail    *)
(* and workers die, as long as the query of the pending items looks back   *)
(* (2 FinalAfter - 1) runs of each worker and one of each failure.         *)
(***************************************************************************)
THEOREM NoneDropped ==
  ASSUME LimitsAssumption, LookbackAssumption
  PROVE  QualitySpec => []NothingDropped
<1>1. QualityInit => QualityInv /\ LookbackInv
  <2> SUFFICES ASSUME QualityInit PROVE QualityInv /\ LookbackInv
    OBVIOUS
  <2>1. runs = <<>> /\ DOMAIN runs = {} /\ slot = 0 /\ \A w \in Workers : jobs[w] = NotRunning
    BY DEF QualityInit
  <2>2. Staffed
    BY DEF QualityInit, Staffed, LookbackAssumption, NotRunning
  <2>3. Measuring = {} /\ Crew \subseteq Workers
    BY <2>1, <2>2 DEF Measuring, NotRunning, Crew, LookbackAssumption, Staffed
  <2>4. Pace
    <3>1. Cardinality(Measuring) = 0
      BY <2>3, FS_EmptySet
    <3>2. Cardinality(Begun) \in Nat /\ FirstSlot \in Nat
      BY <2>2, Sizes DEF Begun, FirstSlot
    <3>3. Cardinality(Measuring) <= Cardinality(Begun) + FirstSlot
      BY <3>1, <3>2
    <3> QED
      BY <2>1, <3>3 DEF Pace
  <2>5. Complete /\ Strikes
    BY <2>1 DEF Complete, Strikes, NotRunning
  <2> QED
    BY <2>2, <2>4, <2>5, TypesInit DEF QualityInv, LookbackInv
<1>2. QualityInv /\ LookbackInv /\ [QualityNext]_qualityVars => QualityInv' /\ LookbackInv'
  BY TypesStep, AccountsStep, CompleteStep, PaceStep, StrikesStep DEF QualityInv, LookbackInv
<1>3. QualityInv /\ LookbackInv => NothingDropped
  <2> SUFFICES ASSUME QualityInv, LookbackInv, NEW i \in DOMAIN runs, NEW o \in Orders,
                      ~EndsBefore(o, runs[i].day), Unsettled(o, runs[i].day)
               PROVE  \/ <<o, runs[i].day>> \in Pending
                      \/ o \in runs[Min({j \in DOMAIN runs : runs[j].day = runs[i].day})].errors
    BY DEF NothingDropped, Unsettled
  <2> DEFINE d == runs[i].day
             S == {j \in DOMAIN runs : runs[j].day = d}
             k == Min(S)
  <2>1. runs \in Seq(Runs) /\ Types
    BY DEF QualityInv, Types
  <2>2. S \in SUBSET Nat /\ S # {}
    BY <2>1
  <2>3. k \in S /\ \A j \in S : k <= j
    BY <2>2, Smallest
  <2> HIDE DEF k
  <2>4. k \in DOMAIN runs /\ runs[k].day = d /\ Newest(k)
    BY <2>3 DEF Newest
  <2>5. o \in runs[k].missed \/ o \in runs[k].errors
    BY <2>4 DEF LookbackInv, Complete, Known, Unsettled
  <2>6. CASE o \in runs[k].missed
    <3>1. k <= RecentRuns
      BY <2>1, <2>4, <2>6, WithinReach DEF LookbackInv
    <3>2. <<o, d>> \in Items
      <4>1. runs[i] \in Runs
        BY <2>1
      <4> QED
        BY <4>1 DEF Runs, Items
    <3> QED
      BY <2>1, <2>4, <2>6, <3>1, <3>2, PendingItems DEF Unsettled
  <2> QED
    BY <2>5, <2>6 DEF k
<1> QED
  BY <1>1, <1>2, <1>3, PTL DEF QualitySpec

-----------------------------------------------------------------------------
(* The bar store. *)

USE ProcessesAssumption, InstantAssumption, BoundAssumption

(***************************************************************************)
(* A subset of a writer's fetched bars is a legal batch.                   *)
(***************************************************************************)
LEMMA StoredBatch ==
  ASSUME NEW w \in Writers, fetch[w] \in Answers, at[w] \in Nat
  PROVE  [feed |-> fetch[w].feed, at |-> at[w],
          bars |-> [m \in Changed(w) |-> fetch[w].bars[m]]] \in Batches
<1>1. PICK s \in SUBSET Minutes : fetch[w].bars \in [s -> Values]
  BY DEF Answers
<1>2. Changed(w) \subseteq s
  BY <1>1 DEF Changed
<1>3. [m \in Changed(w) |-> fetch[w].bars[m]] \in [Changed(w) -> Values]
  BY <1>1, <1>2
<1>4. Changed(w) \in SUBSET Minutes
  BY <1>2
<1>5. fetch[w].feed \in Feeds
  BY DEF Answers
<1> QED
  BY <1>3, <1>4, <1>5 DEF Batches

(***************************************************************************)
(* Every step keeps the variables in their types.                          *)
(***************************************************************************)
LEMMA TypeStep ==
  ASSUME WatermarkInv, [Next]_vars
  PROVE  TypeOK'
<1> USE DEF TypeOK, WatermarkInv, Processes
<1>1. CASE UNCHANGED vars
  BY <1>1 DEF vars
<1>2. ASSUME NEW w \in Writers, Fetch(w) PROVE TypeOK'
  BY <1>2 DEF Fetch
<1>3. ASSUME NEW w \in Writers, ReadClock(w) PROVE TypeOK'
  BY <1>3 DEF ReadClock
<1>4. ASSUME NEW w \in Writers, Store(w) PROVE TypeOK'
  <2>1. fetch[w] \in Answers /\ at[w] \in Nat
    BY <1>4 DEF Store, PendingIsNew
  <2>2. batches' \subseteq Batches
    BY <1>4, <2>1, StoredBatch DEF Store
  <2> QED
    BY <1>4, <2>2 DEF Store, Release
<1>5. ASSUME NEW w \in Writers, Crash(w) PROVE TypeOK'
  BY <1>5 DEF Crash
<1>6. ASSUME NEW r \in Readers, AskInstant(r) PROVE TypeOK'
  BY <1>6 DEF AskInstant
<1>7. ASSUME NEW r \in Readers, TakeInstant(r) PROVE TypeOK'
  BY <1>7 DEF TakeInstant, Release
<1>8. ASSUME NEW p \in Processes, AcquireLock(p) PROVE TypeOK'
  BY <1>8 DEF AcquireLock
<1>9. CASE Tick
  BY <1>9 DEF Tick
<1> QED
  BY <1>1, <1>2, <1>3, <1>4, <1>5, <1>6, <1>7, <1>8, <1>9 DEF Next

(***************************************************************************)
(* The lock, the clock and the pending writes keep their order.            *)
(***************************************************************************)
LEMMA OrderStep ==
  ASSUME WatermarkInv, TypeOK', [Next]_vars
  PROVE  HoldsLock' /\ Past' /\ WaitingHasFetched' /\ PendingIsNew'
<1>0. /\ \A b \in batches : b.at \in Nat
      /\ \A t \in published : t \in Nat
      /\ clock \in Nat
  BY DEF WatermarkInv, TypeOK, Batches
<1> DEFINE Order == HoldsLock /\ Past /\ WaitingHasFetched /\ PendingIsNew
<1> USE DEF TypeOK, WatermarkInv, Processes, HoldsLock, Past, WaitingHasFetched, PendingIsNew
<1>1. CASE UNCHANGED vars
  BY <1>1 DEF vars
<1>2. ASSUME NEW w \in Writers, Fetch(w) PROVE Order'
  BY <1>2 DEF Fetch
<1>3. ASSUME NEW w \in Writers, ReadClock(w) PROVE Order'
  BY <1>3 DEF ReadClock
<1>4. ASSUME NEW w \in Writers, Store(w) PROVE Order'
  <2>1. HoldsLock' /\ WaitingHasFetched'
    BY <1>4 DEF Store, Release
  <2>2. \A b \in batches' : b \in batches \/ b.at = at[w]
    BY <1>4 DEF Store
  <2>3. Past'
    <3>1. clock' = clock + 1 /\ published' = published /\ at[w] \in Nat /\ at[w] <= clock
      BY <1>4 DEF Store, Release
    <3>2. \A b \in batches' : b.at < clock + 1
      BY <1>0, <2>2, <3>1
    <3> QED
      BY <1>0, <3>1, <3>2
  <2>4. lock = w /\ \A v \in Writers : pc'[v] # "storing"
    BY <1>4 DEF Store, Release
  <2> QED
    BY <2>1, <2>3, <2>4
<1>5. ASSUME NEW w \in Writers, Crash(w) PROVE Order'
  BY <1>5 DEF Crash
<1>6. ASSUME NEW r \in Readers, AskInstant(r) PROVE Order'
  BY <1>6 DEF AskInstant
<1>7. ASSUME NEW r \in Readers, TakeInstant(r) PROVE Order'
  <2>1. lock = r /\ \A v \in Writers : pc'[v] # "storing"
    BY <1>7 DEF TakeInstant, Release
  <2>2. HoldsLock' /\ WaitingHasFetched' /\ PendingIsNew'
    BY <1>7, <2>1 DEF TakeInstant, Release
  <2>3. Past'
    BY <1>0, <1>7 DEF TakeInstant, Release
  <2> QED
    BY <2>2, <2>3
<1>8. ASSUME NEW p \in Processes, AcquireLock(p) PROVE Order'
  BY <1>8 DEF AcquireLock
<1>9. CASE Tick
  <2>1. HoldsLock' /\ WaitingHasFetched'
    BY <1>9 DEF Tick
  <2>2. Past' /\ PendingIsNew'
    BY <1>0, <1>9 DEF Tick
  <2> QED
    BY <2>1, <2>2
<1> QED
  BY <1>1, <1>2, <1>3, <1>4, <1>5, <1>6, <1>7, <1>8, <1>9 DEF Next

(***************************************************************************)
(* The inductive invariant holds: one transaction at a time reads the      *)
(* clock, later than everything stored or published.                       *)
(***************************************************************************)
THEOREM Invariance == Spec => []WatermarkInv
<1>1. Init => WatermarkInv
  BY DEF Init, WatermarkInv, TypeOK, HoldsLock, Past, WaitingHasFetched, PendingIsNew, Processes
<1>2. WatermarkInv /\ [Next]_vars => WatermarkInv'
  BY TypeStep, OrderStep DEF WatermarkInv
<1> QED
  BY <1>1, <1>2, PTL DEF Spec

(***************************************************************************)
(* An answer depends on nothing but the visible batches.                   *)
(***************************************************************************)
LEMMA SameVisible ==
  ASSUME NEW feed, NEW t, Visible(feed, t)' = Visible(feed, t)
  PROVE  ReadAsOf(feed, t)' = ReadAsOf(feed, t)
<1>1. \A m \in Minutes : Versions(feed, t, m)' = Versions(feed, t, m)
  BY DEF Versions
<1>2. \A m \in Minutes : Latest(Versions(feed, t, m))' = Latest(Versions(feed, t, m))
  BY <1>1
<1> QED
  BY <1>1, <1>2 DEF ReadAsOf

(***************************************************************************)
(* What is visible as of a published instant does not change.              *)
(***************************************************************************)
LEMMA VisibleStep ==
  ASSUME WatermarkInv, [Next]_vars, NEW t \in published, NEW feed \in Feeds
  PROVE  Visible(feed, t)' = Visible(feed, t)
<1> USE DEF Visible
<1>1. ASSUME NEW w \in Writers, Store(w) PROVE Visible(feed, t)' = Visible(feed, t)
  <2>1. \A b \in batches' : b \in batches \/ b.at = at[w]
    BY <1>1 DEF Store
  <2>2. t < at[w] /\ at[w] \in Nat /\ t \in Nat
    BY <1>1 DEF Store, WatermarkInv, TypeOK, PendingIsNew
  <2>3. batches \subseteq batches'
    BY <1>1 DEF Store
  <2>4. \A b \in batches' : b.at <= t => b \in batches
    BY <2>1, <2>2
  <2> QED
    BY <2>3, <2>4
<1>2. CASE batches' = batches
  BY <1>2
<1> QED
  BY <1>1, <1>2 DEF Next, vars, Fetch, ReadClock, Crash, AskInstant, TakeInstant,
                    AcquireLock, Tick

(***************************************************************************)
(* acquire_data_as_of keeps its promise: every answer as of a published    *)
(* instant is final.                                                       *)
(***************************************************************************)
THEOREM Stability == Spec => KnowledgeNeverChanges
<1> DEFINE Stable == \A t \in published, feed \in Feeds : ReadAsOf(feed, t)' = ReadAsOf(feed, t)
<1>1. WatermarkInv /\ [Next]_vars => Stable
  BY VisibleStep, SameVisible
<1>2. WatermarkInv /\ [Next]_vars => [Stable]_vars
  BY <1>1
<1> QED
  BY <1>2, Invariance, PTL DEF Spec, KnowledgeNeverChanges

(***************************************************************************)
(* Distinct batches have distinct ingested_at: the as-of query never has   *)
(* to break a tie.                                                         *)
(***************************************************************************)
THEOREM Tieless == Spec => []NoTies
<1>1. Init => NoTies
  BY DEF Init, NoTies
<1>2. WatermarkInv /\ NoTies /\ [Next]_vars => NoTies'
  <2> SUFFICES ASSUME WatermarkInv, NoTies, [Next]_vars PROVE NoTies'
    OBVIOUS
  <2>1. ASSUME NEW w \in Writers, Store(w) PROVE NoTies'
    <3>1. \A b \in batches : b.at < at[w] /\ b.at \in Nat
      BY <2>1 DEF Store, WatermarkInv, TypeOK, PendingIsNew, Batches
    <3>2. at[w] \in Nat
      BY <2>1 DEF Store, WatermarkInv, PendingIsNew
    <3> DEFINE new == [feed |-> fetch[w].feed, at |-> at[w],
                       bars |-> [m \in Changed(w) |-> fetch[w].bars[m]]]
    <3>3. \A b \in batches' : b \in batches \/ b = new
      BY <2>1 DEF Store
    <3>4. new.at = at[w]
      OBVIOUS
    <3> HIDE DEF new
    <3> QED
      BY <3>1, <3>2, <3>3, <3>4 DEF NoTies
  <2>2. CASE batches' = batches
    BY <2>2 DEF NoTies
  <2> QED
    BY <2>1, <2>2 DEF Next, vars, Fetch, ReadClock, Crash, AskInstant, TakeInstant,
                      AcquireLock, Tick
<1> QED
  BY <1>1, <1>2, Invariance, PTL DEF Spec

(***************************************************************************)
(* Storing a batch changes no answer as of an instant before it.           *)
(***************************************************************************)
LEMMA EarlierAnswers ==
  ASSUME WatermarkInv, NEW w \in Writers, Store(w),
         NEW feed, NEW t \in Int, t < at[w]
  PROVE  ReadAsOf(feed, t)' = ReadAsOf(feed, t)
<1>1. Visible(feed, t)' = Visible(feed, t)
  <2>1. \A b \in batches' : b \in batches \/ b.at = at[w]
    BY DEF Store
  <2>2. at[w] \in Nat
    BY DEF Store, WatermarkInv, PendingIsNew
  <2>3. batches \subseteq batches'
    BY DEF Store
  <2>4. \A b \in batches' : b.at <= t => b \in batches
    BY <2>1, <2>2
  <2> QED
    BY <2>3, <2>4 DEF Visible
<1> QED
  BY <1>1, SameVisible

(***************************************************************************)
(* Under the lock, the answer as of now is the answer as of a moment ago:  *)
(* nothing was stored at the current instant.                              *)
(***************************************************************************)
LEMMA NothingStoredNow ==
  ASSUME WatermarkInv, NEW w \in Writers, Store(w), NEW feed
  PROVE  ReadAsOf(feed, at[w]) = ReadAsOf(feed, at[w] - 1)
<1>1. \A b \in batches : b.at < at[w] /\ b.at \in Nat
  BY DEF Store, WatermarkInv, TypeOK, PendingIsNew, Batches
<1>2. at[w] \in Nat
  BY DEF Store, WatermarkInv, PendingIsNew
<1>3. Visible(feed, at[w]) = Visible(feed, at[w] - 1)
  BY <1>1, <1>2 DEF Visible
<1> QED
  BY <1>3 DEF ReadAsOf, Versions

(***************************************************************************)
(* store_batch never stores a bar again that is already known.             *)
(***************************************************************************)
THEOREM Deduplicated == Spec => []NoRedundantVersion
<1>1. Init => NoRedundantVersion
  BY DEF Init, NoRedundantVersion
<1>2. WatermarkInv /\ NoRedundantVersion /\ [Next]_vars => NoRedundantVersion'
  <2> SUFFICES ASSUME WatermarkInv, NoRedundantVersion, [Next]_vars PROVE NoRedundantVersion'
    OBVIOUS
  <2>1. ASSUME NEW w \in Writers, Store(w) PROVE NoRedundantVersion'
    <3> PICK new : new = [feed |-> fetch[w].feed, at |-> at[w],
                          bars |-> [m \in Changed(w) |-> fetch[w].bars[m]]]
      OBVIOUS
    <3>1. \A b \in batches' : b \in batches \/ b = new
      BY <2>1 DEF Store
    <3>2. at[w] \in Nat
      BY <2>1 DEF Store, WatermarkInv, PendingIsNew
    <3>3. ASSUME NEW b \in batches, NEW m \in DOMAIN b.bars
          PROVE  b.bars[m] # ReadAsOf(b.feed, b.at - 1)'[m]
      <4>1. b.at \in Nat /\ b.at < at[w]
        BY <2>1 DEF Store, WatermarkInv, TypeOK, PendingIsNew, Batches
      <4>2. ReadAsOf(b.feed, b.at - 1)' = ReadAsOf(b.feed, b.at - 1)
        BY <2>1, <3>2, <4>1, EarlierAnswers
      <4> QED
        BY <4>2 DEF NoRedundantVersion
    <3>4. ASSUME NEW m \in DOMAIN new.bars
          PROVE  new.bars[m] # ReadAsOf(new.feed, new.at - 1)'[m]
      <4>1. ReadAsOf(new.feed, new.at - 1)' = ReadAsOf(new.feed, new.at - 1)
        BY <2>1, <3>2, EarlierAnswers
      <4>2. ReadAsOf(new.feed, at[w]) = ReadAsOf(new.feed, new.at - 1)
        BY <2>1, NothingStoredNow
      <4>3. new.bars[m] # ReadAsOf(new.feed, at[w])[m]
        BY DEF Changed
      <4> QED
        BY <4>1, <4>2, <4>3
    <3> QED
      BY <3>1, <3>3, <3>4 DEF NoRedundantVersion
  <2>2. CASE batches' = batches
    <3>1. \A b \in batches : ReadAsOf(b.feed, b.at - 1)' = ReadAsOf(b.feed, b.at - 1)
      BY <2>2, SameVisible DEF Visible
    <3> QED
      BY <2>2, <3>1 DEF NoRedundantVersion
  <2> QED
    BY <2>1, <2>2 DEF Next, vars, Fetch, ReadClock, Crash, AskInstant, TakeInstant,
                      AcquireLock, Tick
<1> QED
  BY <1>1, <1>2, Invariance, PTL DEF Spec

-----------------------------------------------------------------------------
(* The calendar an order is reloaded with. *)

Of(s) == INSTANCE Calendar WITH Sessions <- s

\* A calendar that SessionCalendar accepts.
Loaded(s) == s \in Seq([open : Nat, close : Nat]) /\ Of(s)!IsCalendar(s)

(***************************************************************************)
(* The first whole minute at or after an instant.                          *)
(***************************************************************************)
LEMMA RoundedUp ==
  ASSUME NEW M \in Nat \ {0}, NEW t \in Int, t % M # 0
  PROVE  /\ (t - (t % M)) + M \in Int /\ t < (t - (t % M)) + M /\ ((t - (t % M)) + M) % M = 0
         /\ \A u \in Int : u % M = 0 /\ t <= u => (t - (t % M)) + M <= u
<1> DEFINE p == t \div M
           q == t % M
           f == t - q
<1>1. p \in Int /\ q \in 0..(M - 1) /\ t = M * p + q
  BY Division
<1>2. q # 0
  OBVIOUS
<1> HIDE DEF p, q
<1>3. f \in Int /\ f = M * p /\ f < t /\ t < f + M
  BY <1>1, <1>2
<1>4. f % M = 0
  <2>1. \A k \in Int : (M * k) % M = 0
    OBVIOUS
  <2> QED
    BY <1>1, <1>3, <2>1
<1> HIDE DEF f
<1>5. (f + M) % M = 0 /\ \A u \in Int : u % M = 0 /\ f < u => f + M <= u
  BY <1>3, <1>4, Multiples
<1>6. (t - (t % M)) + M = f + M
  BY DEF f, q
<1>7. ((t - (t % M)) + M) % M = 0
  BY <1>5, <1>6
<1>8. \A u \in Int : u % M = 0 /\ t <= u => f + M <= u
  <2>1. ASSUME NEW u \in Int, u % M = 0, t <= u PROVE f + M <= u
    BY <1>3, <1>5, <2>1
  <2> QED
    BY <2>1
<1> QED
  BY <1>3, <1>6, <1>7, <1>8

(***************************************************************************)
(* A prefix of 1..n is counted by its greatest element.                    *)
(***************************************************************************)
LEMMA Prefix ==
  ASSUME NEW n \in Nat, NEW S \in SUBSET (1..n), \A i \in S : \A j \in 1..n : j <= i => j \in S
  PROVE  Cardinality(S) \in 0..n /\ \A i \in 1..n : i \in S <=> i <= Cardinality(S)
<1> DEFINE Out == (1..(n + 1)) \ S
<1>1. Out \in SUBSET Nat /\ n + 1 \in Out
  OBVIOUS
<1>2. PICK m \in Out : \A y \in Out : m <= y
  BY <1>1, Least
<1>3. m \in 1..(n + 1) /\ m - 1 \in 0..n /\ 1 \in Int /\ m - 1 \in Int
  BY <1>2
<1>4. \A i \in 1..n : i \in S <=> i <= m - 1
  <2>1. ASSUME NEW i \in 1..n, i \in S PROVE i <= m - 1
    <3>1. ~ (m <= i)
      BY <1>2, <1>3, <2>1
    <3> QED
      BY <1>3, <3>1
  <2>2. ASSUME NEW i \in 1..n, i <= m - 1 PROVE i \in S
    <3>1. i \notin Out
      BY <1>2, <1>3, <2>2
    <3> QED
      BY <3>1
  <2> QED
    BY <2>1, <2>2
<1>5. S = 1..(m - 1)
  <2>1. \A i \in S : i \in 1..(m - 1)
    BY <1>3, <1>4
  <2>2. \A i \in 1..(m - 1) : i \in S
    BY <1>3, <1>4
  <2> QED
    BY <2>1, <2>2
<1>6. Cardinality(S) = m - 1
  <2>1. Cardinality(1..(m - 1)) = IF 1 > m - 1 THEN 0 ELSE (m - 1) - 1 + 1
    BY <1>3, FS_Interval
  <2> QED
    BY <1>3, <1>5, <2>1
<1> QED
  BY <1>3, <1>4, <1>6

(***************************************************************************)
(* The sessions of a calendar: whole minutes, not empty.                   *)
(***************************************************************************)
LEMMA SessionsOf ==
  ASSUME NEW s, Loaded(s)
  PROVE  /\ Len(s) \in Nat \ {0} /\ DOMAIN s = 1..Len(s) /\ 1 \in DOMAIN s /\ Len(s) \in DOMAIN s
         /\ \A i \in DOMAIN s : /\ s[i].open \in Nat /\ s[i].close \in Nat /\ s[i].open < s[i].close
                                /\ s[i].open % Minute = 0 /\ s[i].close % Minute = 0
         /\ \A i \in 1..(Len(s) - 1) : s[i].close <= s[i + 1].open
<1>1. s \in Seq([open : Nat, close : Nat]) /\ s # <<>> /\ Len(s) \in Nat /\ DOMAIN s = 1..Len(s)
  BY DEF Loaded, Of!IsCalendar
<1>2. Len(s) # 0
  BY <1>1
<1>3. \A i \in DOMAIN s : s[i] \in [open : Nat, close : Nat]
  <2> DEFINE R == [open : Nat, close : Nat]
  <2>1. s \in Seq(R)
    BY <1>1
  <2> HIDE DEF R
  <2>2. \A i \in DOMAIN s : s[i] \in R
    BY <2>1
  <2> QED
    BY <2>2 DEF R
<1>4. \A i \in DOMAIN s : s[i].open \in Nat /\ s[i].close \in Nat
  BY <1>3
<1>5. /\ \A i \in DOMAIN s : /\ s[i].open < s[i].close
                             /\ s[i].open % Minute = 0 /\ s[i].close % Minute = 0
      /\ \A i \in 1..(Len(s) - 1) : s[i].close <= s[i + 1].open
  BY DEF Loaded, Of!IsCalendar, Of!IsWholeMinute
<1> QED
  BY <1>1, <1>2, <1>4, <1>5

(***************************************************************************)
(* An earlier session closes before a later one opens.                     *)
(***************************************************************************)
LEMMA InOrder ==
  ASSUME NEW s, Loaded(s), NEW i \in DOMAIN s, NEW j \in DOMAIN s
  PROVE  /\ i < j => s[i].close <= s[j].open
         /\ i <= j => s[i].open <= s[j].open /\ s[i].close <= s[j].close
<1> DEFINE Early == {k \in DOMAIN s : i < k /\ s[k].open < s[i].close}
<1>1. /\ Len(s) \in Nat /\ DOMAIN s = 1..Len(s)
      /\ \A k \in DOMAIN s : s[k].open \in Nat /\ s[k].close \in Nat /\ s[k].open < s[k].close
      /\ \A k \in 1..(Len(s) - 1) : s[k].close <= s[k + 1].open
  BY SessionsOf
<1>2. Early = {}
  <2> SUFFICES ASSUME Early # {} PROVE FALSE
    OBVIOUS
  <2>1. Early \in SUBSET Nat
    BY <1>1
  <2>2. PICK k \in Early : \A l \in Early : k <= l
    BY <2>1, Least
  <2>3. k \in DOMAIN s /\ i < k /\ s[k].open < s[i].close /\ k - 1 \in 1..(Len(s) - 1) /\ k - 1 \in DOMAIN s
        /\ (k - 1) + 1 = k
    BY <1>1, <2>2
  <2>4. s[k - 1].close <= s[k].open
    BY <1>1, <2>3
  <2>5. k - 1 \notin Early
    BY <1>1, <2>2, <2>3
  <2>6. k - 1 = i \/ s[i].close <= s[k - 1].open
    BY <1>1, <2>3, <2>5
  <2> QED
    BY <1>1, <2>3, <2>4, <2>6
<1>3. i < j => s[i].close <= s[j].open
  BY <1>1, <1>2
<1>4. i < j \/ i = j \/ j < i
  BY <1>1
<1> QED
  BY <1>1, <1>3, <1>4

(***************************************************************************)
(* What the bisections of SessionCalendar find.                            *)
(***************************************************************************)
LEMMA Bisections ==
  ASSUME NEW s, Loaded(s), NEW t \in Int
  PROVE  /\ Of(s)!ClosedBy(t) \in 0..Len(s)
         /\ \A i \in DOMAIN s : s[i].close <= t <=> i <= Of(s)!ClosedBy(t)
         /\ Of(s)!OpenedBefore(t) \in 0..Len(s)
         /\ \A i \in DOMAIN s : s[i].open < t <=> i <= Of(s)!OpenedBefore(t)
         /\ Cardinality({i \in DOMAIN s : s[i].open <= t}) \in 0..Len(s)
         /\ \A i \in DOMAIN s : s[i].open <= t <=> i <= Cardinality({k \in DOMAIN s : s[k].open <= t})
<1> DEFINE Closed == {i \in DOMAIN s : s[i].close <= t}
           Opened == {i \in DOMAIN s : s[i].open < t}
           Open == {i \in DOMAIN s : s[i].open <= t}
<1>1. /\ Len(s) \in Nat /\ DOMAIN s = 1..Len(s)
      /\ \A k \in DOMAIN s : s[k].open \in Nat /\ s[k].close \in Nat
  BY SessionsOf
<1>2. \A i \in DOMAIN s, j \in DOMAIN s : i <= j => s[i].open <= s[j].open /\ s[i].close <= s[j].close
  BY InOrder
<1>3. /\ \A i \in Closed : \A j \in 1..Len(s) : j <= i => j \in Closed
      /\ \A i \in Opened : \A j \in 1..Len(s) : j <= i => j \in Opened
      /\ \A i \in Open : \A j \in 1..Len(s) : j <= i => j \in Open
  BY <1>1, <1>2
<1>4. Closed \in SUBSET (1..Len(s)) /\ Opened \in SUBSET (1..Len(s)) /\ Open \in SUBSET (1..Len(s))
  BY <1>1
<1>5. /\ \A i \in DOMAIN s : i \in Closed <=> s[i].close <= t
      /\ \A i \in DOMAIN s : i \in Opened <=> s[i].open < t
      /\ \A i \in DOMAIN s : i \in Open <=> s[i].open <= t
  OBVIOUS
<1>6. /\ Of(s)!ClosedBy(t) = Cardinality(Closed) /\ Of(s)!OpenedBefore(t) = Cardinality(Opened)
      /\ Cardinality({k \in DOMAIN s : s[k].open <= t}) = Cardinality(Open)
  <2>1. Of(s)!ClosedBy(t) = Cardinality(Closed)
    BY DEF Of!ClosedBy, Of!Cardinality, Cardinality
  <2>2. Of(s)!OpenedBefore(t) = Cardinality(Opened)
    BY DEF Of!OpenedBefore, Of!Cardinality, Cardinality
  <2> QED
    BY <2>1, <2>2
<1> HIDE DEF Closed, Opened, Open
<1>7. Cardinality(Closed) \in 0..Len(s) /\ \A i \in 1..Len(s) : i \in Closed <=> i <= Cardinality(Closed)
  BY <1>1, <1>3, <1>4, Prefix
<1>8. Cardinality(Opened) \in 0..Len(s) /\ \A i \in 1..Len(s) : i \in Opened <=> i <= Cardinality(Opened)
  BY <1>1, <1>3, <1>4, Prefix
<1>9. Cardinality(Open) \in 0..Len(s) /\ \A i \in 1..Len(s) : i \in Open <=> i <= Cardinality(Open)
  BY <1>1, <1>3, <1>4, Prefix
<1> QED
  BY <1>1, <1>5, <1>6, <1>7, <1>8, <1>9

(***************************************************************************)
(* session_containing finds the session of an instant.                     *)
(***************************************************************************)
LEMMA Containing ==
  ASSUME NEW s, Loaded(s), NEW t \in Int
  PROVE  LET c == Of(s)!SessionContaining(t) IN
         /\ c \in DOMAIN s => s[c].open <= t /\ t < s[c].close
         /\ (\E i \in DOMAIN s : s[i].open <= t /\ t < s[i].close) => c \in DOMAIN s
<1> DEFINE k == Of(s)!ClosedBy(t) + 1
           c == Of(s)!SessionContaining(t)
<1>1. /\ Len(s) \in Nat \ {0} /\ DOMAIN s = 1..Len(s) /\ 1 \in DOMAIN s
      /\ \A i \in DOMAIN s : s[i].open \in Nat /\ s[i].close \in Nat
  BY SessionsOf
<1>2. k \in 1..(Len(s) + 1) /\ \A i \in DOMAIN s : s[i].close <= t <=> i < k
  <2>1. Of(s)!ClosedBy(t) \in 0..Len(s) /\ \A i \in DOMAIN s : s[i].close <= t <=> i <= Of(s)!ClosedBy(t)
    BY Bisections, ZenonT(30)
  <2> QED
    BY <1>1, <2>1
<1>3. c = IF t < s[1].open THEN -1 ELSE IF k > Len(s) THEN -1 ELSE IF s[k].open <= t THEN k ELSE 0
  BY DEF Of!SessionContaining, Of!BeforeCalendar, Of!RangeError, Of!NoSession
<1> HIDE DEF k, c
<1>4. ASSUME c \in DOMAIN s PROVE s[c].open <= t /\ t < s[c].close
  <2>1. c = k /\ s[k].open <= t
    BY <1>1, <1>3, <1>4
  <2> QED
    BY <1>1, <1>2, <1>4, <2>1
<1>5. ASSUME NEW i \in DOMAIN s, s[i].open <= t, t < s[i].close PROVE c \in DOMAIN s
  <2>1. k <= i
    BY <1>1, <1>2, <1>5
  <2>2. k \in DOMAIN s
    BY <1>1, <1>2, <2>1
  <2>3. s[1].open <= s[i].open /\ s[k].open <= s[i].open
    BY <1>1, <2>1, <2>2, InOrder
  <2>4. s[1].open <= t /\ s[k].open <= t
    BY <1>1, <1>5, <2>2, <2>3
  <2> QED
    BY <1>1, <1>2, <1>3, <2>2, <2>4
<1> QED
  BY <1>4, <1>5 DEF c

(***************************************************************************)
(* is_expected_minute: the whole minutes of the sessions.                  *)
(***************************************************************************)
LEMMA ExpectedIs ==
  ASSUME NEW s, Loaded(s), NEW t \in Int
  PROVE  Of(s)!IsExpectedMinute(t) <=> MinuteIn(s, t)
<1>1. Of(s)!IsExpectedMinute(t) <=> t % Minute = 0 /\ Of(s)!SessionContaining(t) \in DOMAIN s
  BY DEF Of!IsExpectedMinute, Of!IsWholeMinute
<1>2. MinuteIn(s, t) <=> t % Minute = 0 /\ \E i \in DOMAIN s : s[i].open <= t /\ t < s[i].close
  BY DEF MinuteIn
<1> QED
  BY <1>1, <1>2, Containing

\* f is the least minute of the sessions from the instant t on.
LeastFrom(s, t, f) ==
  /\ f \in Nat /\ t <= f /\ MinuteIn(s, f)
  /\ \A u \in Int : t <= u /\ u < f => ~MinuteIn(s, u)

(***************************************************************************)
(* first_expected_minute_at_or_after is the least one, and there is one    *)
(* when a later minute is expected.                                        *)
(***************************************************************************)
LEMMA FirstMinute ==
  ASSUME NEW s, Loaded(s), NEW t \in Int
  PROVE  LET f == Of(s)!FirstExpectedMinuteAtOrAfter(t) IN
         /\ f # -1 => LeastFrom(s, t, f)
         /\ \A u \in Int : MinuteIn(s, u) /\ t <= u /\ s[1].open <= t => f # -1
<1> DEFINE m == IF t % Minute = 0 THEN t ELSE (t - (t % Minute)) + Minute
           k == Of(s)!ClosedBy(m) + 1
           f == Of(s)!FirstExpectedMinuteAtOrAfter(t)
<1>1. /\ Len(s) \in Nat \ {0} /\ DOMAIN s = 1..Len(s) /\ 1 \in DOMAIN s
      /\ \A i \in DOMAIN s : /\ s[i].open \in Nat /\ s[i].close \in Nat /\ s[i].open < s[i].close
                             /\ s[i].open % Minute = 0
  BY SessionsOf
<1>2. m \in Int /\ t <= m /\ m % Minute = 0 /\ \A u \in Int : u % Minute = 0 /\ t <= u => m <= u
  <2>1. Minute \in Nat \ {0}
    BY MinuteAssumption
  <2>2. CASE t % Minute = 0
    BY <2>2
  <2>3. CASE t % Minute # 0
    <3> DEFINE r == (t - (t % Minute)) + Minute
    <3>1. r \in Int /\ t < r /\ r % Minute = 0 /\ \A u \in Int : u % Minute = 0 /\ t <= u => r <= u
      BY <2>1, <2>3, RoundedUp
    <3>2. m = r
      BY <2>3
    <3> HIDE DEF m, r
    <3> QED
      BY <3>1, <3>2
  <2> QED
    BY <2>2, <2>3
<1>3. f = IF t < s[1].open \/ k > Len(s) THEN -1 ELSE IF s[k].open > m THEN s[k].open ELSE m
  BY DEF Of!FirstExpectedMinuteAtOrAfter, Of!BeforeCalendar, Of!RangeError, Of!IsWholeMinute, Of!Floor
<1> HIDE DEF m, f
<1>4. k \in 1..(Len(s) + 1) /\ \A i \in DOMAIN s : s[i].close <= m <=> i < k
  <2>1. Of(s)!ClosedBy(m) \in 0..Len(s) /\ \A i \in DOMAIN s : s[i].close <= m <=> i <= Of(s)!ClosedBy(m)
    BY <1>2, Bisections, ZenonT(30)
  <2> QED
    BY <1>1, <2>1
<1> HIDE DEF k
<1>5. ASSUME NEW u \in Int, MinuteIn(s, u), t <= u
      PROVE  k \in DOMAIN s /\ s[k].open <= u /\ m <= u
  <2>1. PICK i \in DOMAIN s : s[i].open <= u /\ u < s[i].close
    BY <1>5 DEF MinuteIn
  <2>2. m <= u
    BY <1>2, <1>5 DEF MinuteIn
  <2>3. k <= i
    BY <1>1, <1>2, <1>4, <2>1, <2>2
  <2>4. k \in DOMAIN s
    BY <1>1, <1>4, <2>3
  <2>5. s[k].open <= s[i].open
    BY <2>3, <2>4, InOrder
  <2> QED
    BY <1>1, <2>1, <2>2, <2>4, <2>5
<1>6. ASSUME f # -1 PROVE LeastFrom(s, t, f)
  <2>1. k \in DOMAIN s /\ s[1].open <= t /\ f = (IF s[k].open > m THEN s[k].open ELSE m)
    BY <1>1, <1>3, <1>4, <1>6
  <2>2. m < s[k].close
    BY <1>1, <1>2, <1>4, <2>1
  <2>3. f \in Nat /\ t <= f /\ f % Minute = 0 /\ s[k].open <= f /\ f < s[k].close
    BY <1>1, <1>2, <2>1, <2>2
  <2>4. ASSUME NEW u \in Int, t <= u, u < f PROVE ~MinuteIn(s, u)
    <3> SUFFICES ASSUME MinuteIn(s, u) PROVE FALSE
      OBVIOUS
    <3>1. s[k].open <= u /\ m <= u
      BY <1>5, <2>4
    <3> QED
      BY <1>1, <1>2, <2>1, <2>4, <3>1
  <2> QED
    BY <2>1, <2>3, <2>4 DEF LeastFrom, MinuteIn
<1>7. ASSUME NEW u \in Int, MinuteIn(s, u), t <= u, s[1].open <= t PROVE f # -1
  <2>1. k \in DOMAIN s
    BY <1>5, <1>7
  <2>2. ~ (k > Len(s)) /\ s[k].open \in Nat
    BY <1>1, <1>4, <2>1
  <2>3. ~ (t < s[1].open)
    BY <1>1, <1>7
  <2>4. f = IF s[k].open > m THEN s[k].open ELSE m
    BY <1>3, <2>2, <2>3
  <2>5. 0 <= m
    BY <1>1, <1>2, <1>7
  <2> QED
    BY <1>2, <2>2, <2>4, <2>5
<1> QED
  BY <1>6, <1>7 DEF f

(***************************************************************************)
(* next_expected_minute, of an expected minute, is the least later one,    *)
(* and there is one when a later minute is expected.                       *)
(***************************************************************************)
LEMMA NextMinute ==
  ASSUME NEW s, Loaded(s), NEW t \in Int, MinuteIn(s, t)
  PROVE  LET f == Of(s)!NextExpectedMinute(t) IN
         /\ f # -1 => LeastFrom(s, t + 1, f)
         /\ \A u \in Int : MinuteIn(s, u) /\ t < u => f # -1
<1> DEFINE n == t + Minute
           f == Of(s)!NextExpectedMinute(t)
<1>1. Minute \in Nat \ {0} /\ t % Minute = 0
  BY MinuteAssumption DEF MinuteIn
<1>2. n \in Int /\ t + 1 <= n /\ \A u \in Int : MinuteIn(s, u) /\ t < u => n <= u
  <2>1. \A u \in Int : u % Minute = 0 /\ t < u => t + Minute <= u
    BY <1>1, Multiples
  <2> QED
    BY <1>1, <2>1 DEF MinuteIn
<1>3. f = Of(s)!FirstExpectedMinuteAtOrAfter(n)
  <2>1. Of(s)!Floor(t) = t
    BY <1>1 DEF Of!Floor
  <2> QED
    BY <2>1 DEF Of!NextExpectedMinute
<1>4. s[1].open <= t /\ s[1].open \in Nat
  <2>1. PICK i \in DOMAIN s : s[i].open <= t
    BY DEF MinuteIn
  <2>2. 1 \in DOMAIN s /\ 1 <= i /\ s[1].open \in Nat /\ s[i].open \in Nat
    BY SessionsOf
  <2>3. s[1].open <= s[i].open
    BY <2>2, InOrder
  <2> QED
    BY <2>1, <2>2, <2>3
<1> HIDE DEF n, f
<1>5. /\ f # -1 => LeastFrom(s, n, f)
      /\ \A u \in Int : MinuteIn(s, u) /\ n <= u /\ s[1].open <= n => f # -1
  BY <1>2, <1>3, FirstMinute
<1>6. f # -1 => LeastFrom(s, t + 1, f)
  <2> SUFFICES ASSUME f # -1 PROVE LeastFrom(s, t + 1, f)
    OBVIOUS
  <2>1. f \in Nat /\ n <= f /\ MinuteIn(s, f) /\ \A u \in Int : n <= u /\ u < f => ~MinuteIn(s, u)
    BY <1>5 DEF LeastFrom
  <2>2. t + 1 <= f
    BY <1>2, <2>1
  <2>3. \A u \in Int : t + 1 <= u /\ u < f => ~MinuteIn(s, u)
    BY <1>2, <2>1
  <2> QED
    BY <2>1, <2>2, <2>3 DEF LeastFrom
<1>7. \A u \in Int : MinuteIn(s, u) /\ t < u => f # -1
  BY <1>2, <1>4, <1>5
<1> QED
  BY <1>6, <1>7 DEF f

(***************************************************************************)
(* last_expected_minute_before, of a close: the minute that ends there.    *)
(***************************************************************************)
LEMMA LastOfSession ==
  ASSUME NEW s, Loaded(s), NEW k \in DOMAIN s
  PROVE  LET l == Of(s)!LastExpectedMinuteBefore(s[k].close) IN
         /\ l = s[k].close - Minute /\ MinuteIn(s, l) /\ l \in Nat /\ l < s[k].close
         /\ \A u \in Int : MinuteIn(s, u) /\ u < s[k].close => u <= l
<1> DEFINE t == s[k].close
           n == Of(s)!OpenedBefore(t)
           l == Of(s)!LastExpectedMinuteBefore(t)
<1>1. /\ Len(s) \in Nat \ {0} /\ DOMAIN s = 1..Len(s) /\ Minute \in Nat \ {0}
      /\ \A i \in DOMAIN s : /\ s[i].open \in Nat /\ s[i].close \in Nat /\ s[i].open < s[i].close
                             /\ s[i].open % Minute = 0 /\ s[i].close % Minute = 0
  BY SessionsOf, MinuteAssumption
<1>2. t \in Int /\ n \in 0..Len(s) /\ \A i \in DOMAIN s : s[i].open < t <=> i <= n
  <2>1. t \in Int
    BY <1>1
  <2> QED
    BY <2>1, Bisections, ZenonT(30)
<1>3. l = LET c == IF t < s[n].close THEN t ELSE s[n].close IN
          IF n = 0 THEN -1 ELSE IF c % Minute = 0 THEN c - Minute ELSE Of(s)!Floor(c)
  BY DEF Of!LastExpectedMinuteBefore, Of!RangeError, Of!IsWholeMinute
<1> HIDE DEF n, l
<1>4. n = k
  <2>1. k <= n
    BY <1>1, <1>2
  <2>2. n \in DOMAIN s /\ s[n].open < t
    BY <1>1, <1>2, <2>1
  <2>3. ~ (k < n)
    <3>1. k < n => s[k].close <= s[n].open
      BY <2>2, InOrder
    <3> QED
      BY <1>1, <2>2, <3>1
  <2> QED
    BY <1>1, <1>2, <2>1, <2>3
<1>5. l = t - Minute
  <2>1. n # 0 /\ s[n].close = t /\ t % Minute = 0
    BY <1>1, <1>4
  <2> QED
    BY <1>2, <1>3, <2>1
<1>6. (t - Minute) % Minute = 0 /\ s[k].open + Minute <= t
  <2> DEFINE o == s[k].open
  <2>1. o \in Int /\ o % Minute = 0 /\ o < t /\ t % Minute = 0
    BY <1>1
  <2> HIDE DEF o, t
  <2>2. (t - Minute) % Minute = 0
    BY <1>1, <1>2, <2>1, Multiples
  <2>3. o + Minute <= t
    BY <1>1, <1>2, <2>1, Multiples
  <2> QED
    BY <2>2, <2>3 DEF o
<1>7. MinuteIn(s, l) /\ l \in Nat /\ l < t
  <2>1. s[k].open \in Nat /\ t \in Nat
    BY <1>1
  <2> DEFINE o == s[k].open
  <2>2. o \in Nat /\ t \in Nat /\ o + Minute <= t /\ l = t - Minute /\ Minute \in Nat \ {0}
    BY <1>1, <1>5, <1>6, <2>1
  <2> HIDE DEF o, t
  <2>5. l \in Nat /\ l < t /\ o <= l
    BY <2>2
  <2>6. l \in Nat /\ l < t /\ s[k].open <= l
    BY <2>5 DEF o
  <2>3. l % Minute = 0
    BY <1>5, <1>6
  <2> QED
    BY <2>3, <2>6 DEF MinuteIn, t
<1>8. ASSUME NEW u \in Int, MinuteIn(s, u), u < t PROVE u <= l
  <2>1. u % Minute = 0 /\ t % Minute = 0
    BY <1>1, <1>8 DEF MinuteIn
  <2>2. u + Minute <= t
    BY <1>1, <1>2, <1>8, <2>1, Multiples
  <2> QED
    BY <1>1, <1>2, <1>5, <2>2
<1> QED
  BY <1>5, <1>7, <1>8 DEF l

(***************************************************************************)
(* calendar_window_hash covers the sessions of an order's window and the   *)
(* next one: up to its opening, the window alone says what is expected.    *)
(***************************************************************************)
LEMMA WindowTells ==
  ASSUME NEW s, Loaded(s), NEW x \in Nat, NEW y \in Nat,
         MinuteIn(s, x), x < y, NEW W, W = Of(s)!CalendarWindow(x, y), W # <<>>
  PROVE  /\ Len(W) \in Nat \ {0} /\ W[Len(W)].open \in Nat /\ y < W[Len(W)].open
         /\ MinuteIn(s, W[Len(W)].open)
         /\ \A t \in Int : x <= t /\ t <= W[Len(W)].open =>
              (MinuteIn(s, t) <=>
                 t % Minute = 0 /\ \E m \in 1..Len(W) : W[m].open <= t /\ t < W[m].close)
<1> DEFINE i == Of(s)!SessionContaining(x)
           l == Cardinality({k \in DOMAIN s : s[k].open <= y}) + 1
<1>1. /\ Len(s) \in Nat \ {0} /\ DOMAIN s = 1..Len(s) /\ Minute \in Nat \ {0}
      /\ \A k \in DOMAIN s : /\ s[k].open \in Nat /\ s[k].close \in Nat /\ s[k].open < s[k].close
                             /\ s[k].open % Minute = 0
  BY SessionsOf, MinuteAssumption
<1>2. i \in DOMAIN s /\ s[i].open <= x /\ x < s[i].close
  <2>1. \E k \in DOMAIN s : s[k].open <= x /\ x < s[k].close
    BY DEF MinuteIn
  <2> QED
    BY <2>1, Containing
<1>3. l \in 1..(Len(s) + 1) /\ \A k \in DOMAIN s : s[k].open <= y <=> k < l
  <2> DEFINE c == Cardinality({k \in DOMAIN s : s[k].open <= y})
  <2>1. c \in 0..Len(s) /\ \A k \in DOMAIN s : s[k].open <= y <=> k <= c
    <3>1. y \in Int
      OBVIOUS
    <3> QED
      BY <3>1, Bisections, ZenonT(30)
  <2> HIDE DEF c
  <2>2. l = c + 1
    BY DEF c
  <2> HIDE DEF l
  <2>3. l \in 1..(Len(s) + 1)
    BY <1>1, <2>1, <2>2
  <2>4. \A k \in DOMAIN s : k <= c <=> k < l
    BY <1>1, <2>1, <2>2
  <2> QED
    BY <2>1, <2>3, <2>4
<1>4. W = IF l > Len(s) THEN <<>> ELSE SubSeq(s, i, l)
  <2>1. Of(s)!Cardinality({k \in DOMAIN s : s[k].open <= y}) = Cardinality({k \in DOMAIN s : s[k].open <= y})
    BY DEF Of!Cardinality, Cardinality
  <2> QED
    BY <2>1 DEF Of!CalendarWindow
<1> HIDE DEF i, l
<1>5. l \in DOMAIN s /\ W = SubSeq(s, i, l)
  <2>1. ~ (l > Len(s))
    BY <1>4
  <2>2. W = SubSeq(s, i, l)
    BY <1>4, <2>1
  <2>3. l \in DOMAIN s
    BY <1>1, <1>3, <2>1
  <2> QED
    BY <2>2, <2>3
<1>6. i < l /\ y < s[l].open
  <2>1. s[i].open <= y
    BY <1>1, <1>2
  <2> QED
    BY <1>1, <1>2, <1>3, <1>5, <2>1
<1>7. Len(W) = (l - i) + 1 /\ \A m \in 1..Len(W) : W[m] = s[i + m - 1]
  <2>1. i \in Int /\ l \in Int /\ i <= l
    BY <1>1, <1>2, <1>5, <1>6
  <2>2. \A k \in i..l : s[k] \in Range(s)
    BY <1>1, <1>2, <1>5 DEF Range
  <2>3. /\ Len(SubSeq(s, i, l)) = IF i <= l THEN l - i + 1 ELSE 0
        /\ \A m \in 1..(l - i + 1) : SubSeq(s, i, l)[m] = s[i + m - 1]
    BY <2>1, <2>2, SubSeqProperties
  <2> QED
    BY <1>5, <2>1, <2>3
<1>8. /\ Len(W) \in Nat \ {0} /\ W[Len(W)] = s[l]
  <2> DEFINE n == Len(W)
  <2>1. i \in Int /\ l \in Int /\ i < l /\ n = (l - i) + 1
    BY <1>1, <1>2, <1>5, <1>6, <1>7
  <2> HIDE DEF n
  <2>2. n \in 1..n /\ n \in Nat \ {0} /\ i + n - 1 = l
    BY <2>1
  <2>3. W[n] = s[i + n - 1]
    BY <1>7, <2>2 DEF n
  <2> QED
    BY <2>2, <2>3 DEF n
<1>9. s[l].open \in Nat /\ MinuteIn(s, s[l].open)
  <2>1. s[l].open \in Nat /\ s[l].open < s[l].close /\ s[l].open <= s[l].open /\ s[l].open % Minute = 0
    BY <1>1, <1>5
  <2> QED
    BY <1>5, <2>1 DEF MinuteIn
<1>10. ASSUME NEW t \in Int, x <= t, t <= s[l].open, NEW k \in DOMAIN s, s[k].open <= t, t < s[k].close
       PROVE  \E m \in 1..Len(W) : W[m].open <= t /\ t < W[m].close
  <2>1. i <= k
    <3>1. k < i => s[k].close <= s[i].open
      BY <1>2, InOrder
    <3> QED
      BY <1>1, <1>2, <1>10, <3>1
  <2>2. k <= l
    <3>1. l < k => s[l].close <= s[k].open
      BY <1>5, InOrder
    <3> QED
      BY <1>1, <1>5, <1>10, <3>1
  <2> DEFINE m == (k - i) + 1
  <2>3. m \in 1..Len(W) /\ i + m - 1 = k
    BY <1>1, <1>2, <1>5, <1>7, <2>1, <2>2
  <2>4. W[m] = s[k]
    BY <1>7, <2>3
  <2> HIDE DEF m
  <2> QED
    BY <1>10, <2>3, <2>4
<1>11. \A m \in 1..Len(W) : i + m - 1 \in DOMAIN s /\ W[m] = s[i + m - 1]
  <2> DEFINE n == Len(W)
             z == Len(s)
  <2>1. i \in 1..z /\ l \in 1..z /\ z \in Nat /\ n = (l - i) + 1
    BY <1>1, <1>2, <1>5, <1>7
  <2> HIDE DEF n, z
  <2>2. \A m \in 1..n : i + m - 1 \in 1..z
    BY <2>1
  <2> QED
    BY <1>1, <1>7, <2>2 DEF n, z
<1>12. \A t \in Int : x <= t /\ t <= s[l].open =>
         (MinuteIn(s, t) <=>
            t % Minute = 0 /\ \E m \in 1..Len(W) : W[m].open <= t /\ t < W[m].close)
  <2>1. ASSUME NEW t \in Int, x <= t, t <= s[l].open
        PROVE  MinuteIn(s, t) <=>
                 t % Minute = 0 /\ \E m \in 1..Len(W) : W[m].open <= t /\ t < W[m].close
    <3>1. MinuteIn(s, t) <=> t % Minute = 0 /\ \E k \in DOMAIN s : s[k].open <= t /\ t < s[k].close
      BY DEF MinuteIn
    <3>2. (\E m \in 1..Len(W) : W[m].open <= t /\ t < W[m].close) =>
             \E k \in DOMAIN s : s[k].open <= t /\ t < s[k].close
      BY <1>11
    <3> QED
      BY <1>10, <2>1, <3>1, <3>2
  <2> QED
    BY <2>1
<1> QED
  BY <1>6, <1>8, <1>9, <1>12

-----------------------------------------------------------------------------

\* The calendars agree from x up to a minute that both expect, after y.
AgreePast(s, r, x, y) ==
  \E e \in Nat : /\ y < e /\ MinuteIn(s, e) /\ MinuteIn(r, e)
                 /\ \A t \in Int : x <= t /\ t <= e => (MinuteIn(s, t) <=> MinuteIn(r, t))

(***************************************************************************)
(* Two calendars with one hash agree until after the order's last minute.  *)
(***************************************************************************)
LEMMA HashAgrees ==
  ASSUME NEW s, Loaded(s), NEW r, Loaded(r), NEW x \in Nat, NEW y \in Nat,
         MinuteIn(s, x), MinuteIn(r, x), x < y,
         Of(s)!CalendarWindow(x, y) # <<>>, Of(s)!CalendarWindow(x, y) = Of(r)!CalendarWindow(x, y)
  PROVE  AgreePast(s, r, x, y)
<1> DEFINE W == Of(s)!CalendarWindow(x, y)
           e == W[Len(W)].open
<1>1. W = Of(s)!CalendarWindow(x, y) /\ W = Of(r)!CalendarWindow(x, y) /\ W # <<>>
  OBVIOUS
<1> HIDE DEF W
<1>2. /\ e \in Nat /\ y < e /\ MinuteIn(s, e)
      /\ \A t \in Int : x <= t /\ t <= e =>
           (MinuteIn(s, t) <=> t % Minute = 0 /\ \E m \in 1..Len(W) : W[m].open <= t /\ t < W[m].close)
  BY <1>1, WindowTells
<1>3. /\ e \in Nat /\ y < e /\ MinuteIn(r, e)
      /\ \A t \in Int : x <= t /\ t <= e =>
           (MinuteIn(r, t) <=> t % Minute = 0 /\ \E m \in 1..Len(W) : W[m].open <= t /\ t < W[m].close)
  BY <1>1, WindowTells
<1> HIDE DEF e
<1>4. \A t \in Int : x <= t /\ t <= e => (MinuteIn(s, t) <=> MinuteIn(r, t))
  BY <1>2, <1>3
<1> QED
  BY <1>2, <1>3, <1>4 DEF AgreePast

(***************************************************************************)
(* The order's window in a, and where the walk is: between the start and   *)
(* the end, at an expected minute.  WindowIsExact and WindowFixesEveryAnswer*)
(* follow from it in any state.                                            *)
(***************************************************************************)
WindowInv ==
  /\ sessionsA \in Calendars /\ sessionsB \in Calendars
  /\ created \in Nat /\ start \in Nat /\ until \in Nat /\ minute \in Nat
  /\ LeastFrom(sessionsA, created, start)
  /\ \E k \in DOMAIN sessionsA : until = sessionsA[k].close
  /\ \E k \in DOMAIN sessionsB : until = sessionsB[k].close
  /\ AgreePast(sessionsA, sessionsB, start, until)
  /\ start <= minute /\ minute < until /\ MinuteIn(sessionsA, minute)

(***************************************************************************)
(* The calendars of the two loads are calendars.                           *)
(***************************************************************************)
LEMMA BothLoaded ==
  ASSUME NEW s \in Calendars
  PROVE  Loaded(s)
<1>1. s \in Seq([open : Nat, close : Nat]) /\ A!IsCalendar(s)
  BY CalendarsAssumption
<1>2. Of(s)!IsCalendar(s)
  BY <1>1 DEF A!IsCalendar, A!IsWholeMinute, Of!IsCalendar, Of!IsWholeMinute
<1> QED
  BY <1>1, <1>2 DEF Loaded

(***************************************************************************)
(* The queries of calendar a are those of the lemmas.                      *)
(***************************************************************************)
LEMMA QueriesOfA ==
  /\ \A t : A!SessionContaining(t) = Of(sessionsA)!SessionContaining(t)
  /\ \A t : A!IsExpectedMinute(t) = Of(sessionsA)!IsExpectedMinute(t)
  /\ \A t : A!FirstExpectedMinuteAtOrAfter(t) = Of(sessionsA)!FirstExpectedMinuteAtOrAfter(t)
  /\ \A t : A!NextExpectedMinute(t) = Of(sessionsA)!NextExpectedMinute(t)
  /\ \A t : A!LastExpectedMinuteBefore(t) = Of(sessionsA)!LastExpectedMinuteBefore(t)
  /\ \A x, y : A!CalendarWindow(x, y) = Of(sessionsA)!CalendarWindow(x, y)
<1>1. \A S : A!Cardinality(S) = Of(sessionsA)!Cardinality(S)
  BY DEF A!Cardinality, Of!Cardinality
<1>2. \A t : A!ClosedBy(t) = Of(sessionsA)!ClosedBy(t)
  BY <1>1 DEF A!ClosedBy, Of!ClosedBy
<1>3. \A t : A!OpenedBefore(t) = Of(sessionsA)!OpenedBefore(t)
  BY <1>1 DEF A!OpenedBefore, Of!OpenedBefore
<1>4. \A t : A!SessionContaining(t) = Of(sessionsA)!SessionContaining(t)
  BY <1>2 DEF A!SessionContaining, Of!SessionContaining, A!BeforeCalendar, Of!BeforeCalendar,
              A!RangeError, Of!RangeError, A!NoSession, Of!NoSession
<1>5. \A t : A!IsExpectedMinute(t) = Of(sessionsA)!IsExpectedMinute(t)
  BY <1>4 DEF A!IsExpectedMinute, Of!IsExpectedMinute, A!IsWholeMinute, Of!IsWholeMinute
<1>6. \A t : A!FirstExpectedMinuteAtOrAfter(t) = Of(sessionsA)!FirstExpectedMinuteAtOrAfter(t)
  BY <1>2 DEF A!FirstExpectedMinuteAtOrAfter, Of!FirstExpectedMinuteAtOrAfter,
              A!BeforeCalendar, Of!BeforeCalendar, A!RangeError, Of!RangeError,
              A!IsWholeMinute, Of!IsWholeMinute, A!Floor, Of!Floor
<1>7. \A t : A!NextExpectedMinute(t) = Of(sessionsA)!NextExpectedMinute(t)
  BY <1>6 DEF A!NextExpectedMinute, Of!NextExpectedMinute, A!Floor, Of!Floor
<1>8. \A t : A!LastExpectedMinuteBefore(t) = Of(sessionsA)!LastExpectedMinuteBefore(t)
  BY <1>3 DEF A!LastExpectedMinuteBefore, Of!LastExpectedMinuteBefore, A!RangeError,
              Of!RangeError, A!IsWholeMinute, Of!IsWholeMinute, A!Floor, Of!Floor
<1>9. \A x, y : A!CalendarWindow(x, y) = Of(sessionsA)!CalendarWindow(x, y)
  BY <1>1, <1>4 DEF A!CalendarWindow, Of!CalendarWindow
<1> QED
  BY <1>4, <1>5, <1>6, <1>7, <1>8, <1>9

(***************************************************************************)
(* The queries of calendar b are, too.                                     *)
(***************************************************************************)
LEMMA QueriesOfB ==
  /\ \A t : B!SessionContaining(t) = Of(sessionsB)!SessionContaining(t)
  /\ \A t : B!IsExpectedMinute(t) = Of(sessionsB)!IsExpectedMinute(t)
  /\ \A t : B!NextExpectedMinute(t) = Of(sessionsB)!NextExpectedMinute(t)
  /\ \A t : B!LastExpectedMinuteBefore(t) = Of(sessionsB)!LastExpectedMinuteBefore(t)
  /\ \A x, y : B!CalendarWindow(x, y) = Of(sessionsB)!CalendarWindow(x, y)
<1>1. \A S : B!Cardinality(S) = Of(sessionsB)!Cardinality(S)
  BY DEF B!Cardinality, Of!Cardinality
<1>2. \A t : B!ClosedBy(t) = Of(sessionsB)!ClosedBy(t)
  BY <1>1 DEF B!ClosedBy, Of!ClosedBy
<1>3. \A t : B!OpenedBefore(t) = Of(sessionsB)!OpenedBefore(t)
  BY <1>1 DEF B!OpenedBefore, Of!OpenedBefore
<1>4. \A t : B!SessionContaining(t) = Of(sessionsB)!SessionContaining(t)
  BY <1>2 DEF B!SessionContaining, Of!SessionContaining, B!BeforeCalendar, Of!BeforeCalendar,
              B!RangeError, Of!RangeError, B!NoSession, Of!NoSession
<1>5. \A t : B!IsExpectedMinute(t) = Of(sessionsB)!IsExpectedMinute(t)
  BY <1>4 DEF B!IsExpectedMinute, Of!IsExpectedMinute, B!IsWholeMinute, Of!IsWholeMinute
<1>6. \A t : B!FirstExpectedMinuteAtOrAfter(t) = Of(sessionsB)!FirstExpectedMinuteAtOrAfter(t)
  BY <1>2 DEF B!FirstExpectedMinuteAtOrAfter, Of!FirstExpectedMinuteAtOrAfter,
              B!BeforeCalendar, Of!BeforeCalendar, B!RangeError, Of!RangeError,
              B!IsWholeMinute, Of!IsWholeMinute, B!Floor, Of!Floor
<1>7. \A t : B!NextExpectedMinute(t) = Of(sessionsB)!NextExpectedMinute(t)
  BY <1>6 DEF B!NextExpectedMinute, Of!NextExpectedMinute, B!Floor, Of!Floor
<1>8. \A t : B!LastExpectedMinuteBefore(t) = Of(sessionsB)!LastExpectedMinuteBefore(t)
  BY <1>3 DEF B!LastExpectedMinuteBefore, Of!LastExpectedMinuteBefore, B!RangeError,
              Of!RangeError, B!IsWholeMinute, Of!IsWholeMinute, B!Floor, Of!Floor
<1>9. \A x, y : B!CalendarWindow(x, y) = Of(sessionsB)!CalendarWindow(x, y)
  BY <1>1, <1>4 DEF B!CalendarWindow, Of!CalendarWindow
<1> QED
  BY <1>4, <1>5, <1>7, <1>8, <1>9

(***************************************************************************)
(* An order that passes the checks of both loads has its window.           *)
(***************************************************************************)
LEMMA WindowInit ==
  ASSUME ReloadInit
  PROVE  WindowInv
<1>1. /\ Minute \in Nat \ {0} /\ Instants \subseteq Nat /\ MaxSessions \in Nat
  BY MinuteAssumption, InstantsAssumption
<1>2. sessionsA \in Calendars /\ sessionsB \in Calendars /\ created \in Nat /\ minute = start
  BY <1>1 DEF ReloadInit
<1>3. Loaded(sessionsA) /\ Loaded(sessionsB)
  BY <1>2, BothLoaded
<1>4. start = Of(sessionsA)!FirstExpectedMinuteAtOrAfter(created) /\ start # -1
  BY QueriesOfA DEF ReloadInit, A!EvaluationStart, A!RangeError
<1>5. LeastFrom(sessionsA, created, start)
  BY <1>1, <1>2, <1>3, <1>4, FirstMinute
<1>6. start \in Nat /\ created <= start /\ MinuteIn(sessionsA, start)
  BY <1>5 DEF LeastFrom
<1>7. /\ Len(sessionsA) \in Nat \ {0} /\ DOMAIN sessionsA = 1..Len(sessionsA)
      /\ \A k \in DOMAIN sessionsA : sessionsA[k].open \in Nat /\ sessionsA[k].close \in Nat /\ sessionsA[k].open < sessionsA[k].close
  BY <1>3, SessionsOf
<1>8. \E k \in DOMAIN sessionsA : until = sessionsA[k].close /\ start < until
  <2> DEFINE c == Of(sessionsA)!SessionContaining(start)
  <2>1. c \in DOMAIN sessionsA /\ sessionsA[c].open <= start /\ start < sessionsA[c].close
    <3>1. \E i \in DOMAIN sessionsA : sessionsA[i].open <= start /\ start < sessionsA[i].close
      BY <1>6 DEF MinuteIn
    <3> QED
      BY <1>3, <1>6, <3>1, Containing
  <2>2. PICK n \in 1..MaxSessions : until = A!SignalValidUntil(start, n)
    BY DEF ReloadInit
  <2>3. until # -1
    BY DEF ReloadInit, A!RangeError
  <2>4. until = IF c + n - 1 > Len(sessionsA) THEN -1 ELSE sessionsA[c + n - 1].close
    BY <2>2, QueriesOfA DEF A!SignalValidUntil, A!NthSessionClose, A!RangeError
  <2> DEFINE k == c + n - 1
  <2> HIDE DEF c
  <2>5. k \in Int /\ c <= k /\ c \in 1..Len(sessionsA)
    BY <1>1, <1>7, <2>1, <2>2
  <2>6. until = IF k > Len(sessionsA) THEN -1 ELSE sessionsA[k].close
    BY <2>4
  <2> HIDE DEF k
  <2>7. k \in DOMAIN sessionsA /\ until = sessionsA[k].close
    BY <1>7, <2>3, <2>5, <2>6
  <2>8. sessionsA[c].close <= sessionsA[k].close
    BY <1>3, <2>1, <2>5, <2>7, InOrder
  <2>9. start < until
    BY <1>6, <1>7, <2>1, <2>7, <2>8
  <2> QED
    BY <2>7, <2>9
<1>9. until \in Nat /\ start < until
  BY <1>7, <1>8
<1>10. \E k \in DOMAIN sessionsB : until = sessionsB[k].close
  BY DEF ReloadInit, B!IsSessionClose
<1>11. MinuteIn(sessionsB, start)
  <2>1. Of(sessionsB)!IsExpectedMinute(start)
    BY QueriesOfB DEF ReloadInit
  <2> QED
    BY <1>3, <1>6, <2>1, ExpectedIs
<1>12. AgreePast(sessionsA, sessionsB, start, until)
  <2>1. /\ Of(sessionsA)!CalendarWindow(start, until) # <<>>
        /\ Of(sessionsA)!CalendarWindow(start, until) = Of(sessionsB)!CalendarWindow(start, until)
    BY QueriesOfA, QueriesOfB DEF ReloadInit
  <2> QED
    BY <1>1, <1>3, <1>6, <1>9, <1>11, <2>1, HashAgrees
<1>13. start <= minute /\ minute < until /\ MinuteIn(sessionsA, minute) /\ minute \in Nat
  BY <1>2, <1>6, <1>9
<1>14. \E k \in DOMAIN sessionsA : until = sessionsA[k].close
  BY <1>8
<1> QED
  BY <1>2, <1>5, <1>6, <1>9, <1>10, <1>12, <1>13, <1>14 DEF WindowInv

(***************************************************************************)
(* The next minute of a walk inside its window, by both calendars.         *)
(***************************************************************************)
LEMMA WindowNext ==
  ASSUME WindowInv
  PROVE  /\ LeastFrom(sessionsA, minute + 1, A!NextExpectedMinute(minute))
         /\ B!NextExpectedMinute(minute) = A!NextExpectedMinute(minute)
<1> DEFINE f == Of(sessionsA)!NextExpectedMinute(minute)
           g == Of(sessionsB)!NextExpectedMinute(minute)
<1>1. Loaded(sessionsA) /\ Loaded(sessionsB)
  BY BothLoaded DEF WindowInv
<1>2. /\ start \in Nat /\ until \in Nat /\ minute \in Nat
      /\ start <= minute /\ minute < until /\ MinuteIn(sessionsA, minute)
  BY DEF WindowInv
<1>3. PICK e \in Nat : /\ until < e /\ MinuteIn(sessionsA, e) /\ MinuteIn(sessionsB, e)
                       /\ \A t \in Int : start <= t /\ t <= e => (MinuteIn(sessionsA, t) <=> MinuteIn(sessionsB, t))
  BY DEF WindowInv, AgreePast
<1>4. MinuteIn(sessionsB, minute)
  BY <1>2, <1>3
<1>5. minute \in Int /\ e \in Int /\ minute < e
  BY <1>2, <1>3
<1>6. LeastFrom(sessionsA, minute + 1, f)
  BY <1>1, <1>2, <1>3, <1>5, NextMinute
<1>7. LeastFrom(sessionsB, minute + 1, g)
  BY <1>1, <1>3, <1>4, <1>5, NextMinute
<1>8. f = A!NextExpectedMinute(minute) /\ g = B!NextExpectedMinute(minute)
  BY QueriesOfA, QueriesOfB
<1> HIDE DEF f, g
<1>9. /\ f \in Nat /\ minute + 1 <= f /\ MinuteIn(sessionsA, f)
      /\ \A u \in Int : minute + 1 <= u /\ u < f => ~MinuteIn(sessionsA, u)
  BY <1>6 DEF LeastFrom
<1>10. /\ g \in Nat /\ minute + 1 <= g /\ MinuteIn(sessionsB, g)
       /\ \A u \in Int : minute + 1 <= u /\ u < g => ~MinuteIn(sessionsB, u)
  BY <1>7 DEF LeastFrom
<1>11. f <= e /\ g <= e
  BY <1>2, <1>3, <1>9, <1>10
<1>12. MinuteIn(sessionsB, f) /\ MinuteIn(sessionsA, g)
  BY <1>2, <1>3, <1>9, <1>10, <1>11
<1>13. f = g
  BY <1>2, <1>9, <1>10, <1>12
<1> QED
  BY <1>6, <1>8, <1>13

(***************************************************************************)
(* Each step of the walk stays in the window.                              *)
(***************************************************************************)
LEMMA WindowStep ==
  ASSUME WindowInv, [ReloadNext]_reloadVars
  PROVE  WindowInv'
<1>1. CASE UNCHANGED reloadVars
  BY <1>1 DEF reloadVars, WindowInv, AgreePast, LeastFrom, MinuteIn
<1>2. CASE ReloadNext
  <2> DEFINE f == A!NextExpectedMinute(minute)
  <2>1. /\ f < until /\ minute' = f
        /\ sessionsA' = sessionsA /\ sessionsB' = sessionsB /\ created' = created /\ start' = start /\ until' = until
    BY <1>2 DEF ReloadNext, AdvanceMinute
  <2>2. f \in Nat /\ minute + 1 <= f /\ MinuteIn(sessionsA, f)
    BY WindowNext DEF LeastFrom
  <2>3. minute \in Nat /\ start \in Nat /\ start <= minute
    BY DEF WindowInv
  <2> HIDE DEF f
  <2>4. minute' \in Nat /\ start' <= minute' /\ minute' < until'
    BY <2>1, <2>2, <2>3
  <2>5. MinuteIn(sessionsA, minute)'
    BY <2>1, <2>2 DEF MinuteIn
  <2>6. LeastFrom(sessionsA, created, start)' /\ AgreePast(sessionsA, sessionsB, start, until)'
    BY <2>1 DEF WindowInv, AgreePast, LeastFrom, MinuteIn
  <2>7. /\ sessionsA' \in Calendars /\ sessionsB' \in Calendars
        /\ created' \in Nat /\ start' \in Nat /\ until' \in Nat
        /\ \E k \in DOMAIN sessionsA' : until' = sessionsA'[k].close
        /\ \E k \in DOMAIN sessionsB' : until' = sessionsB'[k].close
    BY <2>1 DEF WindowInv
  <2> QED
    BY <2>4, <2>5, <2>6, <2>7 DEF WindowInv
<1> QED
  BY <1>1, <1>2

(***************************************************************************)
(* In its window the walk is exact.                                        *)
(***************************************************************************)
LEMMA InvIsExact ==
  ASSUME WindowInv
  PROVE  WindowIsExact
<1> DEFINE f == A!NextExpectedMinute(minute)
           l == A!LastExpectedMinuteBefore(until)
<1>1. Loaded(sessionsA)
  BY BothLoaded DEF WindowInv
<1>2. /\ created \in Nat /\ start \in Nat /\ until \in Nat /\ minute \in Nat
      /\ minute < until /\ MinuteIn(sessionsA, minute)
  BY DEF WindowInv
<1>3. /\ created <= start /\ MinuteIn(sessionsA, start)
      /\ \A u \in Int : created <= u /\ u < start => ~MinuteIn(sessionsA, u)
  BY DEF WindowInv, LeastFrom
<1>4. /\ f \in Nat /\ minute + 1 <= f /\ MinuteIn(sessionsA, f)
      /\ \A u \in Int : minute + 1 <= u /\ u < f => ~MinuteIn(sessionsA, u)
  BY WindowNext DEF LeastFrom
<1>5. /\ MinuteIn(sessionsA, l) /\ l \in Nat /\ l < until
      /\ \A u \in Int : MinuteIn(sessionsA, u) /\ u < until => u <= l
  <2>1. PICK k \in DOMAIN sessionsA : until = sessionsA[k].close
    BY DEF WindowInv
  <2>2. l = Of(sessionsA)!LastExpectedMinuteBefore(sessionsA[k].close)
    BY <2>1, QueriesOfA
  <2> HIDE DEF l
  <2> QED
    BY <1>1, <2>1, <2>2, LastOfSession
<1> HIDE DEF f, l
<1>6. minute <= l
  BY <1>2, <1>5
<1>7. f >= until => minute = l
  <2> SUFFICES ASSUME f >= until, minute < l PROVE FALSE
    BY <1>2, <1>5, <1>6
  <2>1. minute + 1 <= l /\ l < f
    BY <1>2, <1>4, <1>5
  <2> QED
    BY <1>4, <1>5, <2>1
<1>8. \A t \in (minute + 1)..(f - 1) : ~MinuteIn(sessionsA, t)
  BY <1>2, <1>4
<1>9. \A t \in created..(start - 1) : ~MinuteIn(sessionsA, t)
  BY <1>2, <1>3
<1> QED
  BY <1>3, <1>6, <1>7, <1>8, <1>9 DEF WindowIsExact, MinuteIn, f, l

(***************************************************************************)
(* In its window both calendars answer alike.                              *)
(***************************************************************************)
LEMMA InvFixesEveryAnswer ==
  ASSUME WindowInv
  PROVE  WindowFixesEveryAnswer
<1>1. Loaded(sessionsA) /\ Loaded(sessionsB)
  BY BothLoaded DEF WindowInv
<1>2. minute \in Nat /\ minute \in Int /\ MinuteIn(sessionsA, minute)
  BY DEF WindowInv
<1>3. MinuteIn(sessionsB, minute)
  <2>1. PICK e \in Nat : /\ until < e
                         /\ \A t \in Int : start <= t /\ t <= e => (MinuteIn(sessionsA, t) <=> MinuteIn(sessionsB, t))
    BY DEF WindowInv, AgreePast
  <2>2. start <= minute /\ minute <= e
    BY <2>1 DEF WindowInv
  <2> QED
    BY <1>2, <2>1, <2>2
<1>4. B!IsExpectedMinute(minute) = A!IsExpectedMinute(minute)
  <2>1. Of(sessionsA)!IsExpectedMinute(minute) /\ Of(sessionsB)!IsExpectedMinute(minute)
    BY <1>1, <1>2, <1>3, ExpectedIs
  <2>2. A!IsExpectedMinute(minute) /\ B!IsExpectedMinute(minute)
    BY <2>1, QueriesOfA, QueriesOfB
  <2>3. /\ A!IsExpectedMinute(minute) \in BOOLEAN
        /\ B!IsExpectedMinute(minute) \in BOOLEAN
    BY DEF A!IsExpectedMinute, B!IsExpectedMinute
  <2> QED
    BY <2>2, <2>3
<1>5. B!CoversMinute(minute)
  <2>1. PICK i \in DOMAIN sessionsB : sessionsB[i].open <= minute /\ minute < sessionsB[i].close
    BY <1>3 DEF MinuteIn
  <2>2. /\ 1 \in DOMAIN sessionsB /\ Len(sessionsB) \in DOMAIN sessionsB /\ 1 <= i /\ i <= Len(sessionsB)
        /\ \A k \in DOMAIN sessionsB : sessionsB[k].open \in Nat /\ sessionsB[k].close \in Nat
    BY <1>1, SessionsOf
  <2>3. sessionsB[1].open <= sessionsB[i].open /\ sessionsB[i].close <= sessionsB[Len(sessionsB)].close
    BY <1>1, <2>2, InOrder
  <2>4. minute <= sessionsB[Len(sessionsB)].close /\ ~ (minute < sessionsB[1].open)
    BY <1>2, <2>1, <2>2, <2>3
  <2> QED
    BY <2>4 DEF B!CoversMinute, B!LastClose, B!BeforeCalendar
<1>6. B!LastExpectedMinuteBefore(until) = A!LastExpectedMinuteBefore(until)
  <2>1. PICK k \in DOMAIN sessionsA : until = sessionsA[k].close
    BY DEF WindowInv
  <2>2. PICK j \in DOMAIN sessionsB : until = sessionsB[j].close
    BY DEF WindowInv
  <2>3. Of(sessionsA)!LastExpectedMinuteBefore(sessionsA[k].close) = sessionsA[k].close - Minute
    BY <1>1, LastOfSession
  <2>4. Of(sessionsB)!LastExpectedMinuteBefore(sessionsB[j].close) = sessionsB[j].close - Minute
    BY <1>1, LastOfSession
  <2> QED
    BY <2>1, <2>2, <2>3, <2>4, QueriesOfA, QueriesOfB
<1> QED
  BY <1>4, <1>5, <1>6, WindowNext DEF WindowFixesEveryAnswer

(***************************************************************************)
(* The walk stays in the order's window: what both theorems rest on.       *)
(***************************************************************************)
LEMMA WindowHolds == ReloadSpec => []WindowInv
<1>1. ReloadInit => WindowInv
  BY WindowInit
<1>2. WindowInv /\ [ReloadNext]_reloadVars => WindowInv'
  BY WindowStep
<1> QED
  BY <1>1, <1>2, PTL DEF ReloadSpec

(***************************************************************************)
(* The window of an order is exact, for every calendar: no whole candle    *)
(* between the decision and the first one is given away, the walk skips no *)
(* expected minute, and it ends with the order's last bar.                 *)
(***************************************************************************)
THEOREM WindowExact == ReloadSpec => []WindowIsExact
<1>1. WindowInv => WindowIsExact
  BY InvIsExact
<1> QED
  BY <1>1, WindowHolds, PTL

(***************************************************************************)
(* calendar_window_hash identifies all that the evaluation asks of the     *)
(* calendar: any other one that passes the check answers alike.            *)
(***************************************************************************)
THEOREM HashFixesAnswers == ReloadSpec => []WindowFixesEveryAnswer
<1>1. WindowInv => WindowFixesEveryAnswer
  BY InvFixesEveryAnswer
<1> QED
  BY <1>1, WindowHolds, PTL

-----------------------------------------------------------------------------
(* The invariant. *)

SignalBars == [ts : Int, open : Int, high : Int, low : Int, close : Int]

\* The bars a state has seen are complete.
Reached(s, t) == s.last_bar_ts = None \/ (s.last_bar_ts \in Int /\ s.last_bar_ts + Minute <= t)

\* What a manual order is, beside the state s of the AUTO order.
Beside(order, s, c, t) ==
  /\ order \in [at : {order.at}, ctx : {order.ctx}, state : {order.state}, missed : BOOLEAN]
  /\ Same(c, order.ctx) /\ Sound(order.state, c.signal.stop) /\ Reached(order.state, t)
  /\ ~order.missed => Alike(s, order.state)

\* Until a click, the AUTO order is the tape's.
Taped(bars, s, c, t) ==
  /\ bars \in Seq(SignalBars) /\ \A i \in DOMAIN bars : bars[i].ts + Minute <= t
  /\ s = RunBars(NewOrderState(c, None).state, bars, c).state

ClickInv ==
  /\ ctx \in [signal : Signals, config : Configs, start : {Start}, until : {Until}]
  /\ instant \in Int
  /\ Sound(auto, ctx.signal.stop) /\ Reached(auto, instant)
  /\ manual = {} => Taped(tape, auto, ctx, instant)
  /\ \A order \in manual : Beside(order, auto, ctx, instant)

(***************************************************************************)
(* Before the first bar nothing is taped, and the order is new.            *)
(***************************************************************************)
LEMMA ClickStarts == ClickInit => ClickInv
<1> SUFFICES ASSUME ClickInit PROVE ClickInv
  OBVIOUS
<1>1. /\ ctx \in [signal : Signals, config : Configs, start : {Start}, until : {Until}]
      /\ instant = Start /\ tape = <<>> /\ manual = {} /\ auto = NewOrderState(ctx, None).state
  BY DEF ClickInit
<1>2. Waiting(auto, ctx.signal.stop) /\ auto.last_bar_ts = None
  BY <1>1, FreshSound
<1>3. RunBars(auto, tape, ctx).state = auto
  <2>1. RunBars(auto, <<>>, ctx) = Unchanged(auto)
    BY RunNothing
  <2> QED
    BY <1>1, <2>1 DEF Unchanged, StepResult
<1>4. Taped(tape, auto, ctx, instant)
  <2>1. tape \in Seq(SignalBars) /\ DOMAIN tape = {}
    BY <1>1
  <2> QED
    BY <1>1, <1>3, <2>1 DEF Taped
<1>5. instant \in Int
  BY <1>1, WindowAssumption
<1> QED
  BY <1>1, <1>2, <1>4, <1>5 DEF ClickInv, Sound, Reached

(***************************************************************************)
(* The click replays every bar of the tape, since all are complete, and so *)
(* finds the state of the AUTO order.                                      *)
(***************************************************************************)
LEMMA ReplaysTheTape ==
  ASSUME Taped(tape, auto, ctx, instant)
  PROVE  HypotheticalState(tape, instant) = auto
<1> DEFINE n == Len(tape)
<1>1. tape \in Seq(SignalBars) /\ DOMAIN tape = 1..n /\ n \in Nat /\ \A i \in DOMAIN tape : tape[i].ts + Minute <= instant
  BY DEF Taped
<1> HIDE DEF n
<1>2. CompleteBars(tape, instant) = 1..n
  BY <1>1 DEF CompleteBars
<1>3. Cardinality(1..n) = n
  BY <1>1, FS_Interval
<1>4. SubSeq(tape, 1, n) = tape
  BY <1>1, SubSeqFull DEF n
<1>5. HypotheticalState(tape, instant) = RunBars(NewOrderState(ctx, None).state, tape, ctx).state
  BY <1>2, <1>3, <1>4 DEF HypotheticalState
<1> QED
  BY <1>5 DEF Taped

(***************************************************************************)
(* A click that finds the order actionable finds it PENDING, and then the  *)
(* gates are all there is to inherit.                                      *)
(***************************************************************************)
LEMMA ClickKeeps ==
  ASSUME ClickInv, Click
  PROVE  ClickInv'
<1> DEFINE g == GatingState(auto)
           order == BuildManualOrder(tape, instant)
<1>1. manual = {} /\ UNCHANGED <<ctx, instant, auto>> /\ Taped(tape, auto, ctx, instant)
  BY DEF ClickInv, Click
<1>2. HypotheticalState(tape, instant) = auto
  BY <1>1, ReplaysTheTape
<1>3. CASE answer' # "ACTIONABLE"
  BY <1>1, <1>3 DEF Click, ClickInv
<1>4. CASE answer' = "ACTIONABLE"
  <2>1. manual' = {order}
    BY <1>4 DEF Click
  <2>2. auto.status = "PENDING"
    <3>1. Decide(tape, instant) = "ACTIONABLE"
      BY <1>4 DEF Click
    <3>2. SignalActionability(tape, instant) = "ACTIONABLE"
      BY <3>1 DEF Decide
    <3>3. auto.status \in {"PENDING", "OPEN", "PARTIAL", "CLOSED", "EXPIRED", "INVALIDATED"}
          /\ (auto.status = "CLOSED" => auto.close_reason \in {"STOPPED", "TARGET_FINAL", "TIME_EXIT"})
      BY DEF ClickInv, Sound, Waiting, Held, Gone
    <3>4. auto.status = "CLOSED" => CloseReasons[auto.close_reason] # "ACTIONABLE"
      BY <3>3 DEF CloseReasons
    <3> QED
      BY <1>2, <3>2, <3>3, <3>4 DEF SignalActionability
  <2>3. Waiting(auto, ctx.signal.stop)
    BY <2>2 DEF ClickInv, Sound, Held, Gone
  <2>4. /\ g \in [status : {"PENDING"}, zone_lost : BOOLEAN, entry_eligible_from : Int \cup {None},
                   trigger_hit_at : Int \cup {None}]
        /\ g.zone_lost = auto.zone_lost /\ g.entry_eligible_from = auto.entry_eligible_from
        /\ g.trigger_hit_at = auto.trigger_hit_at
    BY <2>3 DEF GatingState, Waiting, Pristine
  <2> DEFINE context == [ctx EXCEPT !.start = EvaluationStart(instant)]
             state == NewOrderState(context, g).state
  <2>5. order = [at |-> instant, ctx |-> context, missed |-> FALSE, state |-> state]
    BY <1>2 DEF BuildManualOrder
  <2>6. Same(ctx, context)
    BY DEF ClickInv, Same
  <2>7. Waiting(state, ctx.signal.stop) /\ state.last_bar_ts = None
    <3>1. g # None
      BY <2>4, GatingAssumption
    <3>2. Waiting(state, context.signal.stop) /\ state.last_bar_ts = None
      BY <2>4, <3>1, GatedSound
    <3> QED
      BY <2>6, <3>2 DEF Same
  <2>8. Alike(auto, state)
    <3>1. state.zone_lost = auto.zone_lost /\ state.entry_eligible_from = auto.entry_eligible_from
          /\ state.trigger_hit_at = auto.trigger_hit_at
      BY <2>4, GatingAssumption DEF NewOrderState, StepResult
    <3> HIDE DEF state
    <3> QED
      BY <2>3, <2>7, <3>1 DEF Waiting, Pristine, Alike, Fields
  <2> HIDE DEF state, context
  <2>9. Beside(order, auto, ctx, instant)
    BY <2>5, <2>6, <2>7, <2>8 DEF Beside, Sound, Reached
  <2> HIDE DEF order
  <2> QED
    BY <1>1, <2>1, <2>9 DEF ClickInv
<1> QED
  BY <1>3, <1>4

(***************************************************************************)
(* A complete bar is newer than every bar an order has seen, and inside    *)
(* the window: only the start and the end of the order make it ignored.    *)
(***************************************************************************)
LEMMA Stepwise ==
  ASSUME NEW c, c.signal.stop \in Int, NEW s, Sound(s, c.signal.stop), NEW t \in Int, Reached(s, t),
         NEW bar, bar.ts \in Int, bar.ts + Minute = t + 1, IsExpectedMinute(bar.ts), c.until \in Int, bar.ts < c.until
  PROVE  /\ Sound(Step(s, bar, c).state, c.signal.stop) /\ Reached(Step(s, bar, c).state, t + 1)
         /\ Ignored(s, bar, c) <=> IsFinal(s) \/ Frozen(s) \/ bar.ts < c.start
         /\ Ignored(s, bar, c) => Step(s, bar, c).state = s
<1>1. Minute \in Nat \ {0} /\ None \notin Int
  BY CalendarAssumption, NoneAssumption
<1>2. s.last_bar_ts # None => ~(bar.ts <= s.last_bar_ts)
  BY <1>1 DEF Reached
<1>3. ~(bar.ts >= c.until)
  OBVIOUS
<1>4. Reached(Step(s, bar, c).state, t + 1)
  BY <1>1, StepSound DEF Reached
<1> QED
  BY <1>2, <1>3, <1>4, StepSound DEF Ignored

(***************************************************************************)
(* A bar of the signal. It is on the tape, or both orders are stepped:     *)
(* alike, unless it came before the manual order's start and did           *)
(* something.                                                              *)
(***************************************************************************)
LEMMA BarKeeps ==
  ASSUME ClickInv, UNCHANGED ctx, instant' = instant + 1,
         NEW bar \in SignalBars, Bar(bar), bar.ts + Minute = instant + 1, ctx.start <= bar.ts,
         IsExpectedMinute(bar.ts), bar.ts < ctx.until
  PROVE  ClickInv'
<1>1. /\ ctx \in [signal : Signals, config : Configs, start : {Start}, until : {Until}]
      /\ instant \in Int /\ Sound(auto, ctx.signal.stop) /\ Reached(auto, instant)
      /\ auto' = Step(auto, bar, ctx).state
  BY DEF ClickInv, Bar
<1>2. ctx.signal.stop \in Int /\ ctx.start \in Int /\ ctx.until \in Int /\ bar.ts \in Int /\ "ts" \in DOMAIN bar
  BY <1>1, SignalsAssumption, WindowAssumption DEF SignalBars
<1>3. /\ Sound(auto', ctx.signal.stop) /\ Reached(auto', instant + 1)
      /\ Ignored(auto, bar, ctx) <=> IsFinal(auto) \/ Frozen(auto)
      /\ Ignored(auto, bar, ctx) => auto' = auto
  BY <1>1, <1>2, Stepwise
<1>4. ASSUME manual' = {} PROVE Taped(tape', auto', ctx, instant + 1)
  <2>1. manual = {} /\ tape' = Append(tape, bar) /\ Taped(tape, auto, ctx, instant)
    <3>1. manual = {}
      <4> DEFINE stepped(order) == [order EXCEPT
                   !.state = Step(@, bar, order.ctx).state,
                   !.missed = @ \/ /\ bar.ts < order.ctx.start
                                   /\ auto' # [auto EXCEPT !.last_bar_ts = bar.ts]]
      <4>1. manual' = {stepped(order) : order \in manual}
        BY DEF Bar
      <4> HIDE DEF stepped
      <4> QED
        BY <1>4, <4>1
    <3> QED
      BY <3>1 DEF Bar, ClickInv
  <2>2. tape \in Seq(SignalBars) /\ \A i \in DOMAIN tape : tape[i].ts + Minute <= instant /\ tape[i].ts \in Int
    <3>1. tape \in Seq(SignalBars) /\ \A i \in DOMAIN tape : tape[i].ts + Minute <= instant
      BY <2>1 DEF Taped
    <3>2. \A i \in DOMAIN tape : tape[i] \in SignalBars
      BY <3>1
    <3> QED
      BY <3>1, <3>2 DEF SignalBars
  <2>3. tape' \in Seq(SignalBars)
    BY <2>1, <2>2
  <2>4. ASSUME NEW i \in DOMAIN tape' PROVE tape'[i].ts + Minute <= instant + 1
    <3>1. CASE i \in DOMAIN tape
      <4>1. tape'[i] = tape[i]
        BY <2>1, <2>2, <3>1
      <4>2. tape[i].ts + Minute <= instant /\ tape[i].ts + Minute \in Int
        BY <2>2, <3>1, CalendarAssumption
      <4> QED
        BY <1>1, <4>1, <4>2
    <3>2. CASE i \notin DOMAIN tape
      <4>1. tape'[i] = bar
        BY <2>1, <2>2, <2>4, <3>2
      <4> QED
        BY <1>1, <4>1
    <3> QED
      BY <3>1, <3>2
  <2>5. auto' = RunBars(NewOrderState(ctx, None).state, tape', ctx).state
    BY <1>1, <1>2, <2>1, <2>2, RunOne DEF Taped
  <2> QED
    BY <2>3, <2>4, <2>5 DEF Taped
<1>5. ASSUME NEW order \in manual
      PROVE  Beside([order EXCEPT
                       !.state = Step(@, bar, order.ctx).state,
                       !.missed = @ \/ /\ bar.ts < order.ctx.start
                                       /\ auto' # [auto EXCEPT !.last_bar_ts = bar.ts]],
                    auto', ctx, instant + 1)
  <2> DEFINE s == order.state
             d == order.ctx
             q == Step(s, bar, d).state
             missed == order.missed \/ (bar.ts < d.start /\ auto' # [auto EXCEPT !.last_bar_ts = bar.ts])
             next == [order EXCEPT !.state = q, !.missed = missed]
  <2>1. Beside(order, auto, ctx, instant)
    BY DEF ClickInv
  <2>2. /\ order \in [at : {order.at}, ctx : {d}, state : {s}, missed : BOOLEAN]
        /\ Same(ctx, d) /\ Sound(s, ctx.signal.stop) /\ Reached(s, instant)
        /\ ~order.missed => Alike(auto, s)
    BY <2>1 DEF Beside
  <2>3. d.signal = ctx.signal /\ d.until = ctx.until
    BY <2>2 DEF Same
  <2>4. /\ next \in [at : {order.at}, ctx : {d}, state : {q}, missed : BOOLEAN]
        /\ next.ctx = d /\ next.state = q /\ next.missed = missed /\ next.at = order.at
    BY <2>2
  <2> HIDE DEF d, s
  <2>5. /\ Sound(q, ctx.signal.stop) /\ Reached(q, instant + 1)
        /\ Ignored(s, bar, d) <=> IsFinal(s) \/ Frozen(s) \/ bar.ts < d.start
        /\ Ignored(s, bar, d) => q = s
    BY <1>1, <1>2, <2>2, <2>3, Stepwise
  <2>6. ASSUME ~missed PROVE Alike(auto', q)
    <3>1. Alike(auto, s)
      BY <2>2, <2>6
    <3>2. (IsFinal(auto) <=> IsFinal(s)) /\ (Frozen(auto) <=> Frozen(s))
      BY <3>1 DEF Alike, Fields, IsFinal, Frozen
    <3>3. CASE IsFinal(s) \/ Frozen(s)
      BY <1>3, <2>5, <3>1, <3>2, <3>3
    <3>4. CASE ~(IsFinal(s) \/ Frozen(s)) /\ bar.ts < d.start
      <4>1. auto' = [auto EXCEPT !.last_bar_ts = bar.ts] /\ q = s
        BY <2>5, <2>6, <3>4
      <4> QED
        BY <3>1, <4>1 DEF Alike, IsState, Fields
    <3>5. CASE ~(IsFinal(s) \/ Frozen(s)) /\ ~(bar.ts < d.start)
      <4>1. ~Ignored(auto, bar, ctx) /\ ~Ignored(s, bar, d)
        BY <1>3, <2>5, <3>2, <3>5
      <4>2. q = auto'
        BY <1>1, <2>2, <3>1, <4>1, StepTwins
      <4>3. IsState(q)
        BY <2>5 DEF Sound, Waiting, Held, Gone
      <4> QED
        BY <4>2, <4>3 DEF Alike
    <3> QED
      BY <3>3, <3>4, <3>5
  <2> HIDE DEF q, missed
  <2>7. Beside(next, auto', ctx, instant + 1)
    <3> HIDE DEF next
    <3> QED
      BY <2>2, <2>4, <2>5, <2>6 DEF Beside
  <2> QED
    BY <2>7 DEF next, missed, q, s, d
<1>6. \A order \in manual' : Beside(order, auto', ctx, instant + 1)
  BY <1>5 DEF Bar
<1>7. instant' \in Int
  BY <1>1
<1> QED
  BY <1>1, <1>3, <1>4, <1>6, <1>7 DEF ClickInv

(***************************************************************************)
(* A tick of the clock, with or without a bar.                             *)
(***************************************************************************)
LEMMA InstantKeeps ==
  ASSUME ClickInv, AdvanceInstant
  PROVE  ClickInv'
<1>1. /\ instant \in Int /\ instant' = instant + 1 /\ ctx' = ctx /\ Minute \in Nat \ {0}
      /\ ctx \in [signal : Signals, config : Configs, start : {Start}, until : {Until}]
  BY CalendarAssumption DEF ClickInv, AdvanceInstant
<1>2. CASE UNCHANGED <<auto, tape, manual>>
  <2>1. \A s : Reached(s, instant) => Reached(s, instant + 1)
    BY <1>1 DEF Reached
  <2>2. ASSUME manual = {} PROVE Taped(tape, auto, ctx, instant + 1)
    <3>1. Taped(tape, auto, ctx, instant)
      BY <2>2 DEF ClickInv
    <3>2. ASSUME NEW i \in DOMAIN tape PROVE tape[i].ts + Minute <= instant + 1
      <4>1. tape[i].ts \in Int /\ tape[i].ts + Minute <= instant
        <5>1. tape \in Seq(SignalBars) /\ tape[i].ts + Minute <= instant
          BY <3>1, <3>2 DEF Taped
        <5>2. tape[i] \in SignalBars
          BY <3>2, <5>1
        <5> QED
          BY <5>1, <5>2 DEF SignalBars
      <4> QED
        BY <1>1, <4>1
    <3> QED
      BY <3>1, <3>2 DEF Taped
  <2>3. \A order \in manual : Beside(order, auto, ctx, instant + 1)
    BY <2>1 DEF ClickInv, Beside
  <2>4. instant' \in Int
    BY <1>1
  <2> QED
    BY <1>1, <1>2, <2>1, <2>2, <2>3, <2>4 DEF ClickInv
<1>3. ASSUME BarExpected, NEW candle \in Candles,
             Bar([ts |-> instant + 1 - Minute, open |-> candle.open, high |-> candle.high,
                  low |-> candle.low, close |-> candle.close])
      PROVE  ClickInv'
  <2> DEFINE bar == [ts |-> instant + 1 - Minute, open |-> candle.open, high |-> candle.high,
                     low |-> candle.low, close |-> candle.close]
  <2>1. bar.ts = instant + 1 - Minute /\ bar \in SignalBars /\ Bar(bar)
    BY <1>1, <1>3, CandlesAssumption DEF SignalBars
  <2> HIDE DEF bar
  <2>2. bar.ts + Minute = instant + 1 /\ ctx.start <= bar.ts /\ IsExpectedMinute(bar.ts) /\ bar.ts < ctx.until
    BY <1>1, <1>3, <2>1, WindowAssumption DEF BarExpected
  <2> QED
    BY <1>1, <2>1, <2>2, BarKeeps
<1> QED
  BY <1>2, <1>3 DEF AdvanceInstant

(***************************************************************************)
(* ManualFollowsAuto: a manual order goes through the states of the AUTO   *)
(* order from the click on, for every signal, fill configuration,          *)
(* calendar, candle and instant of the click, unless the one bar the click *)
(* fell into did something to the AUTO order.                              *)
(***************************************************************************)
THEOREM ManualFollows == ClickSpec => []ManualFollowsAuto
<1>1. ClickInit => ClickInv
  BY ClickStarts
<1>2. ClickInv /\ [ClickNext]_clickVars => ClickInv'
  <2> SUFFICES ASSUME ClickInv, [ClickNext]_clickVars PROVE ClickInv'
    OBVIOUS
  <2>1. CASE Click
    BY <2>1, ClickKeeps
  <2>2. CASE AdvanceInstant
    BY <2>2, InstantKeeps
  <2>3. CASE UNCHANGED clickVars
    BY <2>3 DEF clickVars, ClickInv
  <2> QED
    BY <2>1, <2>2, <2>3 DEF ClickNext
<1>3. ClickInv => ManualFollowsAuto
  <2> SUFFICES ASSUME ClickInv, NEW order \in manual, ~order.missed
               PROVE  order.state = [auto EXCEPT !.last_bar_ts = order.state.last_bar_ts]
    BY DEF ManualFollowsAuto
  <2>1. Alike(auto, order.state)
    BY DEF ClickInv, Beside
  <2> DEFINE m == order.state
  <2> HIDE DEF m
  <2>2. m = [auto EXCEPT !.last_bar_ts = m.last_bar_ts]
    BY <2>1 DEF Alike, IsState, Fields, m
  <2> QED
    BY <2>2 DEF m
<1> QED
  BY <1>1, <1>2, <1>3, PTL DEF ClickSpec

=============================================================================
