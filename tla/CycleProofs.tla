----------------------------- MODULE CycleProofs -----------------------------
(***************************************************************************)
(* Theorems about the evaluation jobs, for every number of orders, feeds,  *)
(* closes and crashes.                                                     *)
(*                                                                         *)
(*   AskedFirst      no evaluation steps over a minute that its provider   *)
(*                   had not answered for;                                 *)
(*   KnowledgeGrows  no evaluation of an order knows less than the last;   *)
(*   NeverBlind      the end of validity only ends an order evaluated up   *)
(*                   to its close.                                         *)
(*                                                                         *)
(* The cursor a job reads under the lock is at most the order's cursor     *)
(* later, and the provider is asked from the earliest cursor of its feed:  *)
(* so its answer covers all that remains of the order.  Only the holder of *)
(* the lock evaluates, so what it knows is the latest.  For the end of     *)
(* validity, an order that commits within its minute is not due at the     *)
(* instant of an end of day that has started: all due orders are in its    *)
(* snapshot, and it leaves them at their close unless their feed failed.   *)
(***************************************************************************)
EXTENDS EvaluationCycle, WellFoundedInduction, SequenceTheorems, TLAPS

(***************************************************************************)
(* A set of naturals that is not empty has a least element.                *)
(***************************************************************************)
LEMMA Least ==
  ASSUME NEW S \in SUBSET Nat, S # {}
  PROVE  \E x \in S : \A y \in S : x <= y
<1>1. PICK x \in S : \A y \in S : ~ (<<y, x>> \in OpToRel(<, Nat))
  BY NatLessThanWellFounded, WFMin
<1>2. \A y \in S : ~ (y < x)
  BY <1>1 DEF OpToRel
<1> QED
  BY <1>2

(***************************************************************************)
(* Min is that least element: the earliest cursor of a feed's orders.      *)
(***************************************************************************)
LEMMA MinIsLeast ==
  ASSUME NEW S \in SUBSET Nat, S # {}
  PROVE  Min(S) \in S /\ \A y \in S : Min(S) <= y
BY Least DEF Min

(***************************************************************************)
(* The greatest element of a bounded set is the least one of its           *)
(* complements: Max is the last bar an evaluation reads.                   *)
(***************************************************************************)
LEMMA MaxIsGreatest ==
  ASSUME NEW S \in SUBSET Nat, S # {}, NEW n \in Nat, \A x \in S : x <= n
  PROVE  Max(S) \in S /\ \A y \in S : Max(S) >= y
<1> DEFINE Below == {n - x : x \in S}
<1>0. \A x \in S : x \in Nat /\ n - x \in Nat
  OBVIOUS
<1>1. Below \in SUBSET Nat /\ Below # {}
  <2>1. PICK x \in S : TRUE
    OBVIOUS
  <2>2. n - x \in Below
    OBVIOUS
  <2> QED
    BY <1>0, <2>2
<1>2. PICK d \in Below : \A e \in Below : d <= e
  BY <1>1, Least
<1>3. PICK x \in S : d = n - x
  OBVIOUS
<1>4. \A y \in S : n - x <= n - y
  BY <1>2, <1>3
<1>5. \A y \in S : x >= y
  BY <1>0, <1>4
<1> QED
  BY <1>5 DEF Max

(***************************************************************************)
(* The closes are finitely many: the last one is the latest.  A prefix of  *)
(* their enumeration without a latest close would have a shortest one.     *)
(***************************************************************************)
LEMMA LastCloseIsLatest ==
  LastClose \in Closes /\ \A c \in Closes : c <= LastClose
<1>0. Closes \subseteq Nat /\ Closes # {}
  BY ClosesAssumption DEF ClosesAssumption
<1>1. PICK seq \in Seq(Closes) : \A c \in Closes : \E n \in 1..Len(seq) : seq[n] = c
  BY ClosesAssumption DEF ClosesAssumption, IsFiniteSet
<1>2. /\ Len(seq) \in Nat
      /\ \A i \in 1..Len(seq) : seq[i] \in Closes /\ seq[i] \in Nat
  BY <1>0, ElementOfSeq, LenProperties
<1> DEFINE Latest(n) == \E c \in Closes : \A i \in 1..n : seq[i] <= c
<1>3. Latest(0)
  <2>1. PICK c \in Closes : TRUE
    BY <1>0
  <2>2. \A i \in 1..0 : seq[i] <= c
    OBVIOUS
  <2> QED
    BY <2>2
<1>4. ASSUME NEW n \in Nat, n + 1 <= Len(seq), Latest(n)
      PROVE  Latest(n + 1)
  <2>1. PICK c \in Closes : \A i \in 1..n : seq[i] <= c
    BY <1>4
  <2>2. seq[n + 1] \in Closes /\ seq[n + 1] \in Nat /\ c \in Nat
    BY <1>0, <1>2, <1>4
  <2>3. \A i \in 1..(n + 1) : i = n + 1 \/ i \in 1..n
    OBVIOUS
  <2>4. CASE seq[n + 1] <= c
    BY <2>1, <2>3, <2>4
  <2>5. CASE c <= seq[n + 1]
    <3>1. \A i \in 1..(n + 1) : seq[i] <= seq[n + 1]
      BY <1>2, <1>4, <2>1, <2>2, <2>3, <2>5
    <3> QED
      BY <2>2, <3>1
  <2> QED
    BY <2>2, <2>4, <2>5
<1>5. Latest(Len(seq))
  <2> DEFINE Bad == {n \in Nat : n <= Len(seq) /\ ~Latest(n)}
  <2> SUFFICES ASSUME Bad # {} PROVE FALSE
    BY <1>2
  <2>1. PICK n \in Bad : \A k \in Bad : n <= k
    BY Least
  <2>2. n \in Nat /\ n <= Len(seq) /\ ~Latest(n)
    OBVIOUS
  <2> HIDE DEF Latest
  <2>3. n # 0
    BY <1>3, <2>2
  <2>4. n - 1 \in Nat /\ n - 1 <= Len(seq) /\ n - 1 \notin Bad /\ (n - 1) + 1 = n
    BY <1>2, <2>1, <2>2, <2>3
  <2> QED
    BY <1>4, <2>2, <2>4
<1>6. PICK last \in Closes : \A i \in 1..Len(seq) : seq[i] <= last
  BY <1>5
<1>7. \A c \in Closes : c <= last
  BY <1>1, <1>6
<1> QED
  BY <1>7 DEF LastClose

-----------------------------------------------------------------------------
(* The inductive invariant, in four parts. *)

Knowledge == [Feeds -> SUBSET Nat]
Statuses == {"absent", "deciding", "active", "frozen"} \cup Ended
Phases == {"idle", "starting", "ingest", "evaluate", "select", "expire"}

OrderTypes == [status : Statuses, start : Nat, cursor : Nat, known : Knowledge \cup {None}]
JobTypes ==
  [pc : Phases, marketNow : Nat, cursors : SUBSET [order : Orders, from : Nat],
   feeds : SUBSET Feeds, failures : SUBSET Feeds, known : Knowledge \cup {None},
   todo : SUBSET Orders]

TypeOK ==
  /\ now \in Nat /\ lock \in Jobs \cup {None}
  /\ asked \in Knowledge /\ stored \in Knowledge
  /\ orders \in [Orders -> OrderTypes]
  /\ jobs \in [Jobs -> JobTypes]

(* Whoever ingests or evaluates holds the lock. *)
OneCycle == \A j \in Jobs : jobs[j].pc \in {"ingest", "evaluate"} => lock = j

(* A provider has answered for the minutes of a feed from one instant to another. *)
Answered(f, from, to) ==
  \A m \in Nat : from <= m /\ m < to /\ m < LastClose => m \in asked[f]

(* What a job still has to evaluate was asked, from the cursor that it read. *)
SnapshotAsked(j) ==
  jobs[j].pc = "ingest" =>
    \A c \in jobs[j].cursors :
      /\ orders[c.order].status # "absent" /\ c.from <= orders[c.order].cursor
      /\ \/ FeedOf[c.order] \in jobs[j].feeds \cup jobs[j].failures
         \/ Answered(FeedOf[c.order], c.from, jobs[j].marketNow)

TodoAsked(j) ==
  jobs[j].pc = "evaluate" =>
    \A o \in jobs[j].todo :
      /\ orders[o].status # "absent"
      /\ Answered(FeedOf[o], orders[o].cursor, jobs[j].marketNow)

CursorsAsked ==
  /\ \A o \in Orders : orders[o].start <= orders[o].cursor /\ orders[o].cursor <= UntilOf[o]
  /\ EvaluatedWasAsked
  /\ \A j \in Jobs : SnapshotAsked(j) /\ TodoAsked(j)

(* The job that evaluates knows what is stored, and no order knows more. *)
JobKnowsMost ==
  /\ \A o \in Orders : Knows(stored, orders[o].known)
  /\ \A j \in Jobs :
       jobs[j].pc = "evaluate" =>
         /\ jobs[j].known \in Knowledge /\ Knows(stored, jobs[j].known)
         /\ \A o \in Orders : Knows(jobs[j].known, orders[o].known)

(* An order whose validity is over at a job's instant was open when the job
   began, and its end of day leaves it evaluated, but for a feed that failed. *)
Due(j, o) == orders[o].status = "active" /\ UntilOf[o] <= jobs[j].marketNow
Seen(o) == orders[o].status # "absent" /\ orders[o].cursor = UntilOf[o]

EndOfDaySees(j) ==
  /\ jobs[j].marketNow <= now
  /\ jobs[j].pc = "ingest" => \A o \in Orders : Due(j, o) => \E c \in jobs[j].cursors : c.order = o
  /\ jobs[j].pc = "evaluate" /\ j = "eod" =>
       \A o \in Orders : Due(j, o) /\ FeedOf[o] \notin jobs[j].failures => o \in jobs[j].todo \/ Seen(o)
  /\ jobs[j].pc = "select" =>
       \A o \in Orders : Due(j, o) /\ FeedOf[o] \notin jobs[j].failures => Seen(o)
  /\ jobs[j].pc = "expire" => \A o \in jobs[j].todo : Seen(o)

Decided(o) == orders[o].status = "deciding" => orders[o].start = now /\ now < UntilOf[o]
Expired(o) == orders[o].status = "expired" => Seen(o)

DueIsSeen ==
  /\ \A o \in Orders : Decided(o) /\ Expired(o)
  /\ \A j \in Jobs : EndOfDaySees(j)

-----------------------------------------------------------------------------

(***************************************************************************)
(* What the assumptions on the parameters give: every order has a feed and *)
(* a validity that ends at a close.                                        *)
(***************************************************************************)
LEMMA Parameters ==
  /\ LastClose \in Nat
  /\ None \notin Jobs
  /\ \A o \in Orders : /\ FeedOf[o] \in Feeds
                       /\ UntilOf[o] \in Nat \ {0} /\ UntilOf[o] <= LastClose
BY LastCloseIsLatest, OrdersAssumption, ClosesAssumption, JobsAssumption
   DEF OrdersAssumption, ClosesAssumption, JobsAssumption, Jobs

(***************************************************************************)
(* An evaluation ends after the cursor, within the order's window and what *)
(* had happened at the job's instant.                                      *)
(***************************************************************************)
LEMMA SegmentEndBounds ==
  ASSUME TypeOK, JobKnowsMost, NEW j \in Jobs, jobs[j].pc = "evaluate", NEW o \in Orders,
         orders[o].cursor <= UntilOf[o]
  PROVE  LET end == SegmentEnd(j, o) IN
         /\ end \in Nat /\ orders[o].cursor <= end
         /\ end > orders[o].cursor => end <= UntilOf[o] /\ end <= jobs[j].marketNow
         /\ j = "eod" /\ UntilOf[o] <= jobs[j].marketNow => end = UntilOf[o]
<1> DEFINE cursor == orders[o].cursor
           horizon == IF UntilOf[o] < jobs[j].marketNow THEN UntilOf[o] ELSE jobs[j].marketNow
           bars == jobs[j].known[FeedOf[o]] \cap (cursor..(horizon - 1))
<1>0. cursor \in Nat /\ jobs[j].marketNow \in Nat /\ UntilOf[o] \in Nat
  BY Parameters DEF TypeOK, OrderTypes, JobTypes
<1>1. /\ cursor \in Nat /\ jobs[j].marketNow \in Nat /\ UntilOf[o] \in Nat
      /\ horizon \in Nat /\ horizon <= UntilOf[o] /\ horizon <= jobs[j].marketNow
      /\ cursor <= UntilOf[o]
      /\ UntilOf[o] <= jobs[j].marketNow => horizon = UntilOf[o]
  BY <1>0
<1>2. SegmentEnd(j, o) = IF j = "eod" /\ cursor < horizon THEN horizon
                         ELSE IF bars = {} THEN cursor ELSE Max(bars) + 1
  BY DEF SegmentEnd
<1> HIDE DEF cursor, horizon
<1>3. ASSUME bars # {}
      PROVE  Max(bars) \in Nat /\ cursor <= Max(bars) /\ Max(bars) <= horizon - 1
  <2>1. bars \in SUBSET Nat /\ \A m \in bars : m <= horizon /\ cursor <= m /\ m <= horizon - 1
    BY <1>1
  <2>2. Max(bars) \in bars
    BY <1>1, <1>3, <2>1, MaxIsGreatest
  <2> QED
    BY <2>1, <2>2
<1> HIDE DEF bars
<1>4. CASE j = "eod" /\ cursor < horizon
  <2>1. SegmentEnd(j, o) = horizon
    BY <1>2, <1>4
  <2> QED
    BY <1>1, <1>4, <2>1 DEF cursor
<1>5. CASE ~(j = "eod" /\ cursor < horizon) /\ bars = {}
  <2>1. SegmentEnd(j, o) = cursor
    BY <1>2, <1>5
  <2> QED
    BY <1>1, <1>5, <2>1 DEF cursor
<1>6. CASE ~(j = "eod" /\ cursor < horizon) /\ bars # {}
  <2>1. SegmentEnd(j, o) = Max(bars) + 1
    BY <1>2, <1>6
  <2> QED
    BY <1>1, <1>3, <1>6, <2>1 DEF cursor
<1> QED
  BY <1>4, <1>5, <1>6

(***************************************************************************)
(* The first three parts without the ends of orders, for every instance.   *)
(***************************************************************************)
Inv == TypeOK /\ OneCycle /\ CursorsAsked /\ JobKnowsMost

(* What no step takes back: answers, bars, orders and their cursors. *)
Grows ==
  /\ \A f \in Feeds : asked[f] \subseteq asked'[f] /\ stored[f] \subseteq stored'[f]
  /\ \A o \in Orders : /\ orders[o].status # "absent" => orders'[o].status # "absent"
                       /\ orders[o].status # "absent" => orders[o].cursor <= orders'[o].cursor

(***************************************************************************)
(* A job that does not step keeps what is known of it.                     *)
(***************************************************************************)
LEMMA Resting ==
  ASSUME Inv, TypeOK', Grows, NEW i \in Jobs, jobs'[i] = jobs[i]
  PROVE  SnapshotAsked(i)' /\ TodoAsked(i)'
<1> USE Parameters DEF Grows
<1>0. /\ jobs[i].cursors \subseteq [order : Orders, from : Nat] /\ jobs[i].todo \subseteq Orders
      /\ \A o \in Orders : orders[o].cursor \in Nat /\ orders'[o].cursor \in Nat
  BY DEF Inv, TypeOK, OrderTypes, JobTypes
<1>1. \A f \in Feeds, m \in Nat, n \in Nat : Answered(f, m, n) => Answered(f, m, n)'
  BY DEF Answered
<1>2. \A f \in Feeds, k \in Nat, m \in Nat, n \in Nat : k <= m /\ Answered(f, k, n) => Answered(f, m, n)
  BY DEF Answered
<1>3. jobs[i].marketNow \in Nat
  BY DEF Inv, TypeOK, JobTypes
<1>4. SnapshotAsked(i)'
  <2> SUFFICES ASSUME jobs[i].pc = "ingest", NEW c \in jobs[i].cursors
               PROVE  /\ orders'[c.order].status # "absent" /\ c.from <= orders'[c.order].cursor
                      /\ \/ FeedOf[c.order] \in jobs[i].feeds \cup jobs[i].failures
                         \/ Answered(FeedOf[c.order], c.from, jobs[i].marketNow)'
    BY DEF SnapshotAsked
  <2>1. /\ orders[c.order].status # "absent" /\ c.from <= orders[c.order].cursor
        /\ \/ FeedOf[c.order] \in jobs[i].feeds \cup jobs[i].failures
           \/ Answered(FeedOf[c.order], c.from, jobs[i].marketNow)
    BY DEF Inv, CursorsAsked, SnapshotAsked
  <2>2. c.order \in Orders /\ c.from \in Nat
    BY <1>0
  <2> QED
    BY <1>0, <1>1, <1>3, <2>1, <2>2
<1>5. TodoAsked(i)'
  <2> SUFFICES ASSUME jobs[i].pc = "evaluate", NEW o \in jobs[i].todo
               PROVE  (/\ orders[o].status # "absent"
                       /\ Answered(FeedOf[o], orders[o].cursor, jobs[i].marketNow))'
    BY DEF TodoAsked
  <2>1. orders[o].status # "absent" /\ Answered(FeedOf[o], orders[o].cursor, jobs[i].marketNow)
    BY DEF Inv, CursorsAsked, TodoAsked
  <2>2. Answered(FeedOf[o], orders'[o].cursor, jobs[i].marketNow)
    BY <1>0, <1>2, <1>3, <2>1
  <2> QED
    BY <1>0, <1>1, <1>3, <2>1, <2>2
<1> QED
  BY <1>4, <1>5

(***************************************************************************)
(* A step that stores nothing and moves no cursor, of a job that neither   *)
(* ingests nor evaluates afterwards.                                       *)
(***************************************************************************)
LEMMA ControlStep ==
  ASSUME Inv, NEW j \in Jobs, NEW r \in JobTypes, r.pc \notin {"ingest", "evaluate"},
         jobs' = [jobs EXCEPT ![j] = r],
         lock' = lock \/ lock' = (IF lock = j THEN None ELSE lock),
         UNCHANGED <<now, asked, stored>>,
         orders' \in [Orders -> OrderTypes],
         \A o \in Orders : /\ orders'[o].start = orders[o].start
                           /\ orders'[o].cursor = orders[o].cursor
                           /\ orders'[o].known = orders[o].known
                           /\ orders[o].status # "absent" => orders'[o].status # "absent"
  PROVE  Inv'
<1>1. jobs'[j] = r /\ \A i \in Jobs \ {j} : jobs'[i] = jobs[i]
  BY DEF Inv, TypeOK
<1>2. TypeOK'
  BY DEF Inv, TypeOK
<1>3. OneCycle'
  BY <1>1, Parameters DEF Inv, OneCycle
<1>0. /\ asked' = asked /\ stored' = stored
      /\ \A o \in Orders : orders[o].cursor \in Nat
  BY DEF Inv, TypeOK, OrderTypes
<1>4. Grows
  BY <1>0 DEF Grows
<1>5. \A i \in Jobs : SnapshotAsked(i)' /\ TodoAsked(i)'
  <2> TAKE i \in Jobs
  <2>1. CASE i = j
    BY <1>1, <2>1 DEF SnapshotAsked, TodoAsked
  <2>2. CASE i # j
    BY <1>1, <1>2, <1>4, <2>2, Resting
  <2> QED
    BY <2>1, <2>2
<1>6. CursorsAsked'
  <2>1. EvaluatedWasAsked'
    BY <1>0 DEF Inv, CursorsAsked, EvaluatedWasAsked
  <2> QED
    BY <1>5, <2>1 DEF Inv, CursorsAsked
<1>7. JobKnowsMost'
  <2>1. \A o \in Orders : Knows(stored, orders[o].known)'
    BY <1>0 DEF Inv, JobKnowsMost, Knows
  <2>2. ASSUME NEW i \in Jobs, jobs'[i].pc = "evaluate"
        PROVE  /\ jobs'[i] = jobs[i] /\ jobs[i].known \in Knowledge
               /\ Knows(stored, jobs[i].known)'
               /\ \A o \in Orders : Knows(jobs[i].known, orders[o].known)'
    <3>1. i # j /\ jobs'[i] = jobs[i]
      BY <1>1, <2>2
    <3> QED
      BY <1>0, <2>2, <3>1 DEF Inv, JobKnowsMost, Knows
  <2> QED
    BY <2>1, <2>2 DEF JobKnowsMost
<1> QED
  BY <1>2, <1>3, <1>6, <1>7 DEF Inv

(***************************************************************************)
(* The steps of the API and of time: jobs only read orders when they step. *)
(***************************************************************************)
LEMMA ApiStep ==
  ASSUME Inv, Tick \/ Api
  PROVE  Inv'
<1>1. CASE Tick
  BY <1>1 DEF Tick, Inv, TypeOK, OneCycle, CursorsAsked, EvaluatedWasAsked, SnapshotAsked, TodoAsked,
              Answered, JobKnowsMost, Knows
<1>2. ASSUME Api PROVE Inv'
  <2>1. UNCHANGED <<now, lock, asked, stored, jobs>>
    BY <1>2 DEF Api, DecideOrder, CommitOrder, CancelOrder, FreezeOrder
  <2>2. PICK o \in Orders :
          \/ /\ orders[o].status = "absent" /\ now < UntilOf[o]
             /\ orders' = [orders EXCEPT ![o].status = "deciding", ![o].start = now, ![o].cursor = now]
          \/ /\ orders[o].status # "absent"
             /\ \E s \in {"active", "frozen", "canceled"} : orders' = [orders EXCEPT ![o].status = s]
    BY <1>2 DEF Api, DecideOrder, CommitOrder, CancelOrder, FreezeOrder, SetStatus
  <2>3. orders' \in [Orders -> OrderTypes]
    BY <2>2 DEF Inv, TypeOK, OrderTypes, Statuses, Ended
  <2>4. TypeOK' /\ OneCycle'
    BY <2>1, <2>3 DEF Inv, TypeOK, OneCycle
  <2>5. \A p \in Orders : /\ orders[p].status # "absent" => /\ orders'[p].status # "absent"
                                                          /\ orders'[p].cursor = orders[p].cursor
                          /\ orders'[p].known = orders[p].known
                          /\ \/ orders'[p].start = orders[p].start /\ orders'[p].cursor = orders[p].cursor
                             \/ /\ orders'[p].start = now /\ orders'[p].cursor = now
                                /\ now < UntilOf[p]
    BY <2>2 DEF Inv, TypeOK, OrderTypes
  <2>6. Grows
    BY <2>1, <2>5 DEF Grows, Inv, TypeOK, OrderTypes
  <2>7. \A i \in Jobs : SnapshotAsked(i)' /\ TodoAsked(i)'
    BY <2>1, <2>4, <2>6, Resting
  <2>8. CursorsAsked'
    <3>1. now \in Nat /\ \A p \in Orders : UntilOf[p] \in Nat
      BY Parameters DEF Inv, TypeOK
    <3>2. EvaluatedWasAsked'
      BY <2>1, <2>5, <3>1 DEF Inv, CursorsAsked, EvaluatedWasAsked
    <3> QED
      BY <2>5, <2>7, <3>1, <3>2 DEF Inv, CursorsAsked
  <2>9. JobKnowsMost'
    BY <2>1, <2>5 DEF Inv, JobKnowsMost, Knows
  <2> QED
    BY <2>4, <2>8, <2>9 DEF Inv
<1> QED
  BY <1>1, <1>2

(***************************************************************************)
(* A job reads the cursors of the open orders, under the lock.             *)
(***************************************************************************)
LEMMA TryLockStep ==
  ASSUME Inv, NEW j \in Jobs, TryLock(j)
  PROVE  Inv'
<1> DEFINE open == InState("active")
           read == {[order |-> o, from |-> orders[o].cursor] : o \in open}
           feeds == {FeedOf[o] : o \in open}
<1>0. NotRunning \in JobTypes /\ NotRunning.pc = "idle"
  BY DEF NotRunning, JobTypes, Phases
<1>1. CASE lock # None
  <2>1. jobs' = [jobs EXCEPT ![j] = NotRunning] /\ UNCHANGED <<now, lock, asked, stored, orders>>
    BY <1>1 DEF TryLock
  <2> QED
    BY <1>0, <2>1, ControlStep DEF Inv, TypeOK
<1>2. CASE lock = None
  <2>1. /\ lock' = j /\ UNCHANGED <<now, asked, stored, orders>>
        /\ jobs' = [jobs EXCEPT ![j] = [@ EXCEPT !.pc = "ingest", !.cursors = read, !.feeds = feeds]]
    BY <1>2 DEF TryLock
  <2>2. /\ read \in SUBSET [order : Orders, from : Nat] /\ feeds \in SUBSET Feeds
        /\ open \subseteq Orders
    BY Parameters DEF Inv, TypeOK, OrderTypes, InState
  <2> DEFINE job == [jobs[j] EXCEPT !.pc = "ingest", !.cursors = read, !.feeds = feeds]
  <2>3. job \in JobTypes /\ job.pc = "ingest" /\ job.cursors = read /\ job.feeds = feeds
    <3> HIDE DEF read, feeds
    <3> QED
      BY <2>2 DEF Inv, TypeOK, JobTypes, Phases
  <2>4. jobs'[j] = job /\ \A i \in Jobs \ {j} : jobs'[i] = jobs[i]
    BY <2>1 DEF Inv, TypeOK
  <2>5. TypeOK'
    <3> HIDE DEF job
    <3> QED
      BY <2>1, <2>3, <2>4 DEF Inv, TypeOK
  <2>6. OneCycle'
    BY <1>2, <2>1, <2>4, Parameters DEF Inv, OneCycle
  <2>7. \A c \in read : orders[c.order].status # "absent" /\ c.from = orders[c.order].cursor
                        /\ FeedOf[c.order] \in feeds
    BY DEF InState
  <2>8. \A o \in Orders : orders[o].cursor \in Nat
    BY DEF Inv, TypeOK, OrderTypes
  <2>9. \A i \in Jobs : SnapshotAsked(i)' /\ TodoAsked(i)'
    <3> TAKE i \in Jobs
    <3>1. CASE i = j
      <4>1. \A c \in read : c.from <= orders[c.order].cursor
        BY <2>2, <2>7, <2>8
      <4> HIDE DEF job, read, feeds
      <4> QED
        BY <2>1, <2>3, <2>4, <2>7, <3>1, <4>1 DEF SnapshotAsked, TodoAsked
    <3>2. CASE i # j
      <4>1. Grows
        BY <2>1, <2>8 DEF Grows
      <4> QED
        BY <2>4, <2>5, <3>2, <4>1, Resting
    <3> QED
      BY <3>1, <3>2
  <2>10. CursorsAsked'
    BY <2>1, <2>9 DEF Inv, CursorsAsked, EvaluatedWasAsked
  <2>11. JobKnowsMost'
    <3>1. \A i \in Jobs : jobs'[i].pc = "evaluate" => jobs'[i] = jobs[i]
      <4> HIDE DEF job
      <4> QED
        BY <2>3, <2>4
    <3> QED
      BY <2>1, <3>1 DEF Inv, JobKnowsMost, Knows
  <2> QED
    BY <2>5, <2>6, <2>10, <2>11 DEF Inv
<1> QED
  BY <1>1, <1>2

(***************************************************************************)
(* A provider answers for every minute that an order of the feed waits for.*)
(***************************************************************************)
LEMMA IngestStep ==
  ASSUME Inv, NEW j \in Jobs, NEW f \in Feeds, Ingest(j, f)
  PROVE  Inv'
<1> DEFINE froms == {c.from : c \in {d \in jobs[j].cursors : FeedOf[d.order] = f}}
           job == [jobs[j] EXCEPT !.feeds = @ \ {f}]
<1>1. /\ jobs[j].pc = "ingest" /\ UNCHANGED <<now, lock, orders>>
      /\ asked' = [asked EXCEPT ![f] = @ \cup Wanted(j, f)]
      /\ jobs' = [jobs EXCEPT ![j] = job]
  BY DEF Ingest
<1>2. PICK minutes \in SUBSET Wanted(j, f) : stored' = [stored EXCEPT ![f] = @ \cup minutes]
  BY DEF Ingest
<1>3. Wanted(j, f) \in SUBSET Nat
  BY DEF Wanted, Minutes
<1>4. /\ job \in JobTypes /\ job.pc = "ingest" /\ job.feeds = jobs[j].feeds \ {f}
      /\ job.cursors = jobs[j].cursors /\ job.failures = jobs[j].failures
      /\ job.marketNow = jobs[j].marketNow /\ job.known = jobs[j].known
  BY <1>1 DEF Inv, TypeOK, JobTypes
<1> HIDE DEF job
<1>5. jobs'[j] = job /\ \A i \in Jobs \ {j} : jobs'[i] = jobs[i]
  BY <1>1 DEF Inv, TypeOK
<1>6. TypeOK'
  <2>1. asked' \in Knowledge /\ stored' \in Knowledge
    BY <1>1, <1>2, <1>3 DEF Inv, TypeOK, Knowledge
  <2> QED
    BY <1>1, <1>4, <2>1 DEF Inv, TypeOK
<1>7. OneCycle'
  BY <1>1, <1>4, <1>5 DEF Inv, OneCycle
<1>8. /\ \A g \in Feeds : asked[g] \subseteq asked'[g] /\ stored[g] \subseteq stored'[g]
      /\ Wanted(j, f) \subseteq asked'[f]
  BY <1>1, <1>2 DEF Inv, TypeOK, Knowledge
<1>9. Grows
  BY <1>1, <1>8 DEF Grows, Inv, TypeOK, OrderTypes
<1>10. ASSUME NEW c \in jobs[j].cursors, FeedOf[c.order] = f
       PROVE  Answered(f, c.from, jobs[j].marketNow)'
  <2>1. froms \in SUBSET Nat /\ c.from \in froms
    BY <1>10 DEF Inv, TypeOK, JobTypes
  <2>2. Min(froms) \in Nat /\ Min(froms) <= c.from /\ c.from \in Nat /\ jobs[j].marketNow \in Nat
    BY <2>1, MinIsLeast DEF Inv, TypeOK, JobTypes
  <2>3. Wanted(j, f) = Minutes \cap (Min(froms)..(jobs[j].marketNow - 1))
    BY DEF Wanted
  <2> HIDE DEF froms
  <2>4. \A m \in Nat : c.from <= m /\ m < jobs[j].marketNow /\ m < LastClose => m \in Wanted(j, f)
    BY <2>2, <2>3, Parameters DEF Minutes
  <2> QED
    BY <1>4, <1>5, <1>8, <2>4 DEF Answered
<1>11. \A i \in Jobs : SnapshotAsked(i)' /\ TodoAsked(i)'
  <2> TAKE i \in Jobs
  <2>1. CASE i = j
    <3>1. \A c \in jobs[j].cursors : c.order \in Orders /\ c.from \in Nat /\ FeedOf[c.order] \in Feeds
      BY Parameters DEF Inv, TypeOK, JobTypes
    <3>2. \A g \in Feeds, from \in Nat :
            Answered(g, from, jobs[j].marketNow) => Answered(g, from, jobs[j].marketNow)'
      BY <1>4, <1>5, <1>8 DEF Answered
    <3>3. SnapshotAsked(j)
      BY DEF Inv, CursorsAsked
    <3>4. ASSUME NEW c \in jobs[j].cursors
          PROVE  FeedOf[c.order] \in job.feeds \cup job.failures
                   \/ Answered(FeedOf[c.order], c.from, jobs[j].marketNow)'
      BY <1>1, <1>4, <1>10, <3>1, <3>2, <3>3 DEF SnapshotAsked
    <3>5. SnapshotAsked(j)'
      BY <1>1, <1>4, <1>5, <3>3, <3>4 DEF SnapshotAsked
    <3> QED
      BY <1>4, <1>5, <2>1, <3>5 DEF TodoAsked
  <2>2. CASE i # j
    BY <1>5, <1>6, <1>9, <2>2, Resting
  <2> QED
    BY <2>1, <2>2
<1>12. CursorsAsked'
  <2>1. EvaluatedWasAsked'
    BY <1>1, <1>8, Parameters DEF Inv, CursorsAsked, EvaluatedWasAsked
  <2> QED
    BY <1>1, <1>11, <2>1 DEF Inv, CursorsAsked
<1>13. JobKnowsMost'
  <2>1. \A k : Knows(stored, k) => Knows(stored, k)'
    BY <1>8 DEF Knows
  <2>2. \A i \in Jobs : jobs'[i].pc = "evaluate" => jobs'[i] = jobs[i]
    BY <1>4, <1>5
  <2> QED
    BY <1>1, <1>8, <2>2 DEF Inv, JobKnowsMost, Knows
<1> QED
  BY <1>6, <1>7, <1>12, <1>13 DEF Inv

(***************************************************************************)
(* A feed that fails is left out, and its orders keep their cursors.       *)
(***************************************************************************)
LEMMA IngestFailsStep ==
  ASSUME Inv, NEW j \in Jobs, NEW f \in Feeds, IngestFails(j, f)
  PROVE  Inv'
<1> DEFINE job == [jobs[j] EXCEPT !.feeds = @ \ {f}, !.failures = @ \cup {f}]
<1>1. /\ jobs[j].pc = "ingest" /\ UNCHANGED <<now, lock, asked, stored, orders>>
      /\ jobs' = [jobs EXCEPT ![j] = job]
  BY DEF IngestFails
<1>2. /\ job \in JobTypes /\ job.pc = "ingest"
      /\ job.feeds \cup job.failures = jobs[j].feeds \cup jobs[j].failures \cup {f}
      /\ job.cursors = jobs[j].cursors /\ job.marketNow = jobs[j].marketNow
  BY <1>1 DEF Inv, TypeOK, JobTypes
<1> HIDE DEF job
<1>3. jobs'[j] = job /\ \A i \in Jobs \ {j} : jobs'[i] = jobs[i]
  BY <1>1 DEF Inv, TypeOK
<1>4. TypeOK' /\ OneCycle'
  BY <1>1, <1>2, <1>3 DEF Inv, TypeOK, OneCycle
<1>5. \A i \in Jobs : SnapshotAsked(i)' /\ TodoAsked(i)'
  <2> TAKE i \in Jobs
  <2>1. CASE i = j
    BY <1>1, <1>2, <1>3, <2>1 DEF Inv, CursorsAsked, SnapshotAsked, TodoAsked, Answered
  <2>2. CASE i # j
    <3>1. Grows
      BY <1>1 DEF Grows, Inv, TypeOK, OrderTypes
    <3> QED
      BY <1>3, <1>4, <2>2, <3>1, Resting
  <2> QED
    BY <2>1, <2>2
<1>6. CursorsAsked'
  BY <1>1, <1>5 DEF Inv, CursorsAsked, EvaluatedWasAsked
<1>7. JobKnowsMost'
  <2>1. \A i \in Jobs : jobs'[i].pc = "evaluate" => jobs'[i] = jobs[i]
    BY <1>2, <1>3
  <2> QED
    BY <1>1, <2>1 DEF Inv, JobKnowsMost, Knows
<1> QED
  BY <1>4, <1>6, <1>7 DEF Inv

(***************************************************************************)
(* The instant of knowledge is later than every answer, and the orders to  *)
(* evaluate are those whose feed answered.                                 *)
(***************************************************************************)
LEMMA AcquireStep ==
  ASSUME Inv, NEW j \in Jobs, AcquireDataAsOf(j)
  PROVE  Inv'
<1> DEFINE todo == {c.order : c \in {d \in jobs[j].cursors : FeedOf[d.order] \notin jobs[j].failures}}
           job == [jobs[j] EXCEPT !.pc = "evaluate", !.known = stored, !.cursors = {}, !.todo = todo]
<1>1. /\ jobs[j].pc = "ingest" /\ jobs[j].feeds = {}
      /\ UNCHANGED <<now, lock, asked, stored, orders>>
      /\ jobs' = [jobs EXCEPT ![j] = job]
  BY DEF AcquireDataAsOf
<1>2. todo \in SUBSET Orders
  BY DEF Inv, TypeOK, JobTypes
<1>3. /\ job \in JobTypes /\ job.pc = "evaluate" /\ job.known = stored /\ job.todo = todo
      /\ job.marketNow = jobs[j].marketNow
  <2> HIDE DEF todo
  <2> QED
    BY <1>2 DEF Inv, TypeOK, JobTypes, Phases
<1>4. ASSUME NEW o \in todo
      PROVE  /\ orders[o].status # "absent"
             /\ Answered(FeedOf[o], orders[o].cursor, jobs[j].marketNow)
  <2>1. PICK c \in jobs[j].cursors : FeedOf[c.order] \notin jobs[j].failures /\ o = c.order
    BY <1>4
  <2>2. /\ orders[o].status # "absent" /\ c.from <= orders[o].cursor
        /\ Answered(FeedOf[o], c.from, jobs[j].marketNow)
    BY <1>1, <2>1 DEF Inv, CursorsAsked, SnapshotAsked
  <2>3. c.from \in Nat /\ orders[o].cursor \in Nat
    BY <1>2, <2>1 DEF Inv, TypeOK, OrderTypes, JobTypes
  <2> QED
    BY <2>2, <2>3 DEF Answered
<1> HIDE DEF todo, job
<1>5. jobs'[j] = job /\ \A i \in Jobs \ {j} : jobs'[i] = jobs[i]
  BY <1>1 DEF Inv, TypeOK
<1>6. TypeOK' /\ OneCycle'
  BY <1>1, <1>3, <1>5 DEF Inv, TypeOK, OneCycle
<1>7. \A i \in Jobs : SnapshotAsked(i)' /\ TodoAsked(i)'
  <2> TAKE i \in Jobs
  <2>1. CASE i = j
    BY <1>1, <1>3, <1>4, <1>5, <2>1 DEF SnapshotAsked, TodoAsked, Answered
  <2>2. CASE i # j
    <3>1. Grows
      BY <1>1 DEF Grows, Inv, TypeOK, OrderTypes
    <3> QED
      BY <1>5, <1>6, <2>2, <3>1, Resting
  <2> QED
    BY <2>1, <2>2
<1>8. CursorsAsked'
  BY <1>1, <1>7 DEF Inv, CursorsAsked, EvaluatedWasAsked
<1>9. JobKnowsMost'
  <2>1. \A i \in Jobs \ {j} : jobs'[i].pc # "evaluate"
    BY <1>1, <1>5 DEF Inv, OneCycle
  <2>2. Knows(stored, stored) /\ stored \in Knowledge
    BY DEF Inv, TypeOK, Knows
  <2> QED
    BY <1>1, <1>3, <1>5, <2>1, <2>2 DEF Inv, JobKnowsMost, Knows
<1> QED
  BY <1>6, <1>8, <1>9 DEF Inv

(***************************************************************************)
(* An evaluation moves the cursor over minutes that were asked, with the   *)
(* knowledge of the only job that evaluates.                               *)
(***************************************************************************)
LEMMA EvaluateStep ==
  ASSUME Inv, NEW j \in Jobs, NEW o \in Orders, EvaluateOrder(j, o)
  PROVE  Inv'
<1> DEFINE end == SegmentEnd(j, o)
           job == [jobs[j] EXCEPT !.todo = @ \ {o}]
<1>1. /\ jobs[j].pc = "evaluate" /\ o \in jobs[j].todo
      /\ UNCHANGED <<now, lock, asked, stored>>
      /\ jobs' = [jobs EXCEPT ![j] = job]
  BY DEF EvaluateOrder, Done
<1>2. /\ job \in JobTypes /\ job.pc = "evaluate" /\ job.todo \subseteq jobs[j].todo
      /\ job.marketNow = jobs[j].marketNow /\ job.known = jobs[j].known
  BY <1>1 DEF Inv, TypeOK, JobTypes
<1>3. \/ UNCHANGED orders
      \/ /\ end > orders[o].cursor
         /\ \E s \in {"active", "closed"} :
              orders' = [orders EXCEPT ![o] = [@ EXCEPT !.cursor = end, !.known = jobs[j].known,
                                                        !.status = s]]
  <2>1. CASE UNCHANGED orders
    BY <2>1
  <2>2. ASSUME orders[o].status = "active", end > orders[o].cursor, NEW ends \in BOOLEAN,
               orders' = [orders EXCEPT ![o].cursor = end, ![o].known = jobs[j].known,
                                        ![o].status = IF ends THEN "closed" ELSE @]
        PROVE  \E s \in {"active", "closed"} :
                 orders' = [orders EXCEPT ![o] = [@ EXCEPT !.cursor = end, !.known = jobs[j].known,
                                                           !.status = s]]
    <3>1. CASE ends
      BY <2>2, <3>1
    <3>2. CASE ~ends
      BY <2>2, <3>2 DEF Inv, TypeOK, OrderTypes
    <3> QED
      BY <3>1, <3>2
  <2> QED
    BY <2>1, <2>2 DEF EvaluateOrder
<1>4. /\ end \in Nat /\ jobs[j].known \in Knowledge
      /\ end > orders[o].cursor => end <= UntilOf[o] /\ end <= jobs[j].marketNow
  BY <1>1, SegmentEndBounds DEF Inv, CursorsAsked, JobKnowsMost
<1> HIDE DEF job, end
<1>5. jobs'[j] = job /\ \A i \in Jobs \ {j} : jobs'[i] = jobs[i]
  BY <1>1 DEF Inv, TypeOK
<1>6. orders' \in [Orders -> OrderTypes]
  BY <1>3, <1>4 DEF Inv, TypeOK, OrderTypes, Statuses, Ended
<1>7. TypeOK' /\ OneCycle'
  BY <1>1, <1>2, <1>5, <1>6 DEF Inv, TypeOK, OneCycle
<1>8. \A p \in Orders :
        \/ orders'[p] = orders[p]
        \/ /\ p = o /\ orders'[p].start = orders[p].start /\ orders'[p].cursor = end
           /\ end > orders[p].cursor /\ orders'[p].known = jobs[j].known
           /\ orders'[p].status # "absent"
  <2>1. CASE UNCHANGED orders
    BY <2>1
  <2>2. ASSUME end > orders[o].cursor, NEW s \in {"active", "closed"},
               orders' = [orders EXCEPT ![o] = [@ EXCEPT !.cursor = end, !.known = jobs[j].known,
                                                         !.status = s]]
        PROVE  /\ \A p \in Orders \ {o} : orders'[p] = orders[p]
               /\ orders'[o].start = orders[o].start /\ orders'[o].cursor = end
               /\ orders'[o].known = jobs[j].known /\ orders'[o].status # "absent"
    BY <2>2 DEF Inv, TypeOK, OrderTypes
  <2> QED
    BY <1>3, <2>1, <2>2
<1>9. \A p \in Orders : orders[p].cursor \in Nat /\ orders[p].start \in Nat
                        /\ UntilOf[p] \in Nat /\ UntilOf[p] <= LastClose /\ LastClose \in Nat
  BY Parameters DEF Inv, TypeOK, OrderTypes
<1>10. Grows
  BY <1>1, <1>4, <1>8, <1>9 DEF Grows
<1>11. \A i \in Jobs : SnapshotAsked(i)' /\ TodoAsked(i)'
  <2> TAKE i \in Jobs
  <2>1. CASE i = j
    <3>1. ASSUME NEW p \in job.todo
          PROVE  (orders[p].status # "absent" /\ Answered(FeedOf[p], orders[p].cursor, jobs[j].marketNow))'
      <4>1. /\ p \in Orders /\ orders[p].status # "absent" /\ jobs[j].marketNow \in Nat
            /\ Answered(FeedOf[p], orders[p].cursor, jobs[j].marketNow)
        BY <1>1, <1>2 DEF Inv, TypeOK, JobTypes, CursorsAsked, TodoAsked
      <4>2. orders'[p].status # "absent" /\ orders[p].cursor <= orders'[p].cursor /\ orders'[p].cursor \in Nat
        BY <1>4, <1>8, <1>9, <4>1
      <4> QED
        BY <1>1, <1>2, <1>5, <1>9, <4>1, <4>2 DEF Answered
    <3> QED
      BY <1>2, <1>5, <2>1, <3>1 DEF SnapshotAsked, TodoAsked
  <2>2. CASE i # j
    BY <1>5, <1>7, <1>10, <2>2, Resting
  <2> QED
    BY <2>1, <2>2
<1>12. CursorsAsked'
  <2>1. \A p \in Orders : (orders[p].start <= orders[p].cursor /\ orders[p].cursor <= UntilOf[p])'
    BY <1>4, <1>8, <1>9 DEF Inv, CursorsAsked
  <2>2. Answered(FeedOf[o], orders[o].cursor, jobs[j].marketNow) /\ jobs[j].marketNow \in Nat
    BY <1>1 DEF Inv, TypeOK, JobTypes, CursorsAsked, TodoAsked
  <2>3. ASSUME NEW p \in Orders, NEW m \in orders'[p].start..(orders'[p].cursor - 1)
        PROVE  m \in asked'[FeedOf[p]]
    <3>1. CASE m \in orders[p].start..(orders[p].cursor - 1)
      BY <1>1, <3>1 DEF Inv, CursorsAsked, EvaluatedWasAsked
    <3>2. CASE m \notin orders[p].start..(orders[p].cursor - 1)
      <4>1. p = o /\ orders[p].cursor <= m /\ m < end /\ end > orders[p].cursor /\ m \in Nat
        BY <1>4, <1>8, <1>9, <2>3, <3>2
      <4> QED
        BY <1>1, <1>4, <1>9, <2>2, <4>1 DEF Answered
    <3> QED
      BY <3>1, <3>2
  <2>4. EvaluatedWasAsked'
    BY <2>3 DEF EvaluatedWasAsked
  <2> QED
    BY <1>11, <2>1, <2>4 DEF CursorsAsked
<1>13. JobKnowsMost'
  <2>1. \A i \in Jobs \ {j} : jobs'[i].pc # "evaluate"
    BY <1>1, <1>5 DEF Inv, OneCycle
  <2>2. /\ Knows(stored, jobs[j].known) /\ Knows(jobs[j].known, jobs[j].known)
        /\ \A p \in Orders : Knows(jobs[j].known, orders[p].known) /\ Knows(stored, orders[p].known)
    BY <1>1 DEF Inv, JobKnowsMost, Knows
  <2>3. \A p \in Orders : Knows(jobs[j].known, orders'[p].known) /\ Knows(stored, orders'[p].known)
    BY <1>8, <2>2
  <2> QED
    BY <1>1, <1>2, <1>4, <1>5, <2>1, <2>2, <2>3 DEF JobKnowsMost, Knows
<1> QED
  BY <1>7, <1>12, <1>13 DEF Inv

(***************************************************************************)
(* Every other step of a job leaves stores and cursors alone.              *)
(***************************************************************************)
LEMMA OtherSteps ==
  ASSUME Inv, NEW j \in Jobs,
         \/ Start(j) \/ Release(j) \/ SelectDueOrders(j) \/ EndOfDayOver(j) \/ Crash(j)
         \/ \E o \in Orders : FinalizeValidity(j, o) \/ (OrderFails(j, o) /\ jobs[j].pc = "expire")
  PROVE  Inv'
<1>0. NotRunning \in JobTypes /\ NotRunning.pc = "idle"
  BY DEF NotRunning, JobTypes, Phases
<1>1. /\ jobs[j] \in JobTypes /\ orders \in [Orders -> OrderTypes] /\ now \in Nat
      /\ \A o \in Orders : orders[o] \in OrderTypes
  BY DEF Inv, TypeOK
<1>2. CASE Start(j)
  <2>1. /\ jobs' = [jobs EXCEPT ![j] = [@ EXCEPT !.pc = "starting", !.marketNow = now]]
        /\ UNCHANGED <<now, lock, asked, stored, orders>>
    BY <1>2 DEF Start
  <2>2. /\ [jobs[j] EXCEPT !.pc = "starting", !.marketNow = now] \in JobTypes
        /\ [jobs[j] EXCEPT !.pc = "starting", !.marketNow = now].pc = "starting"
    BY <1>1 DEF JobTypes, Phases
  <2> QED
    BY <1>1, <2>1, <2>2, ControlStep
<1>3. CASE Release(j)
  <2>1. PICK r \in {NotRunning, [jobs[j] EXCEPT !.pc = "select", !.known = None]} :
          jobs' = [jobs EXCEPT ![j] = r]
    BY <1>3 DEF Release
  <2>2. r \in JobTypes /\ r.pc \notin {"ingest", "evaluate"}
    BY <1>0, <1>1 DEF JobTypes, Phases
  <2>3. /\ UNCHANGED <<now, asked, stored, orders>>
        /\ lock' = None /\ lock = j
    BY <1>3 DEF Release, Inv, OneCycle
  <2> QED
    BY <1>1, <2>1, <2>2, <2>3, ControlStep
<1>4. CASE SelectDueOrders(j)
  <2>1. PICK due \in SUBSET Orders : jobs' = [jobs EXCEPT ![j] = [@ EXCEPT !.pc = "expire", !.todo = due]]
    BY <1>4 DEF SelectDueOrders, InState
  <2>2. /\ [jobs[j] EXCEPT !.pc = "expire", !.todo = due] \in JobTypes
        /\ [jobs[j] EXCEPT !.pc = "expire", !.todo = due].pc = "expire"
    BY <1>1 DEF JobTypes, Phases
  <2>3. UNCHANGED <<now, lock, asked, stored, orders>>
    BY <1>4 DEF SelectDueOrders
  <2> QED
    BY <1>1, <2>1, <2>2, <2>3, ControlStep
<1>5. CASE EndOfDayOver(j)
  <2>1. jobs' = [jobs EXCEPT ![j] = NotRunning] /\ UNCHANGED <<now, lock, asked, stored, orders>>
    BY <1>5 DEF EndOfDayOver
  <2> QED
    BY <1>0, <1>1, <2>1, ControlStep
<1>6. CASE Crash(j)
  <2>1. /\ jobs' = [jobs EXCEPT ![j] = NotRunning] /\ UNCHANGED <<now, asked, stored, orders>>
        /\ lock' = IF lock = j THEN None ELSE lock
    BY <1>6 DEF Crash
  <2> QED
    BY <1>0, <1>1, <2>1, ControlStep
<1>7. ASSUME NEW o \in Orders, FinalizeValidity(j, o) \/ (OrderFails(j, o) /\ jobs[j].pc = "expire")
      PROVE  Inv'
  <2> DEFINE job == [jobs[j] EXCEPT !.todo = @ \ {o}]
  <2>1. /\ jobs[j].pc = "expire" /\ UNCHANGED <<now, lock, asked, stored>>
        /\ jobs' = [jobs EXCEPT ![j] = job]
        /\ UNCHANGED orders \/ orders' = [orders EXCEPT ![o].status = "expired"]
    <3>1. CASE FinalizeValidity(j, o)
      BY <3>1 DEF FinalizeValidity, Done, SetStatus
    <3>2. CASE OrderFails(j, o) /\ jobs[j].pc = "expire"
      BY <3>2 DEF OrderFails, Done
    <3> QED
      BY <1>7, <3>1, <3>2
  <2>2. job \in JobTypes /\ job.pc = "expire"
    BY <1>1, <2>1 DEF JobTypes
  <2>3. /\ orders' \in [Orders -> OrderTypes]
        /\ \A p \in Orders : /\ orders'[p].start = orders[p].start
                             /\ orders'[p].cursor = orders[p].cursor
                             /\ orders'[p].known = orders[p].known
                             /\ orders[p].status # "absent" => orders'[p].status # "absent"
    BY <1>1, <2>1 DEF OrderTypes, Statuses, Ended
  <2> HIDE DEF job
  <2> QED
    BY <1>1, <2>1, <2>2, <2>3, ControlStep
<1> QED
  BY <1>2, <1>3, <1>4, <1>5, <1>6, <1>7

(***************************************************************************)
(* An order that fails leaves the batch and keeps its cursor.              *)
(***************************************************************************)
LEMMA OrderFailsStep ==
  ASSUME Inv, NEW j \in Jobs, NEW o \in Orders, OrderFails(j, o), jobs[j].pc = "evaluate"
  PROVE  Inv'
<1> DEFINE job == [jobs[j] EXCEPT !.todo = @ \ {o}]
<1>1. UNCHANGED <<now, lock, asked, stored, orders>> /\ jobs' = [jobs EXCEPT ![j] = job]
  BY DEF OrderFails, Done
<1>2. /\ job \in JobTypes /\ job.pc = "evaluate" /\ job.todo \subseteq jobs[j].todo
      /\ job.marketNow = jobs[j].marketNow /\ job.known = jobs[j].known
  BY DEF Inv, TypeOK, JobTypes
<1> HIDE DEF job
<1>3. jobs'[j] = job /\ \A i \in Jobs \ {j} : jobs'[i] = jobs[i]
  BY <1>1 DEF Inv, TypeOK
<1>4. TypeOK' /\ OneCycle'
  BY <1>1, <1>2, <1>3 DEF Inv, TypeOK, OneCycle
<1>5. \A i \in Jobs : SnapshotAsked(i)' /\ TodoAsked(i)'
  <2> TAKE i \in Jobs
  <2>1. CASE i = j
    BY <1>1, <1>2, <1>3, <2>1 DEF Inv, CursorsAsked, SnapshotAsked, TodoAsked, Answered
  <2>2. CASE i # j
    <3>1. Grows
      BY <1>1 DEF Grows, Inv, TypeOK, OrderTypes
    <3> QED
      BY <1>3, <1>4, <2>2, <3>1, Resting
  <2> QED
    BY <2>1, <2>2
<1>6. CursorsAsked'
  BY <1>1, <1>5 DEF Inv, CursorsAsked, EvaluatedWasAsked
<1>7. JobKnowsMost'
  <2>1. \A i \in Jobs : jobs'[i].pc = jobs[i].pc /\ jobs'[i].known = jobs[i].known
    BY <1>2, <1>3
  <2> QED
    BY <1>1, <2>1 DEF Inv, JobKnowsMost, Knows
<1> QED
  BY <1>4, <1>6, <1>7 DEF Inv

(***************************************************************************)
(* Every step, of the API, of time or of a job, keeps the invariant.       *)
(***************************************************************************)
LEMMA InvStep ==
  ASSUME Inv, [Next]_vars
  PROVE  Inv'
<1>1. CASE UNCHANGED vars
  BY <1>1 DEF vars, Inv, TypeOK, OneCycle, CursorsAsked, EvaluatedWasAsked, SnapshotAsked, TodoAsked,
              Answered, JobKnowsMost, Knows
<1>2. CASE Tick \/ Api
  BY <1>2, ApiStep
<1>3. ASSUME NEW j \in Jobs, Start(j) \/ Progress(j) \/ Crash(j) PROVE Inv'
  BY <1>3, TryLockStep, IngestStep, AcquireStep, EvaluateStep, OtherSteps DEF Progress
<1>4. ASSUME NEW j \in Jobs, NEW f \in Feeds, IngestFails(j, f) PROVE Inv'
  BY <1>4, IngestFailsStep
<1>5. ASSUME NEW j \in Jobs, NEW o \in Orders, OrderFails(j, o) PROVE Inv'
  BY <1>5, OrderFailsStep, OtherSteps DEF OrderFails
<1> QED
  BY <1>1, <1>2, <1>3, <1>4, <1>5 DEF Next

(***************************************************************************)
(* Nothing has been asked, evaluated or known at first.                    *)
(***************************************************************************)
LEMMA InvInit == Init => Inv
<1> SUFFICES ASSUME Init PROVE Inv
  OBVIOUS
<1>1. TypeOK
  <2>1. [status |-> "absent", start |-> 0, cursor |-> 0, known |-> None] \in OrderTypes
    BY DEF OrderTypes, Statuses
  <2>2. NotRunning \in JobTypes
    BY DEF NotRunning, JobTypes, Phases
  <2> QED
    BY <2>1, <2>2 DEF Init, TypeOK, Knowledge
<1>2. \A j \in Jobs : jobs[j].pc = "idle"
  BY DEF Init, NotRunning
<1>3. \A o \in Orders : orders[o].start = 0 /\ orders[o].cursor = 0 /\ orders[o].known = None
  BY DEF Init
<1> QED
  BY <1>1, <1>2, <1>3, Parameters
     DEF Inv, OneCycle, CursorsAsked, EvaluatedWasAsked, SnapshotAsked, TodoAsked, JobKnowsMost, Knows

-----------------------------------------------------------------------------

(***************************************************************************)
(* Types, one cycle at a time, cursors asked and knowledge hold in every   *)
(* reachable state, for any orders, feeds, closes and crashes.             *)
(***************************************************************************)
THEOREM Invariance == Spec => []Inv
BY InvInit, InvStep, PTL DEF Spec

(***************************************************************************)
(* Every minute an order was evaluated over had been asked and answered,   *)
(* for any orders, feeds, closes and crashes.                              *)
(***************************************************************************)
THEOREM AskedFirst == Spec => []EvaluatedWasAsked
<1>1. Inv => EvaluatedWasAsked
  BY DEF Inv, CursorsAsked
<1> QED
  BY <1>1, Invariance, PTL

(***************************************************************************)
(* How a step changes orders: answers and cursors grow, a segment is       *)
(* recorded with what its job knows, and an order that becomes active was  *)
(* committed with its window still open.                                   *)
(***************************************************************************)
LEMMA OrdersStep ==
  ASSUME Inv, [Next]_vars
  PROVE  /\ Grows /\ now' \in Nat /\ now <= now'
         /\ \A o \in Orders :
              /\ \/ orders'[o].known = orders[o].known
                 \/ \E j \in Jobs : jobs[j].pc = "evaluate" /\ orders'[o].known = jobs[j].known
              /\ orders'[o].status = "active" => orders[o].status \in {"active", "deciding"}
<1> DEFINE Moved(o) ==
             /\ \/ orders'[o].known = orders[o].known
                \/ \E j \in Jobs : jobs[j].pc = "evaluate" /\ orders'[o].known = jobs[j].known
             /\ orders'[o].status = "active" => orders[o].status \in {"active", "deciding"}
           Same == UNCHANGED <<asked, stored, orders>>
           Goal == Grows /\ now' \in Nat /\ now <= now' /\ \A o \in Orders : Moved(o)
<1>0. /\ now \in Nat /\ orders \in [Orders -> OrderTypes]
      /\ \A o \in Orders : /\ orders[o] \in OrderTypes
                           /\ orders[o].cursor \in Nat /\ UntilOf[o] \in Nat
                           /\ orders[o].cursor <= UntilOf[o]
  BY Parameters DEF Inv, TypeOK, OrderTypes, CursorsAsked
<1>1. ASSUME Same, now' = now \/ now' = now + 1 PROVE Goal
  BY <1>0, <1>1 DEF Grows
<1>2. CASE UNCHANGED vars
  BY <1>1, <1>2 DEF vars
<1>3. CASE Tick
  BY <1>1, <1>3 DEF Tick
<1>4. ASSUME NEW o \in Orders, DecideOrder(o) \/ CommitOrder(o) \/ CancelOrder(o) \/ FreezeOrder(o)
      PROVE  Goal
  <2>1. /\ UNCHANGED <<now, asked, stored>>
        /\ \/ /\ orders[o].status = "absent"
              /\ orders' = [orders EXCEPT ![o].status = "deciding", ![o].start = now, ![o].cursor = now]
           \/ /\ orders[o].status = "deciding" /\ orders' = [orders EXCEPT ![o].status = "active"]
           \/ \E s \in {"frozen", "canceled"} :
                /\ orders[o].status # "absent" /\ orders' = [orders EXCEPT ![o].status = s]
    BY <1>4 DEF DecideOrder, CommitOrder, CancelOrder, FreezeOrder, SetStatus
  <2> QED
    BY <1>0, <2>1 DEF Grows, OrderTypes
<1>5. ASSUME NEW j \in Jobs, NEW f \in Feeds, Ingest(j, f) PROVE Goal
  <2>1. UNCHANGED <<now, orders>> /\ asked' = [asked EXCEPT ![f] = @ \cup Wanted(j, f)]
    BY <1>5 DEF Ingest
  <2>2. PICK minutes \in SUBSET Wanted(j, f) : stored' = [stored EXCEPT ![f] = @ \cup minutes]
    BY <1>5 DEF Ingest
  <2>3. Grows
    BY <1>0, <2>1, <2>2 DEF Grows, Inv, TypeOK, Knowledge
  <2> QED
    BY <1>0, <2>1, <2>3
<1>6. ASSUME NEW j \in Jobs, NEW o \in Orders, EvaluateOrder(j, o) PROVE Goal
  <2>1. UNCHANGED <<now, asked, stored>> /\ jobs[j].pc = "evaluate"
    BY <1>6 DEF EvaluateOrder
  <2>2. CASE UNCHANGED orders
    BY <1>1, <2>1, <2>2
  <2>3. ASSUME orders[o].status = "active", SegmentEnd(j, o) > orders[o].cursor, NEW ends \in BOOLEAN,
               orders' = [orders EXCEPT ![o].cursor = SegmentEnd(j, o), ![o].known = jobs[j].known,
                                        ![o].status = IF ends THEN "closed" ELSE @]
        PROVE  Goal
    <3>1. SegmentEnd(j, o) \in Nat
      BY <1>0, <2>1, SegmentEndBounds DEF Inv
    <3>2. /\ \A p \in Orders \ {o} : orders'[p] = orders[p]
          /\ orders'[o].cursor = SegmentEnd(j, o) /\ orders'[o].known = jobs[j].known
          /\ orders'[o].status \in {"active", "closed"}
      BY <1>0, <2>3 DEF OrderTypes
    <3>3. Grows
      BY <1>0, <2>1, <2>3, <3>1, <3>2 DEF Grows
    <3> QED
      BY <1>0, <2>1, <2>3, <3>2, <3>3
  <2> QED
    BY <1>6, <2>2, <2>3 DEF EvaluateOrder
<1>7. ASSUME NEW j \in Jobs, NEW o \in Orders, FinalizeValidity(j, o) PROVE Goal
  <2>1. /\ UNCHANGED <<now, asked, stored>>
        /\ \/ UNCHANGED orders
           \/ orders[o].status = "active" /\ orders' = [orders EXCEPT ![o].status = "expired"]
    BY <1>7 DEF FinalizeValidity, SetStatus
  <2> QED
    BY <1>0, <2>1 DEF Grows, OrderTypes
<1>8. ASSUME NEW j \in Jobs,
             \/ Start(j) \/ TryLock(j) \/ AcquireDataAsOf(j) \/ Release(j) \/ SelectDueOrders(j)
             \/ EndOfDayOver(j) \/ Crash(j)
             \/ \E f \in Feeds : IngestFails(j, f)
             \/ \E o \in Orders : OrderFails(j, o)
      PROVE  Goal
  BY <1>1, <1>8 DEF Start, TryLock, AcquireDataAsOf, Release, SelectDueOrders, EndOfDayOver, Crash,
                    IngestFails, OrderFails
<1> QED
  BY <1>2, <1>3, <1>4, <1>5, <1>6, <1>7, <1>8 DEF Next, Api, Progress

(***************************************************************************)
(* The knowledge an order is evaluated with never goes back: only the      *)
(* holder of the lock evaluates, and it took its instant after every       *)
(* earlier holder.                                                         *)
(***************************************************************************)
THEOREM KnowledgeGrows == Spec => KnowledgeAccumulates
<1> DEFINE Grown == \A o \in Orders :
                      orders'[o].known # None => Knows(orders'[o].known, orders[o].known)
<1>1. ASSUME Inv, [Next]_vars
      PROVE  Grown
  <2> SUFFICES ASSUME NEW o \in Orders
               PROVE  Knows(orders'[o].known, orders[o].known)
    OBVIOUS
  <2>1. Knows(orders[o].known, orders[o].known)
    BY DEF Knows
  <2>2. \A j \in Jobs : jobs[j].pc = "evaluate" => Knows(jobs[j].known, orders[o].known)
    BY <1>1 DEF Inv, JobKnowsMost
  <2> QED
    BY <1>1, <2>1, <2>2, OrdersStep
<1>2. Inv /\ [Next]_vars => [Grown]_vars
  BY <1>1
<1> QED
  BY <1>2, Invariance, PTL DEF Spec, KnowledgeAccumulates

-----------------------------------------------------------------------------
(* The end of validity, when no order fails on its own and no creation
   commits later than the minute it decided in. *)

(***************************************************************************)
(* What a step leaves of the orders' side of DueIsSeen: an order that is   *)
(* seen stays so, and one that becomes active is not due yet.              *)
(***************************************************************************)
LEMMA DueOrdersStep ==
  ASSUME Inv, Inv', DueIsSeen, ~SlowCommits, [Next]_vars
  PROVE  /\ \A o \in Orders : Seen(o) => Seen(o)'
         /\ \A o \in Orders : orders'[o].status = "active" =>
              orders[o].status = "active" \/ now < UntilOf[o]
         /\ \A o \in Orders : Decided(o)' /\ Expired(o)'
<1>0. /\ now \in Nat /\ orders \in [Orders -> OrderTypes]
      /\ \A o \in Orders : /\ orders[o] \in OrderTypes /\ UntilOf[o] \in Nat
                           /\ orders[o].cursor \in Nat /\ orders'[o].cursor \in Nat
                           /\ orders'[o].cursor <= UntilOf[o]
  BY Parameters DEF Inv, TypeOK, OrderTypes, CursorsAsked
<1>1. \A o \in Orders : Seen(o) => Seen(o)'
  BY <1>0, OrdersStep DEF Grows, Seen
<1>2. \A o \in Orders : orders'[o].status = "active" => orders[o].status = "active" \/ now < UntilOf[o]
  BY OrdersStep DEF DueIsSeen, Decided
<1> DEFINE Goal == \A o \in Orders : Decided(o)' /\ Expired(o)'
<1>3. \A o \in Orders : Decided(o) /\ Expired(o)
  BY DEF DueIsSeen
<1>4. ASSUME now' = now,
             \A o \in Orders : /\ orders'[o].status = "deciding" =>
                                   orders[o].status = "deciding" /\ orders'[o].start = orders[o].start
                               /\ orders'[o].status = "expired" => orders[o].status = "expired" \/ Seen(o)
      PROVE  Goal
  BY <1>1, <1>3, <1>4 DEF Decided, Expired
<1>5. ASSUME UNCHANGED vars PROVE Goal
  BY <1>4, <1>5 DEF vars
<1>6. ASSUME Tick PROVE Goal
  <2>1. /\ UNCHANGED orders /\ \A o \in Orders : orders[o].status # "deciding"
    BY <1>6 DEF Tick, InState
  <2> QED
    BY <1>1, <1>3, <2>1 DEF Decided, Expired
<1>7. ASSUME NEW o \in Orders, DecideOrder(o) PROVE Goal
  <2>1. /\ now' = now /\ now < UntilOf[o] /\ \A p \in Orders \ {o} : orders'[p] = orders[p]
        /\ orders'[o].start = now /\ orders'[o].status = "deciding"
    BY <1>0, <1>7 DEF DecideOrder, OrderTypes
  <2> QED
    BY <1>1, <1>3, <2>1 DEF Decided, Expired
<1>8. ASSUME NEW o \in Orders, CommitOrder(o) \/ CancelOrder(o) \/ FreezeOrder(o) PROVE Goal
  <2>1. PICK s \in {"active", "frozen", "canceled"} :
          now' = now /\ orders' = [orders EXCEPT ![o].status = s]
    BY <1>8 DEF CommitOrder, CancelOrder, FreezeOrder, SetStatus
  <2>2. \A p \in Orders \ {o} : orders'[p] = orders[p]
    BY <1>0, <2>1
  <2>3. orders'[o].status = s
    BY <1>0, <2>1 DEF OrderTypes
  <2> QED
    BY <1>4, <2>1, <2>2, <2>3
<1>9. ASSUME NEW j \in Jobs, NEW o \in Orders, EvaluateOrder(j, o) PROVE Goal
  <2>1. now' = now
    BY <1>9 DEF EvaluateOrder
  <2>2. CASE UNCHANGED orders
    BY <1>4, <2>1, <2>2
  <2>3. ASSUME NEW ends \in BOOLEAN, orders[o].status = "active",
               orders' = [orders EXCEPT ![o].cursor = SegmentEnd(j, o), ![o].known = jobs[j].known,
                                        ![o].status = IF ends THEN "closed" ELSE @]
        PROVE  Goal
    <3>1. /\ \A p \in Orders \ {o} : orders'[p] = orders[p]
          /\ orders'[o].status \in {"active", "closed"}
      BY <1>0, <2>3 DEF OrderTypes
    <3> QED
      BY <1>4, <2>1, <3>1
  <2> QED
    BY <1>9, <2>2, <2>3 DEF EvaluateOrder
<1>10. ASSUME NEW j \in Jobs, NEW o \in Orders, FinalizeValidity(j, o) PROVE Goal
  <2>1. now' = now /\ Seen(o)
    BY <1>10 DEF FinalizeValidity, DueIsSeen, EndOfDaySees
  <2>2. CASE UNCHANGED orders
    BY <1>4, <2>1, <2>2
  <2>3. CASE orders' = [orders EXCEPT ![o].status = "expired"]
    <3>1. (\A p \in Orders \ {o} : orders'[p] = orders[p]) /\ orders'[o].status = "expired"
      BY <1>0, <2>3 DEF OrderTypes
    <3> QED
      BY <1>4, <2>1, <3>1
  <2> QED
    BY <1>10, <2>2, <2>3 DEF FinalizeValidity, SetStatus
<1>11. ASSUME NEW j \in Jobs,
              \/ Start(j) \/ TryLock(j) \/ AcquireDataAsOf(j) \/ Release(j) \/ SelectDueOrders(j)
              \/ EndOfDayOver(j) \/ Crash(j)
              \/ \E f \in Feeds : Ingest(j, f)
              \/ \E f \in Feeds : IngestFails(j, f)
              \/ \E o \in Orders : OrderFails(j, o)
       PROVE  Goal
  <2>1. UNCHANGED <<now, orders>>
    BY <1>11 DEF Start, TryLock, AcquireDataAsOf, Release, SelectDueOrders, EndOfDayOver, Crash,
                 Ingest, IngestFails, OrderFails
  <2> QED
    BY <1>4, <2>1
<1> HIDE DEF Goal
<1>12. Goal
  BY <1>5, <1>6, <1>7, <1>8, <1>9, <1>10, <1>11 DEF Next, Api, Progress
<1> QED
  BY <1>1, <1>2, <1>12 DEF Goal

(***************************************************************************)
(* A job that does not step keeps what its end of day has seen.            *)
(***************************************************************************)
LEMMA RestingSees ==
  ASSUME Inv, Inv', DueIsSeen, ~SlowCommits, [Next]_vars, NEW i \in Jobs, jobs'[i] = jobs[i]
  PROVE  EndOfDaySees(i)'
<1>1. /\ now \in Nat /\ now' \in Nat /\ now <= now' /\ jobs[i].marketNow \in Nat
      /\ \A o \in Orders : UntilOf[o] \in Nat
      /\ EndOfDaySees(i)
  BY OrdersStep, Parameters DEF Inv, TypeOK, JobTypes, DueIsSeen
<1>2. jobs[i].marketNow <= now
  BY <1>1 DEF EndOfDaySees
<1>3. \A o \in Orders : Due(i, o)' => Due(i, o)
  BY <1>1, <1>2, DueOrdersStep DEF Due
<1>4. \A o \in Orders : Seen(o) => Seen(o)'
  BY DueOrdersStep
<1>5. jobs[i].todo \subseteq Orders
  BY DEF Inv, TypeOK, JobTypes
<1> QED
  BY <1>1, <1>2, <1>3, <1>4, <1>5 DEF EndOfDaySees

(***************************************************************************)
(* The end of day evaluates a due order of its snapshot up to its close,   *)
(* and only such an order is finalized.                                    *)
(***************************************************************************)
LEMMA DueStep ==
  ASSUME Inv, Inv', DueIsSeen, ~OrderErrors, ~SlowCommits, [Next]_vars
  PROVE  DueIsSeen'
<1> DEFINE Goal == \A i \in Jobs : EndOfDaySees(i)'
<1>0. /\ now \in Nat /\ jobs \in [Jobs -> JobTypes] /\ \A i \in Jobs : EndOfDaySees(i)
      /\ \A o \in Orders : UntilOf[o] \in Nat
  BY Parameters DEF Inv, TypeOK, DueIsSeen
<1>1. ASSUME NEW j \in Jobs, \A i \in Jobs \ {j} : jobs'[i] = jobs[i], EndOfDaySees(j)'
      PROVE  Goal
  BY <1>1, RestingSees
<1>2. ASSUME UNCHANGED jobs PROVE Goal
  BY <1>2, RestingSees
<1>3. ASSUME UNCHANGED vars \/ Tick \/ Api PROVE Goal
  BY <1>2, <1>3 DEF vars, Tick, Api, DecideOrder, CommitOrder, CancelOrder, FreezeOrder
<1>4. ASSUME NEW j \in Jobs, NEW r, jobs' = [jobs EXCEPT ![j] = r],
             r.marketNow <= now', r.pc \in {"idle", "starting"}
      PROVE  Goal
  <2>1. jobs'[j] = r /\ \A i \in Jobs \ {j} : jobs'[i] = jobs[i]
    BY <1>0, <1>4
  <2>2. EndOfDaySees(j)'
    BY <1>4, <2>1 DEF EndOfDaySees
  <2> QED
    BY <1>1, <2>1, <2>2
<1>5. ASSUME NEW j \in Jobs, Start(j) PROVE Goal
  <2> DEFINE job == [jobs[j] EXCEPT !.pc = "starting", !.marketNow = now]
  <2>1. jobs' = [jobs EXCEPT ![j] = job] /\ now' = now
    BY <1>5 DEF Start
  <2>2. job.marketNow = now /\ job.pc = "starting"
    BY <1>0 DEF JobTypes
  <2> HIDE DEF job
  <2>3. job.marketNow <= now' /\ job.pc \in {"idle", "starting"}
    BY <1>0, <2>1, <2>2
  <2>4. jobs'[j] = job /\ \A i \in Jobs \ {j} : jobs'[i] = jobs[i]
    BY <1>0, <2>1
  <2>5. EndOfDaySees(j)'
    BY <2>3, <2>4 DEF EndOfDaySees
  <2> QED
    BY <1>1, <2>4, <2>5
<1>6. ASSUME NEW j \in Jobs, jobs' = [jobs EXCEPT ![j] = NotRunning] PROVE Goal
  <2>1. NotRunning.marketNow <= now' /\ NotRunning.pc = "idle"
    BY OrdersStep DEF NotRunning
  <2> QED
    BY <1>4, <1>6, <2>1
<1>7. ASSUME NEW j \in Jobs, TryLock(j) PROVE Goal
  <2> DEFINE read == {[order |-> o, from |-> orders[o].cursor] : o \in InState("active")}
             job == [jobs[j] EXCEPT !.pc = "ingest", !.cursors = read,
                                    !.feeds = {FeedOf[o] : o \in InState("active")}]
  <2>1. CASE lock # None
    BY <1>6, <1>7, <2>1 DEF TryLock
  <2>2. CASE lock = None
    <3>1. jobs' = [jobs EXCEPT ![j] = job] /\ UNCHANGED <<now, orders>>
      BY <1>7, <2>2 DEF TryLock
    <3>2. job.pc = "ingest" /\ job.cursors = read /\ job.marketNow = jobs[j].marketNow
      BY <1>0 DEF JobTypes
    <3>3. ASSUME NEW o \in Orders, orders[o].status = "active" PROVE \E c \in read : c.order = o
      <4>1. [order |-> o, from |-> orders[o].cursor] \in read
        BY <3>3 DEF InState
      <4> QED
        BY <4>1
    <3> HIDE DEF job, read
    <3>4. jobs'[j] = job /\ \A i \in Jobs \ {j} : jobs'[i] = jobs[i]
      BY <1>0, <3>1
    <3>5. EndOfDaySees(j)'
      BY <1>0, <3>1, <3>2, <3>3, <3>4 DEF EndOfDaySees, Due
    <3> QED
      BY <1>1, <3>4, <3>5
  <2> QED
    BY <2>1, <2>2
<1>8. ASSUME NEW j \in Jobs, NEW f \in Feeds, Ingest(j, f) \/ IngestFails(j, f) PROVE Goal
  <2>1. ASSUME NEW job, jobs' = [jobs EXCEPT ![j] = job], UNCHANGED <<now, orders>>, job.pc = "ingest",
               jobs[j].pc = "ingest", job.cursors = jobs[j].cursors, job.marketNow = jobs[j].marketNow
        PROVE  Goal
    <3>1. jobs'[j] = job /\ \A i \in Jobs \ {j} : jobs'[i] = jobs[i]
      BY <1>0, <2>1
    <3>2. EndOfDaySees(j)'
      BY <1>0, <2>1, <3>1 DEF EndOfDaySees, Due
    <3> QED
      BY <1>1, <3>1, <3>2
  <2>2. CASE Ingest(j, f)
    <3> DEFINE job == [jobs[j] EXCEPT !.feeds = @ \ {f}]
    <3>1. /\ jobs[j].pc = "ingest" /\ UNCHANGED <<now, orders>>
          /\ jobs' = [jobs EXCEPT ![j] = job]
      BY <2>2 DEF Ingest
    <3>2. job.pc = "ingest" /\ job.cursors = jobs[j].cursors /\ job.marketNow = jobs[j].marketNow
      BY <1>0, <3>1 DEF JobTypes
    <3> HIDE DEF job
    <3> QED
      BY <2>1, <3>1, <3>2
  <2>3. CASE IngestFails(j, f)
    <3> DEFINE job == [jobs[j] EXCEPT !.feeds = @ \ {f}, !.failures = @ \cup {f}]
    <3>1. /\ jobs[j].pc = "ingest" /\ UNCHANGED <<now, orders>>
          /\ jobs' = [jobs EXCEPT ![j] = job]
      BY <2>3 DEF IngestFails
    <3>2. job.pc = "ingest" /\ job.cursors = jobs[j].cursors /\ job.marketNow = jobs[j].marketNow
      BY <1>0, <3>1 DEF JobTypes
    <3> HIDE DEF job
    <3> QED
      BY <2>1, <3>1, <3>2
  <2> QED
    BY <1>8, <2>2, <2>3
<1>9. ASSUME NEW j \in Jobs, AcquireDataAsOf(j) PROVE Goal
  <2> DEFINE todo == {c.order : c \in {d \in jobs[j].cursors : FeedOf[d.order] \notin jobs[j].failures}}
             job == [jobs[j] EXCEPT !.pc = "evaluate", !.known = stored, !.cursors = {}, !.todo = todo]
  <2>1. jobs[j].pc = "ingest" /\ jobs' = [jobs EXCEPT ![j] = job] /\ UNCHANGED <<now, orders>>
    BY <1>9 DEF AcquireDataAsOf
  <2>2. /\ job.pc = "evaluate" /\ job.todo = todo /\ job.failures = jobs[j].failures
        /\ job.marketNow = jobs[j].marketNow
    BY <1>0 DEF JobTypes
  <2>3. ASSUME NEW o \in Orders, Due(j, o), FeedOf[o] \notin jobs[j].failures
        PROVE  o \in todo
    BY <1>0, <2>1, <2>3 DEF EndOfDaySees
  <2> HIDE DEF job, todo
  <2>4. jobs'[j] = job /\ \A i \in Jobs \ {j} : jobs'[i] = jobs[i]
    BY <1>0, <2>1
  <2>5. EndOfDaySees(j)'
    BY <1>0, <2>1, <2>2, <2>3, <2>4 DEF EndOfDaySees, Due
  <2> QED
    BY <1>1, <2>4, <2>5
<1>10. ASSUME NEW j \in Jobs, NEW o \in Orders, EvaluateOrder(j, o) PROVE Goal
  <2> DEFINE job == [jobs[j] EXCEPT !.todo = @ \ {o}]
  <2>1. jobs[j].pc = "evaluate" /\ jobs' = [jobs EXCEPT ![j] = job] /\ now' = now
    BY <1>10 DEF EvaluateOrder, Done
  <2>2. /\ job.pc = "evaluate" /\ job.todo = jobs[j].todo \ {o} /\ job.failures = jobs[j].failures
        /\ job.marketNow = jobs[j].marketNow
    BY <1>0, <2>1 DEF JobTypes
  <2> HIDE DEF job
  <2>3. jobs'[j] = job /\ \A i \in Jobs \ {j} : jobs'[i] = jobs[i]
    BY <1>0, <2>1
  <2>4. ASSUME j = "eod", Due(j, o), orders'[o].status = "active"
        PROVE  Seen(o)'
    <3>1. /\ orders[o].cursor <= UntilOf[o] /\ orders \in [Orders -> OrderTypes]
          /\ orders[o].cursor \in Nat /\ UntilOf[o] \in Nat
      BY <1>0 DEF Inv, TypeOK, CursorsAsked, OrderTypes
    <3>2. SegmentEnd(j, o) = UntilOf[o]
      BY <2>1, <2>4, <3>1, SegmentEndBounds DEF Inv, Due
    <3>3. CASE UNCHANGED orders /\ ~(SegmentEnd(j, o) > orders[o].cursor)
      BY <2>4, <3>1, <3>2, <3>3 DEF Seen
    <3>4. CASE \E ends \in BOOLEAN :
                 orders' = [orders EXCEPT ![o].cursor = SegmentEnd(j, o), ![o].known = jobs[j].known,
                                          ![o].status = IF ends THEN "closed" ELSE @]
      <4>1. orders'[o].cursor = UntilOf[o]
        BY <3>1, <3>2, <3>4 DEF OrderTypes
      <4> QED
        BY <2>4, <4>1 DEF Seen
    <3> QED
      BY <1>10, <2>4, <3>3, <3>4 DEF EvaluateOrder, Due
  <2>5. /\ \A p \in Orders : Seen(p) => Seen(p)'
        /\ \A p \in Orders : orders'[p].status = "active" => orders[p].status = "active" \/ now < UntilOf[p]
    BY DueOrdersStep
  <2>6. jobs[j].marketNow <= now /\ jobs[j].marketNow \in Nat
    BY <1>0 DEF EndOfDaySees, JobTypes
  <2>7. \A p \in Orders : Due(j, p)' => Due(j, p) /\ orders'[p].status = "active"
    BY <1>0, <2>2, <2>3, <2>5, <2>6 DEF Due
  <2>8. ASSUME j = "eod", NEW p \in Orders, Due(j, p)', FeedOf[p] \notin jobs[j].failures
        PROVE  p \in job.todo \/ Seen(p)'
    <3>1. Due(j, p) /\ orders'[p].status = "active"
      BY <2>7, <2>8
    <3>2. p \in jobs[j].todo \/ Seen(p)
      BY <1>0, <2>1, <2>8, <3>1 DEF EndOfDaySees
    <3> QED
      BY <2>2, <2>4, <2>5, <2>8, <3>1, <3>2
  <2>9. EndOfDaySees(j)'
    BY <2>1, <2>2, <2>3, <2>6, <2>8 DEF EndOfDaySees
  <2> QED
    BY <1>1, <2>3, <2>9
<1>11. ASSUME NEW j \in Jobs, Release(j) PROVE Goal
  <2> DEFINE job == [jobs[j] EXCEPT !.pc = "select", !.known = None]
  <2>1. CASE j # "eod"
    BY <1>6, <1>11, <2>1 DEF Release
  <2>2. CASE j = "eod"
    <3>1. /\ jobs[j].pc = "evaluate" /\ jobs[j].todo = {} /\ UNCHANGED <<now, orders>>
          /\ jobs' = [jobs EXCEPT ![j] = job]
      BY <1>11, <2>2 DEF Release
    <3>2. job.pc = "select" /\ job.failures = jobs[j].failures /\ job.marketNow = jobs[j].marketNow
      BY <1>0 DEF JobTypes
    <3> HIDE DEF job
    <3>3. jobs'[j] = job /\ \A i \in Jobs \ {j} : jobs'[i] = jobs[i]
      BY <1>0, <3>1
    <3>4. EndOfDaySees(j)'
      BY <1>0, <2>2, <3>1, <3>2, <3>3 DEF EndOfDaySees, Due, Seen
    <3> QED
      BY <1>1, <3>3, <3>4
  <2> QED
    BY <2>1, <2>2
<1>12. ASSUME NEW j \in Jobs, SelectDueOrders(j) PROVE Goal
  <2> DEFINE due == {o \in InState("active") : /\ UntilOf[o] <= jobs[j].marketNow
                                               /\ FeedOf[o] \notin jobs[j].failures}
             job == [jobs[j] EXCEPT !.pc = "expire", !.todo = due]
  <2>1. jobs[j].pc = "select" /\ jobs' = [jobs EXCEPT ![j] = job] /\ UNCHANGED <<now, orders>>
    BY <1>12 DEF SelectDueOrders
  <2>2. job.pc = "expire" /\ job.todo = due /\ job.marketNow = jobs[j].marketNow
    BY <1>0 DEF JobTypes
  <2>3. \A o \in due : Seen(o)
    BY <1>0, <2>1 DEF EndOfDaySees, Due, InState
  <2> HIDE DEF job, due
  <2>4. jobs'[j] = job /\ \A i \in Jobs \ {j} : jobs'[i] = jobs[i]
    BY <1>0, <2>1
  <2>5. EndOfDaySees(j)'
    BY <1>0, <2>1, <2>2, <2>3, <2>4 DEF EndOfDaySees, Seen
  <2> QED
    BY <1>1, <2>4, <2>5
<1>13. ASSUME NEW j \in Jobs, NEW o \in Orders, FinalizeValidity(j, o) PROVE Goal
  <2> DEFINE job == [jobs[j] EXCEPT !.todo = @ \ {o}]
  <2>1. jobs[j].pc = "expire" /\ jobs' = [jobs EXCEPT ![j] = job] /\ now' = now
    BY <1>13 DEF FinalizeValidity, Done
  <2>2. job.pc = "expire" /\ job.todo \subseteq jobs[j].todo /\ job.marketNow = jobs[j].marketNow
        /\ jobs[j].todo \subseteq Orders
    BY <1>0, <2>1 DEF JobTypes
  <2> HIDE DEF job
  <2>3. jobs'[j] = job /\ \A i \in Jobs \ {j} : jobs'[i] = jobs[i]
    BY <1>0, <2>1
  <2>4. \A p \in jobs[j].todo : Seen(p)'
    BY <1>0, <2>1, <2>2, DueOrdersStep DEF EndOfDaySees
  <2>5. EndOfDaySees(j)'
    BY <1>0, <2>1, <2>2, <2>3, <2>4 DEF EndOfDaySees
  <2> QED
    BY <1>1, <2>3, <2>5
<1>14. ASSUME NEW j \in Jobs, EndOfDayOver(j) \/ Crash(j) PROVE Goal
  BY <1>6, <1>14 DEF EndOfDayOver, Crash
<1>15. ASSUME NEW j \in Jobs, NEW o \in Orders, OrderFails(j, o) PROVE Goal
  BY <1>15 DEF OrderFails
<1> HIDE DEF Goal
<1>16. Goal
  BY <1>3, <1>5, <1>7, <1>8, <1>9, <1>10, <1>11, <1>12, <1>13, <1>14, <1>15 DEF Next, Progress
<1> QED
  BY <1>16, DueOrdersStep DEF Goal, DueIsSeen

(***************************************************************************)
(* Orders that do not fail on their own, created by transactions that      *)
(* commit within their minute, are never finalized blind, for any feeds,   *)
(* outages, closes and crashes.                                            *)
(***************************************************************************)
THEOREM NeverBlind ==
  ASSUME ~OrderErrors, ~SlowCommits
  PROVE  Spec => []NeverFinalizedBlind
<1>1. Init => DueIsSeen
  BY DEF Init, DueIsSeen, Decided, Expired, EndOfDaySees, NotRunning
<1>2. Inv /\ Inv' /\ DueIsSeen /\ [Next]_vars => DueIsSeen'
  BY DueStep
<1>3. DueIsSeen => NeverFinalizedBlind
  BY DEF DueIsSeen, Expired, Seen, NeverFinalizedBlind, InState
<1> QED
  BY <1>1, <1>2, <1>3, Invariance, PTL DEF Spec

=============================================================================
