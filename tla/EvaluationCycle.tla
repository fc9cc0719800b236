--------------------------- MODULE EvaluationCycle ---------------------------
(***************************************************************************)
(* The jobs that evaluate every open order: the live cycle and the end of  *)
(* day (evaluator/cycle.py, quality.py, commands.py), with the API beside  *)
(* them.  A job takes a snapshot of the open orders, fetches their feeds,  *)
(* takes an instant of knowledge and evaluates the orders one transaction  *)
(* at a time; the end of day then finalizes the orders whose validity is   *)
(* over.  The two jobs exclude each other by the cycle lock, but nothing   *)
(* excludes the API, and the finalization runs outside the lock.           *)
(*                                                                         *)
(* What one evaluation does to an order is FillModel's and Ledger's: here  *)
(* an order is only its window, its cursor and how it ended.  A minute is  *)
(* one tick and sessions follow each other without a gap, Closes being     *)
(* their ends.  The session-long advisory lock, the provider and the       *)
(* process that dies are external.                                         *)
(***************************************************************************)
EXTENDS Integers, FiniteSets, FiniteSetsExt

CONSTANTS
  Orders, Feeds,
  FeedOf,       \* the (price_source, ticker) of each order
  UntilOf,      \* valid_until_ts of each order
  Closes,       \* session closes
  None,
  OrderErrors,  \* whether an order's transaction may fail for a reason of its own
  SlowCommits,  \* whether a creation may take longer than a minute to commit
  MaxCrashes    \* bound on the processes that die

LastClose == CHOOSE c \in Closes : \A d \in Closes : d <= c

ASSUME OrdersAssumption == FeedOf \in [Orders -> Feeds] /\ UntilOf \in [Orders -> Closes]
ASSUME ClosesAssumption == Closes \subseteq Nat \ {0} /\ Closes # {} /\ IsFiniteSet(Closes)
ASSUME BooleansAssumption == {OrderErrors, SlowCommits} \subseteq BOOLEAN
ASSUME JobsAssumption == None \notin {"live", "eod"}

Jobs == {"live", "eod"}
Minutes == 0..(LastClose - 1)
Evening == LastClose + 1   \* after the hours of the live cycle

VARIABLES
  now,
  lock,       \* who holds CYCLE_LOCK_KEY
  asked,      \* per feed, the minutes a provider has answered for
  stored,     \* per feed, the minutes it had a bar for
  orders,     \* [status, start, cursor, known] of each order
  jobs,       \* [pc, marketNow, cursors, feeds, failures, known, todo] of each job
  crashes

vars == <<now, lock, asked, stored, orders, jobs, crashes>>

NotRunning ==
  [pc |-> "idle", marketNow |-> 0, cursors |-> {}, feeds |-> {}, failures |-> {},
   known |-> None, todo |-> {}]

Init ==
  /\ now = 0 /\ lock = None /\ crashes = 0
  /\ asked = [f \in Feeds |-> {}] /\ stored = [f \in Feeds |-> {}]
  /\ orders = [o \in Orders |-> [status |-> "absent", start |-> 0, cursor |-> 0, known |-> None]]
  /\ jobs = [j \in Jobs |-> NotRunning]

InState(s) == {o \in Orders : orders[o].status = s}
SetStatus(o, s) == orders' = [orders EXCEPT ![o].status = s]
Done(j, o) == jobs' = [jobs EXCEPT ![j].todo = @ \ {o}]

-----------------------------------------------------------------------------
(* Time and the API. *)

Tick ==
  /\ now < Evening
  /\ SlowCommits \/ InState("deciding") = {}
  /\ now' = now + 1
  /\ UNCHANGED <<lock, asked, stored, orders, jobs, crashes>>

\* The instant of a signal or a click is fixed, and its window must be open ...
DecideOrder(o) ==
  /\ orders[o].status = "absent" /\ now < UntilOf[o]
  /\ orders' = [orders EXCEPT ![o].status = "deciding", ![o].start = now, ![o].cursor = now]
  /\ UNCHANGED <<now, lock, asked, stored, jobs, crashes>>

\* ... and the order exists for others once its transaction commits.
CommitOrder(o) ==
  /\ orders[o].status = "deciding"
  /\ SetStatus(o, "active")
  /\ UNCHANGED <<now, lock, asked, stored, jobs, crashes>>

CancelOrder(o) ==
  /\ orders[o].status \in {"active", "frozen"}
  /\ SetStatus(o, "canceled")
  /\ UNCHANGED <<now, lock, asked, stored, jobs, crashes>>

FreezeOrder(o) ==
  /\ orders[o].status = "active"
  /\ SetStatus(o, "frozen")
  /\ UNCHANGED <<now, lock, asked, stored, jobs, crashes>>

-----------------------------------------------------------------------------
(* run_live_cycle, by either job. *)

\* The job reads its market instant: in a session or just after, or after a close.
Start(j) ==
  /\ jobs[j].pc = "idle" /\ InState("active") # {}
  /\ now \in IF j = "eod" THEN Closes \cup {Evening} ELSE 1..LastClose
  /\ jobs' = [jobs EXCEPT ![j].pc = "starting", ![j].marketNow = now]
  /\ UNCHANGED <<now, lock, asked, stored, orders, crashes>>

\* Mutant: the answer of the lock is ignored.
TryLockIgnored(j) ==
  /\ jobs[j].pc = "starting"
  /\ lock' = j
  /\ jobs' = [jobs EXCEPT
                ![j].pc = "ingest",
                ![j].cursors = {[order |-> o, from |-> orders[o].cursor] :
                                  o \in InState("active")},
                ![j].feeds = {FeedOf[o] : o \in InState("active")}]
  /\ UNCHANGED <<now, asked, stored, orders, crashes>>

\* try_cycle_lock, then open_order_cursors; a busy lock skips the cycle.
TryLock(j) ==
  /\ jobs[j].pc = "starting"
  /\ IF lock = None
     THEN /\ lock' = j
          /\ jobs' = [jobs EXCEPT
                        ![j].pc = "ingest",
                        ![j].cursors = {[order |-> o, from |-> orders[o].cursor] :
                                          o \in InState("active")},
                        ![j].feeds = {FeedOf[o] : o \in InState("active")}]
     ELSE jobs' = [jobs EXCEPT ![j] = NotRunning] /\ UNCHANGED lock
  /\ UNCHANGED <<now, asked, stored, orders, crashes>>

\* Mutant: a feed is asked from its latest cursor.
WantedFromLatest(j, f) ==
  LET froms == {c.from : c \in {d \in jobs[j].cursors : FeedOf[d.order] = f}}
  IN  Minutes \cap (Max(froms)..(jobs[j].marketNow - 1))

\* The minutes asked of a feed: from its orders' earliest cursor to the job's instant.
Wanted(j, f) ==
  LET froms == {c.from : c \in {d \in jobs[j].cursors : FeedOf[d.order] = f}}
  IN  Minutes \cap (Min(froms)..(jobs[j].marketNow - 1))

\* ingest_bars: a provider that answers may still lack some minutes.
Ingest(j, f) ==
  /\ jobs[j].pc = "ingest" /\ f \in jobs[j].feeds
  /\ asked' = [asked EXCEPT ![f] = @ \cup Wanted(j, f)]
  /\ \E minutes \in SUBSET Wanted(j, f) : stored' = [stored EXCEPT ![f] = @ \cup minutes]
  /\ jobs' = [jobs EXCEPT ![j].feeds = @ \ {f}]
  /\ UNCHANGED <<now, lock, orders, crashes>>

IngestFails(j, f) ==
  /\ jobs[j].pc = "ingest" /\ f \in jobs[j].feeds
  /\ jobs' = [jobs EXCEPT ![j].feeds = @ \ {f}, ![j].failures = @ \cup {f}]
  /\ UNCHANGED <<now, lock, asked, stored, orders, crashes>>

\* acquire_data_as_of, and the orders whose feed did not fail.
AcquireDataAsOf(j) ==
  /\ jobs[j].pc = "ingest" /\ jobs[j].feeds = {}
  /\ jobs' = [jobs EXCEPT
                ![j].pc = "evaluate", ![j].known = stored, ![j].cursors = {},
                ![j].todo = {c.order : c \in {d \in jobs[j].cursors :
                                                FeedOf[d.order] \notin jobs[j].failures}}]
  /\ UNCHANGED <<now, lock, asked, stored, orders, crashes>>

\* The minute after the segment that evaluate_order records, its cursor when none.
SegmentEnd(j, o) ==
  LET cursor == orders[o].cursor
      horizon == IF UntilOf[o] < jobs[j].marketNow THEN UntilOf[o] ELSE jobs[j].marketNow
      bars == jobs[j].known[FeedOf[o]] \cap (cursor..(horizon - 1))
  IN  IF j = "eod" /\ cursor < horizon THEN horizon   \* close_trailing_gap
      ELSE IF bars = {} THEN cursor
      ELSE Max(bars) + 1

\* evaluate_order: a bar may end the order, and that of its last minute does.
EvaluateOrder(j, o) ==
  LET end == SegmentEnd(j, o)
      bars == jobs[j].known[FeedOf[o]] \cap (orders[o].cursor..(end - 1))
  IN  /\ jobs[j].pc = "evaluate" /\ o \in jobs[j].todo
      /\ Done(j, o)
      /\ IF orders[o].status = "active" /\ end > orders[o].cursor
         THEN \E ends \in BOOLEAN :
                /\ ends => bars # {}
                /\ UntilOf[o] - 1 \in bars => ends
                /\ orders' = [orders EXCEPT ![o].cursor = end, ![o].known = jobs[j].known,
                                            ![o].status = IF ends THEN "closed" ELSE @]
         ELSE UNCHANGED orders
      /\ UNCHANGED <<now, lock, asked, stored, crashes>>

\* isolated: any other exception is this order's outcome and the batch goes on.
OrderFails(j, o) ==
  /\ OrderErrors
  /\ jobs[j].pc \in {"evaluate", "expire"} /\ o \in jobs[j].todo
  /\ Done(j, o)
  /\ UNCHANGED <<now, lock, asked, stored, orders, crashes>>

\* finish_run and release_cycle_lock.
Release(j) ==
  /\ jobs[j].pc = "evaluate" /\ jobs[j].todo = {}
  /\ lock' = None
  /\ jobs' = IF j = "eod" THEN [jobs EXCEPT ![j].pc = "select", ![j].known = None]
             ELSE [jobs EXCEPT ![j] = NotRunning]
  /\ UNCHANGED <<now, asked, stored, orders, crashes>>

-----------------------------------------------------------------------------
(* expire_due_orders, by the end of day, which holds no lock any more. *)

\* Mutant: the feeds that failed are not excluded.
SelectDueOrdersAll(j) ==
  /\ jobs[j].pc = "select"
  /\ jobs' = [jobs EXCEPT
                ![j].pc = "expire",
                ![j].todo = {o \in InState("active") : UntilOf[o] <= jobs[j].marketNow}]
  /\ UNCHANGED <<now, lock, asked, stored, orders, crashes>>

SelectDueOrders(j) ==
  /\ jobs[j].pc = "select"
  /\ jobs' = [jobs EXCEPT
                ![j].pc = "expire",
                ![j].todo = {o \in InState("active") : /\ UntilOf[o] <= jobs[j].marketNow
                                                       /\ FeedOf[o] \notin jobs[j].failures}]
  /\ UNCHANGED <<now, lock, asked, stored, orders, crashes>>

FinalizeValidity(j, o) ==
  /\ jobs[j].pc = "expire" /\ o \in jobs[j].todo
  /\ Done(j, o)
  /\ IF orders[o].status = "active" THEN SetStatus(o, "expired") ELSE UNCHANGED orders
  /\ UNCHANGED <<now, lock, asked, stored, crashes>>

EndOfDayOver(j) ==
  /\ jobs[j].pc = "expire" /\ jobs[j].todo = {}
  /\ jobs' = [jobs EXCEPT ![j] = NotRunning]
  /\ UNCHANGED <<now, lock, asked, stored, orders, crashes>>

\* Mutant: a lock that outlives its holder.
CrashKeepsLock(j) ==
  /\ jobs[j].pc # "idle" /\ crashes < MaxCrashes
  /\ crashes' = crashes + 1
  /\ jobs' = [jobs EXCEPT ![j] = NotRunning]
  /\ UNCHANGED <<now, lock, asked, stored, orders>>

\* The process dies or its cycle raises: the lock goes with its connection.
Crash(j) ==
  /\ jobs[j].pc # "idle" /\ crashes < MaxCrashes
  /\ crashes' = crashes + 1
  /\ lock' = IF lock = j THEN None ELSE lock
  /\ jobs' = [jobs EXCEPT ![j] = NotRunning]
  /\ UNCHANGED <<now, asked, stored, orders>>

-----------------------------------------------------------------------------

Api == \E o \in Orders : DecideOrder(o) \/ CommitOrder(o) \/ CancelOrder(o) \/ FreezeOrder(o)

\* The steps of a job that has started, with a provider that answers.
Progress(j) ==
  \/ TryLock(j)
  \/ \E f \in Feeds : Ingest(j, f)
  \/ AcquireDataAsOf(j)
  \/ \E o \in Orders : EvaluateOrder(j, o)
  \/ Release(j)
  \/ SelectDueOrders(j)
  \/ \E o \in Orders : FinalizeValidity(j, o)
  \/ EndOfDayOver(j)

Next ==
  \/ Tick
  \/ Api
  \/ \E j \in Jobs : \/ Start(j)
                     \/ Progress(j)
                     \/ Crash(j)
                     \/ \E f \in Feeds : IngestFails(j, f)
                     \/ \E o \in Orders : OrderFails(j, o)

Spec == Init /\ [][Next]_vars

(***************************************************************************)
(* Time passes; the scheduler starts the end of day again (a second time   *)
(* the same evening, then after later sessions); a job that runs goes on;  *)
(* and asked again and again, a provider answers and a transaction         *)
(* commits.                                                                *)
(***************************************************************************)
Fairness ==
  /\ WF_vars(Tick)
  /\ WF_vars(Start("eod"))
  /\ \A j \in Jobs : WF_vars(Progress(j))
  /\ \A f \in Feeds : SF_vars(Ingest("eod", f))
  /\ \A o \in Orders : WF_vars(CommitOrder(o)) /\ SF_vars(FinalizeValidity("eod", o))

LiveSpec == Spec /\ Fairness

-----------------------------------------------------------------------------

Ended == {"closed", "expired", "canceled"}

(***************************************************************************)
(* An outage never makes the evaluator step over minutes ("pula o ticker   *)
(* sem avancar cursor", design 6): every minute an order was evaluated     *)
(* over had been asked of its provider after it was complete, and the      *)
(* provider had answered.                                                  *)
(***************************************************************************)
EvaluatedWasAsked ==
  \A o \in Orders : \A m \in orders[o].start..(orders[o].cursor - 1) : m \in asked[FeedOf[o]]

(***************************************************************************)
(* Design 4.4 and run_end_of_day ("never finalize them blind"): the end of *)
(* validity ends an order only once it was evaluated up to its close, so   *)
(* that only a bar that does not exist is missing from the decision.       *)
(***************************************************************************)
NeverFinalizedBlind ==
  \A o \in InState("expired") : orders[o].cursor = UntilOf[o]

(***************************************************************************)
(* The knowledge an order is evaluated with never goes back from one       *)
(* segment to the next, though a job may have been asleep for long.        *)
(***************************************************************************)
Knows(k, l) == l = None \/ \A f \in Feeds : l[f] \subseteq k[f]
KnowledgeAccumulates ==
  [][\A o \in Orders : orders'[o].known # None => Knows(orders'[o].known, orders[o].known)]_vars

(***************************************************************************)
(* Every order that was created ends, or is frozen for a person, whatever  *)
(* cycles were skipped, crashed or lost a feed.                            *)
(***************************************************************************)
EveryOrderEnds ==
  \A o \in Orders : orders[o].status = "active" ~> orders[o].status \in Ended \cup {"frozen"}

=============================================================================
