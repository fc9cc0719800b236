----------------------------- MODULE Watermark -----------------------------
(***************************************************************************)
(* The versioned bar store and its knowledge instants: store_batch         *)
(* (marketdata/ingest.py) appends batches, acquire_data_as_of              *)
(* (marketdata/asof.py) returns an instant T "such that no batch with      *)
(* ingested_at <= T can still be committed", and every evaluation, replay  *)
(* and report later reads the store as of its T.                           *)
(*                                                                         *)
(* Writers are the worker's cycles and the manual orders of the API, which *)
(* ingest the same feed at the same time; readers are the runs that need   *)
(* an instant.  Both go through one advisory lock of the database.  The    *)
(* lock and the clock are external: pg_advisory_xact_lock and              *)
(* clock_timestamp().  The clock moves at least one tick while a           *)
(* transaction commits, so two transactions that hold the lock one after   *)
(* the other read different instants (microseconds across a round trip).   *)
(***************************************************************************)
EXTENDS Optional, Integers, FiniteSets

CONSTANTS
  Writers, Readers,
  Feeds,      \* (source, ticker) pairs
  Minutes,    \* the bar minutes of the window that is fetched
  Values,     \* the OHLCV a provider can report for a minute
  MaxClock    \* bound: no transaction starts later

ASSUME ProcessesAssumption == Writers \cap Readers = {} /\ None \notin Writers \cup Readers
ASSUME InstantAssumption == None \notin Nat /\ None \notin Values
ASSUME BoundAssumption == MaxClock \in Nat

VARIABLES
  clock,      \* clock_timestamp() of the database
  lock,       \* who holds INGEST_LOCK_KEY
  batches,    \* committed batches: [feed, at, bars]
  pc,         \* where each process is
  fetch,      \* what each writer fetched: [feed, bars]
  at,         \* the ingested_at a writer has read
  published   \* every instant a run has been given

vars == <<clock, lock, batches, pc, fetch, at, published>>

Processes == Writers \cup Readers

\* What a provider can answer: bars for some of the minutes.
Answers == [feed : Feeds, bars : UNION {[s -> Values] : s \in SUBSET Minutes}]

\* read_bars_as_of: per minute the version with the greatest ingested_at <= t.
Visible(feed, t) == {b \in batches : b.feed = feed /\ b.at <= t}
Versions(feed, t, m) == {b \in Visible(feed, t) : m \in DOMAIN b.bars}
Latest(bs) == CHOOSE b \in bs : \A c \in bs : c.at <= b.at

ReadAsOf(feed, t) ==
  [m \in Minutes |-> IF Versions(feed, t, m) = {} THEN None
                     ELSE Latest(Versions(feed, t, m)).bars[m]]

Init ==
  /\ clock = 0 /\ lock = None /\ batches = {} /\ published = {}
  /\ pc = [p \in Processes |-> "idle"]
  /\ fetch = [w \in Writers |-> None]
  /\ at = [w \in Writers |-> None]

\* ingest_bars fetches outside the transaction, so its answer can be old when stored.
Fetch(w) ==
  /\ pc[w] = "idle"
  /\ \E answer \in Answers : fetch' = [fetch EXCEPT ![w] = answer]
  /\ pc' = [pc EXCEPT ![w] = "waiting"]
  /\ UNCHANGED <<clock, lock, batches, at, published>>

AskInstant(r) ==
  /\ pc[r] = "idle"
  /\ pc' = [pc EXCEPT ![r] = "waiting"]
  /\ UNCHANGED <<clock, lock, batches, fetch, at, published>>

\* Mutant: a try-lock whose answer is ignored.
AcquireBusyLock(p) ==
  /\ pc[p] = "waiting" /\ clock < MaxClock
  /\ lock' = p
  /\ pc' = [pc EXCEPT ![p] = "locked"]
  /\ UNCHANGED <<clock, batches, fetch, at, published>>

AcquireLock(p) ==
  /\ pc[p] = "waiting" /\ lock = None /\ clock < MaxClock
  /\ lock' = p
  /\ pc' = [pc EXCEPT ![p] = "locked"]
  /\ UNCHANGED <<clock, batches, fetch, at, published>>

ReadClock(w) ==
  /\ pc[w] = "locked"
  /\ at' = [at EXCEPT ![w] = clock]
  /\ pc' = [pc EXCEPT ![w] = "storing"]
  /\ UNCHANGED <<clock, lock, batches, fetch, published>>

\* The bars that are new or differ from the stored version.
Changed(w) ==
  LET bars == fetch[w].bars
      current == ReadAsOf(fetch[w].feed, at[w])
  IN  {m \in DOMAIN bars : bars[m] # current[m]}

Release(p) ==
  /\ lock' = None
  /\ pc' = [pc EXCEPT ![p] = "idle"]
  /\ clock' = clock + 1

\* The rest of store_batch and its commit; nothing is inserted when nothing changed.
Store(w) ==
  /\ pc[w] = "storing"
  /\ batches' = IF Changed(w) = {} THEN batches
                ELSE batches \cup {[feed |-> fetch[w].feed, at |-> at[w],
                                    bars |-> [m \in Changed(w) |-> fetch[w].bars[m]]]}
  /\ fetch' = [fetch EXCEPT ![w] = None]
  /\ at' = [at EXCEPT ![w] = None]
  /\ Release(w)
  /\ UNCHANGED published

\* Mutant: the clock is read without the lock.
TakeInstantUnlocked(r) ==
  /\ pc[r] = "waiting"
  /\ published' = published \cup {clock}
  /\ pc' = [pc EXCEPT ![r] = "idle"]
  /\ UNCHANGED <<clock, lock, batches, fetch, at>>

\* acquire_data_as_of: the clock is read under the lock, which the commit releases.
TakeInstant(r) ==
  /\ pc[r] = "locked"
  /\ published' = published \cup {clock}
  /\ Release(r)
  /\ UNCHANGED <<batches, fetch, at>>

\* The process or its connection dies: the transaction rolls back, the lock goes with it.
Crash(w) ==
  /\ pc[w] # "idle"
  /\ lock' = IF lock = w THEN None ELSE lock
  /\ pc' = [pc EXCEPT ![w] = "idle"]
  /\ fetch' = [fetch EXCEPT ![w] = None]
  /\ at' = [at EXCEPT ![w] = None]
  /\ UNCHANGED <<clock, batches, published>>

Tick == clock < MaxClock /\ clock' = clock + 1 /\ UNCHANGED <<lock, batches, pc, fetch, at, published>>

Next ==
  \/ \E w \in Writers : Fetch(w) \/ ReadClock(w) \/ Store(w) \/ Crash(w)
  \/ \E r \in Readers : AskInstant(r) \/ TakeInstant(r)
  \/ \E p \in Processes : AcquireLock(p)
  \/ Tick

Spec == Init /\ [][Next]_vars

-----------------------------------------------------------------------------

Batches == [feed : Feeds, at : Nat, bars : UNION {[s -> Values] : s \in SUBSET Minutes}]

TypeOK ==
  /\ clock \in Nat
  /\ lock \in Processes \cup {None}
  /\ batches \subseteq Batches
  /\ pc \in [Processes -> {"idle", "waiting", "locked", "storing"}]
  /\ fetch \in [Writers -> Answers \cup {None}]
  /\ at \in [Writers -> Nat \cup {None}]
  /\ published \subseteq Nat

(***************************************************************************)
(* The promise of acquire_data_as_of: once an instant has been given to a  *)
(* run, what the store answers as of it never changes, whoever is still    *)
(* fetching, waiting for the lock or committing.  selected_data_hash and   *)
(* REPRODUCE (design 3.6) rest on it.                                      *)
(***************************************************************************)
KnowledgeNeverChanges ==
  [][\A t \in published, feed \in Feeds : ReadAsOf(feed, t)' = ReadAsOf(feed, t)]_vars

(***************************************************************************)
(* No two committed batches carry the same ingested_at, so the tie-break   *)
(* by random batch_id in the as-of query never chooses the data.           *)
(***************************************************************************)
NoTies == \A b, c \in batches : b.at = c.at => b = c

(***************************************************************************)
(* Ingestion is deduplicated: no batch repeats the version of a bar that   *)
(* was already known when it was stored, though the bars were fetched      *)
(* before the lock and other writers may have stored them meanwhile.       *)
(***************************************************************************)
NoRedundantVersion ==
  \A b \in batches : \A m \in DOMAIN b.bars :
    b.bars[m] # ReadAsOf(b.feed, b.at - 1)[m]

(***************************************************************************)
(* The inductive invariant: whoever reads the clock does it alone, and     *)
(* later than everything stored or published.                              *)
(***************************************************************************)
HoldsLock == \A p \in Processes : pc[p] \in {"locked", "storing"} => lock = p

Past ==
  /\ \A b \in batches : b.at < clock
  /\ \A t \in published : t < clock

PendingIsNew ==
  \A w \in Writers : pc[w] = "storing" =>
    /\ fetch[w] \in Answers
    /\ at[w] \in Nat /\ at[w] <= clock
    /\ \A b \in batches : b.at < at[w]
    /\ \A t \in published : t < at[w]

WaitingHasFetched ==
  \A w \in Writers : pc[w] # "idle" => fetch[w] \in Answers

WatermarkInv == TypeOK /\ HoldsLock /\ Past /\ WaitingHasFetched /\ PendingIsNew

=============================================================================
