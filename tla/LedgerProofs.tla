----------------------------- MODULE LedgerProofs -----------------------------
(***************************************************************************)
(* The rows of an order survive every interleaving of its writers: the     *)
(* jobs, the operator, the recheck, the opening job, a lost projection and *)
(* its rebuild.  For every calendar, signal, configuration, batch of bars  *)
(* and instant, a freeze outlives everything but an operator, the segments *)
(* tile the window, a dividend is credited on a confirmed position, the    *)
(* rows regenerate the order, and nothing that the code does by itself     *)
(* raises an integrity error.                                              *)
(*                                                                         *)
(*   What is regenerated: regenerate_history is a fold over the items of   *)
(*   an order, and a projection rebuilt from it carries a freeze for every *)
(*   FROZEN event of the ledger (Reproduced): the history that reaches the *)
(*   end without diverging has reproduced each of them.                    *)
(*                                                                         *)
(*   The first invariant, LedgerInv: the rows are well formed and a        *)
(*   projection that is there knows the next number and the freezes of the *)
(*   ledger (Rows, Cached); the segments lie in the order in which they    *)
(*   were written, on knowledge no later than the cycle's (Tiled); after a *)
(*   dividend the position stays confirmed (Credited); and the two         *)
(*   properties of the events themselves.                                  *)
(*                                                                         *)
(*   The second, RegenInv: some state is reached from the order's creation *)
(*   on a road of histories, each following from the one before by a       *)
(*   segment, a command or a record of the rows (Follows, Road, Reach),    *)
(*   and it is the state of any projection there is.  The state knows      *)
(*   every event of the ledger (Kept), so no event of the next transaction *)
(*   is taken for one of them, and its last bar lies in a segment and in   *)
(*   the store that the segment read (ProcessedIn).  Rows only grow, a     *)
(*   road in the old rows is one in the new (Prolongs), and each           *)
(*   transaction adds the places of what it wrote.  That the road is what  *)
(*   regenerate_history walks is a fold of the items once more             *)
(*   (Following).                                                          *)
(***************************************************************************)
EXTENDS Ledger, EngineProofs

-----------------------------------------------------------------------------
(* Minutes, and the bars of some of them. *)

Later(p, m, earlier) == Append(earlier, m)
Itself(p, m) == m
InOrder(p, s, seq) == seq \in Seq(p)

Ordering == INSTANCE FoldProofs WITH Apply <- Later, Item <- Itself, Pick <- Greatest, Holds <- InOrder

(***************************************************************************)
(* Ascending puts minutes in a sequence.                                   *)
(***************************************************************************)
LEMMA AscendingType ==
  ASSUME NEW a \in Int, NEW b \in Int, NEW S \in SUBSET (a..b)
  PROVE  Ascending(S) \in Seq(S)
<1>1. IsFiniteSet(S)
  BY FS_Interval, FS_Subset
<1>2. Ordering!IsFiniteSet(S)
  BY <1>1 DEF IsFiniteSet, Ordering!IsFiniteSet
<1>3. Ordering!Picks(S, S)
  BY Extremes DEF Ordering!Picks, Greatest
<1>4. InOrder(S, {}, <<>>)
  BY DEF InOrder
<1>5. ASSUME NEW s \in SUBSET S, s # {}, NEW seq, InOrder(S, s \ {Greatest(S, s)}, seq)
      PROVE  InOrder(S, s, Later(S, Itself(S, Greatest(S, s)), seq))
  <2>1. Greatest(S, s) \in S
    BY <1>5, Extremes DEF Greatest
  <2> QED
    BY <1>5, <2>1 DEF InOrder, Later, Itself
<1>6. InOrder(S, S, Ordering!Fold(S, <<>>, S))
  BY <1>2, <1>3, <1>4, <1>5, Ordering!FoldHolds
<1>7. Ascending(S) = Ordering!Fold(S, <<>>, S)
  BY DEF Ascending, Ordering!Fold, MapThenFoldSet, Ordering!MapThenFoldSet, Later, Itself, Greatest
<1> QED
  BY <1>6, <1>7 DEF InOrder

(***************************************************************************)
(* BarsAsOf is a sequence of versions of the minutes asked for.            *)
(***************************************************************************)
LEMMA BarsType ==
  ASSUME NEW a \in Int, NEW b \in Int, NEW S \in SUBSET (a..b), NEW asOf \in Nat,
         \A i \in 1..asOf : "ts" \in DOMAIN store[i]
  PROVE  /\ BarsAsOf(asOf, S) \in Seq(Range(BarsAsOf(asOf, S)))
         /\ \A bar \in Range(BarsAsOf(asOf, S)) : bar.ts \in S /\ "ts" \in DOMAIN bar
         /\ \A bar \in Range(BarsAsOf(asOf, S)) : \E k \in 1..asOf : bar = store[k]
<1> DEFINE stored == Ascending(Stored(asOf, S))
           bars == [i \in DOMAIN stored |-> store[Max(VersionsAsOf(asOf, stored[i]))]]
<1>1. Stored(asOf, S) \in SUBSET (a..b) /\ Stored(asOf, S) \in SUBSET S
  BY DEF Stored
<1>2. stored \in Seq(Stored(asOf, S))
  BY <1>1, AscendingType
<1> HIDE DEF stored
<1>3. DOMAIN stored = 1..Len(stored) /\ Len(stored) \in Nat
  BY <1>2
<1>4. \A i \in DOMAIN stored : stored[i] \in Stored(asOf, S)
  BY <1>2, <1>3
<1>5. ASSUME NEW i \in DOMAIN stored 
      PROVE  /\ bars[i].ts = stored[i] /\ "ts" \in DOMAIN bars[i]
             /\ \E k \in 1..asOf : bars[i] = store[k]
  <2>1. VersionsAsOf(asOf, stored[i]) # {}
    BY <1>4 DEF Stored
  <2>2. VersionsAsOf(asOf, stored[i]) \in SUBSET (1..asOf)
    BY DEF VersionsAsOf
  <2>3. Max(VersionsAsOf(asOf, stored[i])) \in VersionsAsOf(asOf, stored[i])
    <3> DEFINE V == VersionsAsOf(asOf, stored[i])
    <3> HIDE DEF V
    <3>1. V # {} /\ V \in SUBSET (1..asOf) /\ 1 \in Int /\ asOf \in Int
      BY <2>1, <2>2 DEF V
    <3>2. Max(V) \in V
      BY <3>1, Extremes
    <3> QED
      BY <3>2 DEF V
  <2> QED
    BY <2>3 DEF VersionsAsOf
<1> HIDE DEF bars
<1>6. \A bar \in Range(bars) :
        bar.ts \in S /\ "ts" \in DOMAIN bar /\ \E k \in 1..asOf : bar = store[k]
  <2>1. DOMAIN bars = DOMAIN stored
    BY DEF bars
  <2> QED
    BY <1>1, <1>4, <1>5, <2>1 DEF Range
<1>7. bars \in Seq(Range(bars))
  <2>1. bars = [i \in 1..Len(stored) |-> store[Max(VersionsAsOf(asOf, stored[i]))]]
    BY <1>3 DEF bars
  <2>2. \A i \in 1..Len(stored) : store[Max(VersionsAsOf(asOf, stored[i]))] \in Range(bars)
    BY <2>1 DEF Range
  <2> DEFINE R == Range(bars)
  <2> HIDE DEF R
  <2>3. [i \in 1..Len(stored) |-> store[Max(VersionsAsOf(asOf, stored[i]))]] \in Seq(R)
    BY <1>3, <2>2, IsASeq DEF R
  <2> QED
    BY <2>1, <2>3 DEF R
<1>8. bars = BarsAsOf(asOf, S)
  BY DEF bars, stored, BarsAsOf
<1> QED
  BY <1>6, <1>7, <1>8

FlagOn(p, m, flagged) == After(flagged.events, FlagReview(flagged.state, "MISSING_BAR", m))
MinuteAt(p, i) == p.minutes[i]
FlaggedSoFar(p, s, flagged) == Calm(p.state, flagged) /\ Writes(flagged, QualityTypes)

Flagging == INSTANCE FoldProofs WITH
  Apply <- FlagOn, Item <- MinuteAt, Pick <- Greatest, Holds <- FlaggedSoFar

(***************************************************************************)
(* The reviews of a session's missing bars.                                *)
(***************************************************************************)
LEMMA ReviewsCalm ==
  ASSUME NEW s, Fielded(s), NEW r, Calm(s, r), Writes(r, QualityTypes),
         NEW a \in Int, NEW b \in Int, NEW doubtful \in SUBSET (a..b)
  PROVE  Calm(s, MissingBarReviews(r, doubtful)) /\ Writes(MissingBarReviews(r, doubtful), QualityTypes)
<1> DEFINE minutes == Ascending(doubtful)
           p == [state |-> s, minutes |-> minutes]
           S == DOMAIN minutes
<1>1. minutes \in Seq(doubtful)
  BY AscendingType
<1> HIDE DEF minutes
<1>2. Flagging!IsFiniteSet(S) /\ \A t \in SUBSET S : t # {} => Max(t) \in t
  BY <1>1, Indices DEF IsFiniteSet, Flagging!IsFiniteSet
<1> HIDE DEF S
<1>3. Flagging!Picks(p, S)
  BY <1>2 DEF Flagging!Picks, Greatest
<1>4. FlaggedSoFar(p, {}, r)
  BY DEF FlaggedSoFar
<1>5. ASSUME NEW t \in SUBSET S, t # {}, NEW acc, FlaggedSoFar(p, t \ {Greatest(p, t)}, acc)
      PROVE  FlaggedSoFar(p, t, FlagOn(p, MinuteAt(p, Greatest(p, t)), acc))
  <2> DEFINE m == MinuteAt(p, Greatest(p, t))
             q == FlagReview(acc.state, "MISSING_BAR", m)
  <2>1. Calm(s, acc) /\ Writes(acc, QualityTypes)
    BY <1>5 DEF FlaggedSoFar
  <2>2. Fielded(acc.state)
    BY <2>1 DEF Calm, Fielded
  <2> HIDE DEF m
  <2>3. Calm(acc.state, q) /\ Writes(q, {"NEEDS_REVIEW"})
    BY <2>2, FlagCalm
  <2> HIDE DEF q
  <2>4. Writes(q, QualityTypes) /\ ~Has(q, "FROZEN") /\ ~Has(acc, "FROZEN")
    BY <2>1, <2>3 DEF Writes, Has, QualityTypes
  <2>5. Calm(s, After(acc.events, q)) /\ Writes(After(acc.events, q), QualityTypes)
    BY <2>1, <2>3, <2>4, AfterCalm
  <2> QED
    BY <2>5 DEF FlaggedSoFar, FlagOn, m, q
<1>6. p.state = s
  OBVIOUS
<1> HIDE DEF p
<1>7. FlaggedSoFar(p, S, Flagging!Fold(p, r, S))
  BY <1>2, <1>3, <1>4, <1>5, Flagging!FoldHolds
<1>8. MissingBarReviews(r, doubtful) = Flagging!Fold(p, r, S)
  BY DEF MissingBarReviews, FoldLeft, Flagging!Fold, MapThenFoldSet, Flagging!MapThenFoldSet,
         FlagOn, MinuteAt, Greatest, p, S, minutes
<1> QED
  BY <1>6, <1>7, <1>8 DEF FlaggedSoFar

(***************************************************************************)
(* The command of a session's data quality.                                *)
(***************************************************************************)
LEMMA QualityCalm ==
  ASSUME NEW s, Fielded(s), NEW i, NEW a \in Int, NEW b \in Int,
         NEW missing \in SUBSET (a..b), NEW doubtful \in SUBSET missing
  PROVE  /\ Calm(s, QualityResult(s, i, missing, doubtful))
         /\ Writes(QualityResult(s, i, missing, doubtful), QualityTypes)
<1> DEFINE e == [Event("DATA_QUALITY", None) EXCEPT !.level = i]
           starts == Ascending({m \in missing : m - Minute \notin missing})
           gaps == [g \in DOMAIN starts |-> Event("DATA_GAP", starts[g])]
           all == <<e>> \o gaps
           r == StepResult(s, all)
<1>1. Entry(e) /\ e.type = "DATA_QUALITY"
  BY DEF Event, Entry
<1> HIDE DEF e
<1>2. Log(<<e>>) /\ Range(<<e>>) = {e}
  BY <1>1 DEF Log, Range
<1>3. starts \in Seq({m \in missing : m - Minute \notin missing})
  <2> DEFINE M == {m \in missing : m - Minute \notin missing}
  <2>1. M \in SUBSET (a..b)
    OBVIOUS
  <2> HIDE DEF M
  <2>2. Ascending(M) \in Seq(M)
    BY <2>1, AscendingType
  <2> QED
    BY <2>2 DEF M
<1> HIDE DEF starts
<1>4. DOMAIN starts = 1..Len(starts) /\ Len(starts) \in Nat
  BY <1>3
<1>5. \A x \in Range(gaps) : Entry(x) /\ x.type = "DATA_GAP"
  BY DEF Range, Event, Entry
<1>6. gaps \in Seq(Range(gaps))
  <2> DEFINE R == Range(gaps)
  <2>1. \A g \in 1..Len(starts) : Event("DATA_GAP", starts[g]) \in R
    BY <1>4 DEF Range
  <2> HIDE DEF R
  <2>2. [g \in 1..Len(starts) |-> Event("DATA_GAP", starts[g])] \in Seq(R)
    BY <1>4, <2>1, IsASeq
  <2> QED
    BY <1>4, <2>2 DEF R
<1>7. gaps = Gaps(missing)
  BY DEF Gaps, starts
<1> HIDE DEF gaps
<1>8. Log(gaps)
  BY <1>5, <1>6 DEF Log
<1>9. Log(all) /\ Range(all) = Range(<<e>>) \cup Range(gaps)
  BY <1>2, <1>8, ConcatEvents
<1> HIDE DEF all
<1>10. Proper(r) /\ r.state = s /\ r.events = all
  BY <1>9 DEF StepResult, Proper
<1> HIDE DEF r
<1>11. Writes(r, QualityTypes)
  BY <1>1, <1>2, <1>5, <1>9, <1>10 DEF Writes, QualityTypes
<1>12. Calm(s, r)
  BY <1>10, <1>11 DEF Calm, Writes, Has, QualityTypes, Forbidden, MarketEventTypes
<1>13. doubtful \in SUBSET (a..b)
  OBVIOUS
<1>14. Calm(s, MissingBarReviews(r, doubtful)) /\ Writes(MissingBarReviews(r, doubtful), QualityTypes)
  BY <1>11, <1>12, <1>13, ReviewsCalm
<1>15. QualityResult(s, i, missing, doubtful) = MissingBarReviews(r, doubtful)
  BY <1>7 DEF QualityResult, r, all, e
<1> QED
  BY <1>14, <1>15

-----------------------------------------------------------------------------
(* The events that are new. *)

Unknown(p, e, fresh) == IF e \in Range(p.known \o fresh) THEN fresh ELSE Append(fresh, e)
EventAt(p, i) == p.evs[i]
SomeOf(p, s, fresh) == fresh \in Seq(Range(p.evs))

Deduping == INSTANCE FoldProofs WITH
  Apply <- Unknown, Item <- EventAt, Pick <- Greatest, Holds <- SomeOf

(***************************************************************************)
(* dedupe_events returns some of the events.                               *)
(***************************************************************************)
LEMMA FreshSome ==
  ASSUME NEW known, NEW evs, evs \in Seq(Range(evs))
  PROVE  Fresh(known, evs) \in Seq(Range(evs))
<1> DEFINE p == [known |-> known, evs |-> evs]
           S == DOMAIN evs
<1>1. Deduping!IsFiniteSet(S) /\ \A t \in SUBSET S : t # {} => Max(t) \in t
  BY Indices DEF IsFiniteSet, Deduping!IsFiniteSet
<1> HIDE DEF S
<1>2. Deduping!Picks(p, S)
  BY <1>1 DEF Deduping!Picks, Greatest
<1>3. SomeOf(p, {}, <<>>)
  BY DEF SomeOf
<1>4. ASSUME NEW t \in SUBSET S, t # {}, NEW fresh, SomeOf(p, t \ {Greatest(p, t)}, fresh)
      PROVE  SomeOf(p, t, Unknown(p, EventAt(p, Greatest(p, t)), fresh))
  <2>1. Greatest(p, t) \in DOMAIN evs
    BY <1>1, <1>4 DEF Greatest, S
  <2>2. evs[Greatest(p, t)] \in Range(evs)
    BY <2>1 DEF Range
  <2> QED
    BY <1>4, <2>2 DEF SomeOf, Unknown, EventAt
<1>5. p.evs = evs
  OBVIOUS
<1> HIDE DEF p
<1>6. SomeOf(p, S, Deduping!Fold(p, <<>>, S))
  BY <1>1, <1>2, <1>3, <1>4, Deduping!FoldHolds
<1>7. Fresh(known, evs) = Deduping!Fold(p, <<>>, S)
  BY DEF Fresh, FoldLeft, Deduping!Fold, MapThenFoldSet, Deduping!MapThenFoldSet, Unknown, EventAt,
         Greatest, p, S
<1> QED
  BY <1>5, <1>6, <1>7 DEF SomeOf

(***************************************************************************)
(* The new events of a result have the types and the minutes of its        *)
(* events.                                                                 *)
(***************************************************************************)
LEMMA NewEventsSome ==
  ASSUME NEW known, NEW r, Proper(r), NEW bars
  PROVE  /\ NewEvents(known, r, bars) \in Seq(Range(NewEvents(known, r, bars)))
         /\ \A x \in Range(NewEvents(known, r, bars)) :
              \E e \in Range(r.events) : x.type = e.type /\ x.ts = e.ts
<1> DEFINE evs == [i \in DOMAIN r.events |-> Prepared(r.events[i], bars)]
           new == Fresh(known, evs)
<1>1. r.events \in Seq(Range(r.events)) /\ \A e \in Range(r.events) : Entry(e)
  BY DEF Proper, Log
<1>2. DOMAIN r.events = 1..Len(r.events) /\ Len(r.events) \in Nat
  BY <1>1
<1>3. evs \in Seq(Range(evs))
  <2> DEFINE R == Range(evs)
  <2>1. \A i \in 1..Len(r.events) : Prepared(r.events[i], bars) \in R
    BY <1>2 DEF Range
  <2> HIDE DEF R
  <2>2. [i \in 1..Len(r.events) |-> Prepared(r.events[i], bars)] \in Seq(R)
    BY <1>2, <2>1, IsASeq
  <2> QED
    BY <1>2, <2>2 DEF R
<1>4. ASSUME NEW e, Entry(e)
      PROVE  Prepared(e, bars).type = e.type /\ Prepared(e, bars).ts = e.ts
  <2>1. "type" \in DOMAIN e /\ "ts" \in DOMAIN e
    BY <1>4 DEF Entry
  <2> QED
    BY <2>1 DEF Prepared
<1>5. ASSUME NEW x \in Range(evs)
      PROVE  \E e \in Range(r.events) : x.type = e.type /\ x.ts = e.ts
  <2>1. PICK i \in DOMAIN r.events : x = Prepared(r.events[i], bars)
    BY <1>5 DEF Range
  <2>2. r.events[i] \in Range(r.events)
    BY DEF Range
  <2> QED
    BY <1>1, <1>4, <2>1, <2>2
<1>6. NewEvents(known, r, bars) = new
  BY DEF NewEvents
<1> HIDE DEF evs
<1>7. new \in Seq(Range(evs))
  BY <1>3, FreshSome
<1> HIDE DEF new
<1>8. Range(new) \in SUBSET Range(evs) /\ new \in Seq(Range(new))
  BY <1>7 DEF Range
<1> QED
  BY <1>5, <1>6, <1>8

-----------------------------------------------------------------------------
(* The rows. *)

Froze(evs) == \E e \in Range(evs) : e.type = "FROZEN"

\* What a projection keeps of the events.
Cached(cache) ==
  /\ Fielded(cache.state) /\ cache.next_seq = Len(events) + 1
  /\ Froze(events) => Frozen(cache.state)

Segment(seg) ==
  /\ seg.asOf \in 0..Len(store) /\ seg.first_seq \in Nat /\ seg.count \in Nat
  /\ seg.from \in Nat /\ seg.to \in Nat

Rows ==
  /\ ctx.start = Start /\ ctx.until = Until /\ now \in Nat
  /\ events \in Seq(Range(events)) /\ events # <<>> /\ events[1].type = "ORDER_CREATED"
  /\ segments \in Seq(Range(segments)) /\ \A seg \in Range(segments) : Segment(seg)
  /\ store \in Seq(Range(store)) /\ \A bar \in Range(store) : "ts" \in DOMAIN bar
  /\ run # None => run.asOf \in 0..Len(store) /\ run.marketNow \in Nat
  /\ projection # None => Cached(projection)

-----------------------------------------------------------------------------
(* The regenerated history. *)

\* h is a record with the fields of a history.
History(h) == h \in
  [state : {h.state}, seq : {h.seq}, index : {h.index}, diverged : {h.diverged}]

\* What the history has reproduced so far.
Reproduced(h) ==
  /\ Fielded(h.state) /\ h.seq \in 1..(Len(events) + 1)
  /\ \A i \in 1..(h.seq - 1) : events[i].type = "FROZEN" => Frozen(h.state)

(***************************************************************************)
(* One result more, whose new events are the next ones of the ledger.      *)
(***************************************************************************)
LEMMA OneResultMore ==
  ASSUME events \in Seq(Range(events)), NEW h, History(h), h.diverged = FALSE, Reproduced(h),
         NEW known, NEW r, Calm(h.state, r), NEW bars, NEW expected \in Nat
  PROVE  LET fresh == NewEvents(known, r, bars)
             g == Replayed(h, known, r, bars, fresh, expected)
         IN  /\ History(g) /\ g.index = h.index /\ g.diverged \in BOOLEAN
             /\ Len(fresh) \in Nat /\ g.seq = h.seq + Len(fresh)
             /\ ~g.diverged => Reproduced(g)
<1> DEFINE fresh == NewEvents(known, r, bars)
           last == Lesser(Len(events), h.seq + expected - 1)
           sub == SubSeq(events, h.seq, last)
           differs == \/ IntegrityErrorOf(known, r, bars) # None
                      \/ fresh # sub
           g == Replayed(h, known, r, bars, fresh, expected)
<1>1. /\ fresh \in Seq(Range(fresh))
      /\ \A x \in Range(fresh) : \E e \in Range(r.events) : x.type = e.type /\ x.ts = e.ts
  <2>1. Proper(r)
    BY DEF Calm
  <2> QED
    BY <2>1, NewEventsSome
<1> HIDE DEF fresh
<1>2. Len(fresh) \in Nat /\ DOMAIN fresh = 1..Len(fresh)
  BY <1>1
<1>3. /\ History(g) /\ g.state = r.state /\ g.seq = h.seq + Len(fresh) /\ g.index = h.index
      /\ g.diverged = (h.diverged \/ differs)
  BY DEF Replayed, History
<1> HIDE DEF g
<1>4. g.diverged \in BOOLEAN
  BY <1>3
<1>5. ASSUME ~g.diverged PROVE Reproduced(g)
  <2>1. fresh = sub
    BY <1>3, <1>5
  <2>2. Len(events) \in Nat /\ h.seq \in 1..(Len(events) + 1)
    BY DEF Reproduced
  <2>3. last \in Int /\ last <= Len(events)
    <3> DEFINE n == Len(events)
               m == h.seq + expected - 1
    <3>1. n \in Int /\ m \in Int
      BY <2>2
    <3> HIDE DEF n, m
    <3>2. Lesser(n, m) \in Int /\ Lesser(n, m) <= n
      BY <3>1, NoneAssumption DEF Lesser
    <3> QED
      BY <3>2 DEF n, m
  <2> HIDE DEF last
  <2>4. \A i \in h.seq..last : events[i] \in Range(events)
    BY <2>2, <2>3 DEF Range
  <2>5. /\ Len(sub) = IF h.seq <= last THEN last - h.seq + 1 ELSE 0
        /\ \A i \in 1..(last - h.seq + 1) : sub[i] = events[h.seq + i - 1]
    <3> DEFINE R == Range(events)
               a == h.seq
    <3> HIDE DEF R
    <3>1. a \in Int /\ \A i \in a..last : events[i] \in R
      BY <2>2, <2>4 DEF R
    <3> HIDE DEF a
    <3>2. /\ Len(SubSeq(events, a, last)) = IF a <= last THEN last - a + 1 ELSE 0
          /\ \A i \in 1..(last - a + 1) : SubSeq(events, a, last)[i] = events[a + i - 1]
      BY <2>3, <3>1, SubSeqProperties
    <3> QED
      BY <3>2 DEF a
  <2> HIDE DEF sub
  <2>6. g.seq \in 1..(Len(events) + 1)
    BY <1>3, <2>1, <2>2, <2>3, <2>5
  <2>7. DOMAIN g.state = DOMAIN h.state /\ Fielded(g.state)
    BY <1>3 DEF Calm, Fielded, Reproduced
  <2>8. ASSUME NEW i \in 1..(g.seq - 1), events[i].type = "FROZEN" PROVE Frozen(g.state)
    <3>1. CASE i < h.seq
      <4>1. i \in 1..(h.seq - 1)
        BY <2>2, <2>6, <3>1
      <4>2. Frozen(h.state)
        BY <2>8, <4>1 DEF Reproduced
      <4> QED
        BY <1>3, <4>2 DEF Calm
    <3>2. CASE ~(i < h.seq)
      <4> DEFINE k == i - h.seq + 1
      <4>1. k \in 1..Len(fresh) /\ h.seq + k - 1 = i
        BY <1>2, <1>3, <2>2, <2>6, <3>2
      <4>2. k \in 1..(last - h.seq + 1)
        BY <2>1, <2>2, <2>3, <2>5, <4>1
      <4>3. fresh[k] = events[i]
        BY <2>1, <2>5, <4>1, <4>2
      <4>4. fresh[k] \in Range(fresh)
        BY <1>2, <4>1 DEF Range
      <4>5. Has(r, "FROZEN")
        BY <1>1, <2>8, <4>3, <4>4 DEF Has
      <4> QED
        BY <1>3, <4>5 DEF Calm
    <3> QED
      BY <3>1, <3>2
  <2> QED
    BY <2>6, <2>7, <2>8 DEF Reproduced
<1> QED
  BY <1>2, <1>3, <1>4, <1>5 DEF g, fresh

(***************************************************************************)
(* The call that an event stands for is as calm as the call that wrote it. *)
(***************************************************************************)
LEMMA CommandOfCalm ==
  ASSUME NEW e, NEW s, Fielded(s), NEW bar
  PROVE  Calm(s, CommandOf(e, s, bar))
<1>1. CommandOf(e, s, bar) \in
        {Cancel(s, e.level), Freeze(s, e.reason, e.level), FlagReview(s, e.reason, e.level),
         ApplyDividend(s, ctx, ExSession, e.level, TRUE), ApplyValidityEnd(s, ctx, None),
         ApplyValidityEnd(s, ctx, bar), Unchanged(s)}
  BY DEF CommandOf
<1>2. /\ Calm(s, Cancel(s, e.level)) /\ Calm(s, Freeze(s, e.reason, e.level))
      /\ Calm(s, FlagReview(s, e.reason, e.level)) /\ Calm(s, Unchanged(s))
  BY CancelCalm, FreezeCalm, FlagCalm, NothingCalm
<1>3. Calm(s, ApplyDividend(s, ctx, ExSession, e.level, TRUE))
  BY DividendCalm
<1>4. Calm(s, ApplyValidityEnd(s, ctx, None)) /\ Calm(s, ApplyValidityEnd(s, ctx, bar))
  BY EndCalm
<1> QED
  BY <1>1, <1>2, <1>3, <1>4

\* The history h after n items: each of them took a segment or an event, or the
\* events are all reproduced.
Regenerating(h, n) ==
  /\ History(h) /\ h.index \in 1..(Len(segments) + 1) /\ h.diverged \in BOOLEAN
  /\ ~h.diverged => /\ Reproduced(h)
                    /\ h.seq + h.index >= 3 + n \/ h.seq = Len(events) + 1

(***************************************************************************)
(* The numbers of a history.                                               *)
(***************************************************************************)
LEMMA HistoryNumbers ==
  ASSUME Rows, NEW h, NEW n \in Nat, Regenerating(h, n)
  PROVE  /\ Len(events) \in Nat /\ Len(segments) \in Nat /\ DOMAIN segments = 1..Len(segments)
         /\ h.index \in Nat /\ 1 <= h.index /\ h.index <= Len(segments) + 1
         /\ ~h.diverged => /\ Reproduced(h) /\ h.seq \in Nat /\ 1 <= h.seq /\ h.seq <= Len(events) + 1
                           /\ h.seq + h.index >= 3 + n \/ h.seq = Len(events) + 1
<1>1. events \in Seq(Range(events)) /\ segments \in Seq(Range(segments))
  BY DEF Rows
<1>2. Len(events) \in Nat /\ Len(segments) \in Nat /\ DOMAIN segments = 1..Len(segments)
  BY <1>1
<1>3. h.index \in 1..(Len(segments) + 1)
  BY DEF Regenerating
<1>4. ~h.diverged => /\ Reproduced(h) /\ h.seq \in 1..(Len(events) + 1)
                     /\ h.seq + h.index >= 3 + n \/ h.seq = Len(events) + 1
  BY DEF Regenerating, Reproduced
<1> QED
  BY <1>2, <1>3, <1>4

(***************************************************************************)
(* A segment is replayed from the bars it was evaluated on.                *)
(***************************************************************************)
LEMMA SegmentReplayed ==
  ASSUME Rows, NEW h, NEW n \in Nat, Regenerating(h, n), ~h.diverged, h.index <= Len(segments)
  PROVE  Regenerating(ReplaySegment(h, segments[h.index]), n + 1)
<1> DEFINE seg == segments[h.index]
           minutes == SegmentMinutes(seg)
           bars == BarsAsOf(seg.asOf, minutes)
           r == RunBars(h.state, bars, ctx)
           fresh == NewEvents(Known(h), r, bars)
           g == Replayed(h, Known(h), r, bars, fresh, seg.count)
           hashed == SelectedData(minutes, bars) # seg.data
           k == ReplaySegment(h, seg)
<1>1. seg \in Range(segments)
  <2>1. h.index \in DOMAIN segments
    BY DEF Rows, Regenerating
  <2> QED
    BY <2>1 DEF Range
<1>2. k = [g EXCEPT !.index = @ + 1, !.diverged = @ \/ hashed]
  BY DEF ReplaySegment, ReplayAsOf, ReplayBars
<1> HIDE DEF seg
<1>3. Segment(seg)
  BY <1>1 DEF Rows
<1>4. seg.from \in Int /\ seg.to \in Int /\ Minute \in Nat
  BY <1>3, CalendarAssumption DEF Segment
<1>5. minutes \in SUBSET (seg.from..(seg.to + Minute - 1)) /\ seg.to + Minute - 1 \in Int
  BY <1>4 DEF SegmentMinutes, MinutesOf
<1> HIDE DEF minutes
<1>6. seg.asOf \in Nat /\ \A i \in 1..seg.asOf : "ts" \in DOMAIN store[i]
  <2>1. seg.asOf \in 0..Len(store) /\ store \in Seq(Range(store))
    BY <1>3 DEF Segment, Rows
  <2>2. \A i \in 1..seg.asOf : store[i] \in Range(store)
    BY <2>1 DEF Range
  <2> QED
    BY <2>1, <2>2 DEF Rows
<1>7. bars \in Seq(Range(bars)) /\ \A bar \in Range(bars) : "ts" \in DOMAIN bar
  <2> DEFINE a == seg.from
             b == seg.to + Minute - 1
             asOf == seg.asOf
  <2>1. a \in Int /\ b \in Int /\ minutes \in SUBSET (a..b) /\ asOf \in Nat
        /\ \A i \in 1..asOf : "ts" \in DOMAIN store[i]
    BY <1>4, <1>5, <1>6
  <2> HIDE DEF a, b, asOf
  <2>2. /\ BarsAsOf(asOf, minutes) \in Seq(Range(BarsAsOf(asOf, minutes)))
        /\ \A bar \in Range(BarsAsOf(asOf, minutes)) : "ts" \in DOMAIN bar
    BY <2>1, BarsType
  <2> QED
    BY <2>2 DEF asOf
<1> HIDE DEF bars
<1>8. Ran(h.state, bars, r)
  BY <1>7, RunBarsRan
<1> HIDE DEF r
<1>9. Calm(h.state, r)
  BY <1>8, BarsCalm
<1>10. History(h) /\ h.diverged = FALSE /\ Reproduced(h) /\ events \in Seq(Range(events))
  BY DEF Regenerating, Rows
<1>11. seg.count \in Nat
  BY <1>3 DEF Segment
<1>12. /\ History(g) /\ g.index = h.index /\ g.diverged \in BOOLEAN
       /\ Len(fresh) \in Nat /\ g.seq = h.seq + Len(fresh)
       /\ ~g.diverged => Reproduced(g)
  <2> DEFINE expected == seg.count
             known == Known(h)
  <2>1. expected \in Nat
    BY <1>11
  <2> HIDE DEF expected, known
  <2>2. LET f == NewEvents(known, r, bars)
            x == Replayed(h, known, r, bars, f, expected)
        IN  /\ History(x) /\ x.index = h.index /\ x.diverged \in BOOLEAN
            /\ Len(f) \in Nat /\ x.seq = h.seq + Len(f)
            /\ ~x.diverged => Reproduced(x)
    BY <1>9, <1>10, <2>1, OneResultMore
  <2> QED
    BY <2>2 DEF expected, known
<1> HIDE DEF g, hashed, fresh
<1>13. /\ History(k) /\ k.state = g.state /\ k.seq = g.seq /\ k.index = h.index + 1
       /\ k.diverged = (g.diverged \/ hashed)
  BY <1>2, <1>12 DEF History
<1> HIDE DEF k
<1>14. hashed \in BOOLEAN
  BY DEF hashed
<1>15. k.index \in 1..(Len(segments) + 1)
  BY <1>13 DEF Regenerating, Rows
<1>16. ASSUME ~k.diverged
       PROVE  Reproduced(k) /\ (k.seq + k.index >= 3 + (n + 1) \/ k.seq = Len(events) + 1)
  <2>1. ~g.diverged
    BY <1>12, <1>13, <1>14, <1>16
  <2>2. Reproduced(k)
    BY <1>12, <1>13, <2>1 DEF Reproduced
  <2>3. /\ Len(events) \in Nat /\ h.seq \in Nat /\ h.index \in Nat /\ h.seq <= Len(events) + 1
        /\ h.seq + h.index >= 3 + n \/ h.seq = Len(events) + 1
    BY HistoryNumbers
  <2>4. k.seq \in 1..(Len(events) + 1)
    BY <2>2 DEF Reproduced
  <2>5. k.seq = h.seq + Len(fresh)
    BY <1>12, <1>13
  <2>6. k.seq + k.index >= 3 + (n + 1) \/ k.seq = Len(events) + 1
    BY <1>12, <1>13, <2>3, <2>4, <2>5, SMTT(30)
  <2> QED
    BY <2>2, <2>6
<1>17. Regenerating(k, n + 1)
  BY <1>12, <1>13, <1>14, <1>15, <1>16 DEF Regenerating
<1> QED
  BY <1>17 DEF k, seg

(***************************************************************************)
(* A command is replayed as one or more events.                            *)
(***************************************************************************)
LEMMA CommandReplayed ==
  ASSUME Rows, NEW h, NEW n \in Nat, Regenerating(h, n), ~h.diverged, NEW e, NEW bar
  PROVE  Regenerating(ReplayCommand(h, e, bar), n + 1)
<1> DEFINE bars == IF bar = None THEN <<>> ELSE <<bar>>
           r == CommandOf(e, h.state, bar)
           known == Known(h)
           fresh == NewEvents(known, r, bars)
           g == Replayed(h, known, r, bars, fresh, Len(fresh))
           none == fresh = <<>>
           k == ReplayCommand(h, e, bar)
<1>1. k = [g EXCEPT !.diverged = @ \/ none]
  BY DEF ReplayCommand, ReplayResult, ReplayEvents
<1> HIDE DEF bars, known
<1>2. History(h) /\ h.diverged = FALSE /\ Reproduced(h) /\ events \in Seq(Range(events))
  BY DEF Regenerating, Rows
<1>3. Calm(h.state, r)
  BY <1>2, CommandOfCalm DEF Reproduced
<1> HIDE DEF r
<1>4. fresh \in Seq(Range(fresh))
  <2>1. Proper(r)
    BY <1>3 DEF Calm
  <2> QED
    BY <2>1, NewEventsSome
<1>5. Len(fresh) \in Nat /\ (fresh # <<>> => Len(fresh) # 0)
  BY <1>4
<1>6. /\ History(g) /\ g.index = h.index /\ g.diverged \in BOOLEAN
      /\ g.seq = h.seq + Len(fresh) /\ (~g.diverged => Reproduced(g))
  <2> DEFINE expected == Len(fresh)
  <2>1. expected \in Nat
    BY <1>5
  <2> HIDE DEF expected
  <2>2. LET f == NewEvents(known, r, bars)
            x == Replayed(h, known, r, bars, f, expected)
        IN  /\ History(x) /\ x.index = h.index /\ x.diverged \in BOOLEAN
            /\ Len(f) \in Nat /\ x.seq = h.seq + Len(f)
            /\ ~x.diverged => Reproduced(x)
    BY <1>2, <1>3, <2>1, OneResultMore
  <2> QED
    BY <2>2 DEF expected
<1> HIDE DEF g
<1>7. none \in BOOLEAN
  OBVIOUS
<1>8. none \/ Len(fresh) # 0
  BY <1>5
<1> HIDE DEF none, fresh
<1>9. /\ History(k) /\ k.state = g.state /\ k.seq = g.seq /\ k.index = h.index
      /\ k.diverged = (g.diverged \/ none)
  BY <1>1, <1>6 DEF History
<1> HIDE DEF k
<1>10. ASSUME ~k.diverged
       PROVE  Reproduced(k) /\ (k.seq + k.index >= 3 + (n + 1) \/ k.seq = Len(events) + 1)
  <2>1. ~g.diverged /\ ~none
    BY <1>6, <1>7, <1>9, <1>10
  <2>2. Reproduced(k)
    BY <1>6, <1>9, <2>1 DEF Reproduced
  <2>3. /\ Len(events) \in Nat /\ h.seq \in Nat /\ h.index \in Nat /\ h.seq <= Len(events) + 1
        /\ h.seq + h.index >= 3 + n \/ h.seq = Len(events) + 1
    BY HistoryNumbers
  <2>4. k.seq \in 1..(Len(events) + 1)
    BY <2>2 DEF Reproduced
  <2>5. k.seq = h.seq + Len(fresh) /\ Len(fresh) # 0
    BY <1>6, <1>8, <1>9, <2>1
  <2>6. k.seq + k.index >= 3 + (n + 1) \/ k.seq = Len(events) + 1
    BY <1>5, <1>9, <2>3, <2>4, <2>5, SMTT(30)
  <2> QED
    BY <2>2, <2>6
<1>11. k.index \in 1..(Len(segments) + 1)
  BY <1>9 DEF Regenerating
<1>12. Regenerating(k, n + 1)
  BY <1>6, <1>7, <1>9, <1>10, <1>11 DEF Regenerating
<1> QED
  BY <1>12 DEF k

(***************************************************************************)
(* One item of the history.                                                *)
(***************************************************************************)
LEMMA ItemReplayed ==
  ASSUME Rows, NEW h, NEW n \in Nat, Regenerating(h, n), NEW item
  PROVE  Regenerating(ReplayItem(h, item), n + 1)
<1>1. CASE h.diverged
  BY <1>1 DEF ReplayItem, Regenerating
<1>2. CASE ~h.diverged /\ h.index <= Len(segments) /\ segments[h.index].first_seq = h.seq
  BY <1>2, SegmentReplayed DEF ReplayItem
<1>3. ASSUME ~h.diverged, ~(h.index <= Len(segments) /\ segments[h.index].first_seq = h.seq)
      PROVE  Regenerating(ReplayItem(h, item), n + 1)
  <2>1. /\ Len(events) \in Nat /\ h.seq \in Nat /\ h.index \in Nat /\ Reproduced(h)
        /\ 1 <= h.seq /\ h.seq <= Len(events) + 1
        /\ h.seq + h.index >= 3 + n \/ h.seq = Len(events) + 1
    BY <1>3, HistoryNumbers
  <2>2. CASE h.seq > Len(events)
    <3>1. ReplayItem(h, item) = h
      BY <1>3, <2>2 DEF ReplayItem
    <3>2. h.seq = Len(events) + 1
      BY <2>1, <2>2
    <3> QED
      BY <3>1, <3>2 DEF Regenerating
  <2>3. CASE ~(h.seq > Len(events)) /\ events[h.seq].type \in {"DATA_QUALITY", "DATA_GAP"}
    <3> DEFINE k == [h EXCEPT !.seq = @ + 1]
    <3>1. ReplayItem(h, item) = k
      BY <1>3, <2>3 DEF ReplayItem
    <3>2. /\ History(k) /\ k.state = h.state /\ k.seq = h.seq + 1 /\ k.index = h.index
          /\ k.diverged = h.diverged
      BY DEF Regenerating, History
    <3> HIDE DEF k
    <3>3. events[h.seq].type # "FROZEN" /\ h.seq <= Len(events)
      BY <2>1, <2>3
    <3>4. k.seq - 1 = h.seq /\ k.seq \in 1..(Len(events) + 1)
      BY <2>1, <3>2, <3>3, SMTT(30)
    <3>5. \A i \in 1..h.seq : i = h.seq \/ i \in 1..(h.seq - 1)
      BY <2>1
    <3>6. \A i \in 1..(h.seq - 1) : events[i].type = "FROZEN" => Frozen(h.state)
      BY <2>1 DEF Reproduced
    <3>7. \A i \in 1..h.seq : events[i].type = "FROZEN" => Frozen(h.state)
      BY <3>3, <3>5, <3>6
    <3>8. Reproduced(k)
      BY <2>1, <3>2, <3>4, <3>7 DEF Reproduced
    <3>9. k.seq + k.index >= 3 + (n + 1) \/ k.seq = Len(events) + 1
      BY <2>1, <3>2, <3>3
    <3>10. Regenerating(k, n + 1)
      BY <3>2, <3>8, <3>9 DEF Regenerating
    <3> QED
      BY <3>1, <3>10
  <2>4. CASE ~(h.seq > Len(events)) /\ events[h.seq].type \notin {"DATA_QUALITY", "DATA_GAP"}
    <3>1. ReplayItem(h, item) = ReplayCommand(h, events[h.seq], BarOf(events[h.seq]))
      BY <1>3, <2>4 DEF ReplayItem
    <3> QED
      BY <1>3, <3>1, CommandReplayed
  <2> QED
    BY <2>2, <2>3, <2>4
<1> QED
  BY <1>1, <1>2, <1>3

ReplayOne(p, n, h) == ReplayItem(h, n)
NumberAt(p, i) == p[i]
ReplayedSoFar(p, s, h) == \A n \in Nat : n = Cardinality(s) => Regenerating(h, n)

Replaying == INSTANCE FoldProofs WITH
  Apply <- ReplayOne, Item <- NumberAt, Pick <- Greatest, Holds <- ReplayedSoFar

(***************************************************************************)
(* A regeneration that does not diverge arrives at a projection with every *)
(* freeze of the ledger.                                                   *)
(***************************************************************************)
LEMMA HistoryCached ==
  ASSUME Rows, ~RegeneratedHistory.diverged
  PROVE  Cached(RegeneratedHistory.projection)
<1> DEFINE created == NewOrderState(ctx, None)
           first == [state |-> created.state, seq |-> Len(created.events) + 1, index |-> 1,
                     diverged |-> NewEvents(<<>>, created, <<>>) # SubSeq(events, 1, 1)]
           N == Len(events) + Len(segments)
           S == 1..N
           items == [n \in 1..(Len(events) + Len(segments)) |-> n]
           h == Replaying!Fold(items, first, S)
<1>1. Len(events) \in Nat /\ Len(segments) \in Nat /\ Len(events) # 0 /\ events[1].type # "FROZEN"
  <2>1. events \in Seq(Range(events)) /\ segments \in Seq(Range(segments)) /\ events # <<>>
    BY DEF Rows
  <2>2. Len(events) \in Nat /\ Len(segments) \in Nat /\ Len(events) # 0
    BY <2>1
  <2> QED
    BY <2>2 DEF Rows
<1>2. Fielded(created.state) /\ Len(created.events) = 1
  BY DEF NewOrderState, StepResult, Fielded
<1> HIDE DEF created
<1>3. /\ History(first) /\ first.state = created.state /\ first.seq = 2 /\ first.index = 1
      /\ first.diverged \in BOOLEAN
  BY <1>2 DEF History
<1>4. RegeneratedHistory = Regenerated(h)
  <2>1. Replay(created) = FoldLeft(ReplayItem, first, items)
    BY DEF Replay
  <2>2. DOMAIN items = S
    OBVIOUS
  <2> HIDE DEF items, S, first
  <2>3. FoldLeft(ReplayItem, first, items) = h
    BY <2>2 DEF FoldLeft, Replaying!Fold, MapThenFoldSet, Replaying!MapThenFoldSet, ReplayOne,
         NumberAt, Greatest
  <2> QED
    BY <2>1, <2>3 DEF RegeneratedHistory, created
<1> HIDE DEF first, items
<1>5. N \in Nat
  BY <1>1
<1> HIDE DEF N
<1>6. IsFiniteSet(S) /\ Cardinality(S) = N
  BY <1>5, FS_Interval
<1>7. Replaying!IsFiniteSet(S)
  BY <1>6 DEF IsFiniteSet, Replaying!IsFiniteSet
<1>8. ASSUME NEW t \in SUBSET S, t # {} PROVE Max(t) \in t
  <2>1. 1 \in Int /\ N \in Int
    BY <1>5
  <2> QED
    BY <1>8, <2>1, Extremes
<1>9. Replaying!Picks(items, S)
  BY <1>8 DEF Replaying!Picks, Greatest
<1>10. ReplayedSoFar(items, {}, first)
  <2>1. Cardinality({}) = 0
    BY FS_EmptySet
  <2>2. Reproduced(first)
    BY <1>1, <1>2, <1>3 DEF Reproduced
  <2>3. Regenerating(first, 0)
    BY <1>1, <1>3, <2>2 DEF Regenerating
  <2> QED
    BY <2>1, <2>3 DEF ReplayedSoFar
<1>11. ASSUME NEW t \in SUBSET S, t # {}, NEW acc, ReplayedSoFar(items, t \ {Greatest(items, t)}, acc)
       PROVE  ReplayedSoFar(items, t, ReplayOne(items, NumberAt(items, Greatest(items, t)), acc))
  <2> DEFINE m == Greatest(items, t)
             k == Cardinality(t) - 1
  <2>1. m \in t /\ IsFiniteSet(t)
    BY <1>6, <1>8, <1>11, FS_Subset DEF Greatest
  <2>2. Cardinality(t \ {m}) = k /\ Cardinality(t) \in Nat /\ Cardinality(t \ {m}) \in Nat
    BY <2>1, FS_RemoveElement, FS_CardinalityType, FS_Subset
  <2>3. k \in Nat /\ k + 1 = Cardinality(t)
    BY <2>2
  <2>4. Regenerating(acc, k)
    BY <1>11, <2>2 DEF ReplayedSoFar
  <2> DEFINE item == NumberAt(items, m)
  <2> HIDE DEF k, item
  <2>5. Regenerating(ReplayItem(acc, item), k + 1)
    BY <2>3, <2>4, ItemReplayed
  <2> QED
    BY <2>3, <2>5 DEF ReplayedSoFar, ReplayOne, item
<1>12. ReplayedSoFar(items, S, h)
  BY <1>7, <1>9, <1>10, <1>11, Replaying!FoldHolds
<1> HIDE DEF h
<1>13. Regenerating(h, N)
  BY <1>5, <1>6, <1>12 DEF ReplayedSoFar
<1>14. /\ RegeneratedHistory.diverged = (h.diverged \/ h.index <= Len(segments))
       /\ RegeneratedHistory.projection = [state |-> h.state, next_seq |-> h.seq]
  BY <1>4 DEF Regenerated
<1>15. h.diverged \in BOOLEAN
  BY <1>13 DEF Regenerating
<1>16. ~h.diverged /\ ~(h.index <= Len(segments))
  BY <1>14, <1>15
<1>17. /\ h.index \in Nat /\ h.index <= Len(segments) + 1
       /\ h.seq \in Nat /\ h.seq <= Len(events) + 1 /\ Reproduced(h)
       /\ h.seq + h.index >= 3 + N \/ h.seq = Len(events) + 1
  BY <1>5, <1>13, <1>16, HistoryNumbers
<1>18. h.seq = Len(events) + 1
  BY <1>1, <1>17 DEF N
<1>19. Froze(events) => Frozen(h.state)
  <2>1. ASSUME NEW e \in Range(events), e.type = "FROZEN" PROVE Frozen(h.state)
    <3>1. events \in Seq(Range(events))
      BY DEF Rows
    <3>2. PICK i \in 1..Len(events) : events[i] = e
      BY <2>1, <3>1 DEF Range
    <3>3. i \in 1..(h.seq - 1)
      BY <1>1, <1>18
    <3> QED
      BY <1>17, <2>1, <3>2, <3>3 DEF Reproduced
  <2> QED
    BY <2>1 DEF Froze
<1> QED
  BY <1>14, <1>17, <1>18, <1>19 DEF Cached, Reproduced

-----------------------------------------------------------------------------
(* The rows after a transaction. *)

\* The ledger has grown by events of the result r.
Grown(r) ==
  /\ Len(events) \in Nat /\ Len(events') \in Nat /\ Len(events) <= Len(events')
  /\ DOMAIN events = 1..Len(events) /\ DOMAIN events' = 1..Len(events')
  /\ \A i \in 1..Len(events) : events'[i] = events[i]
  /\ \A i \in (Len(events) + 1)..Len(events') :
       \E e \in Range(r.events) : events'[i].type = e.type /\ events'[i].ts = e.ts

(***************************************************************************)
(* apply_result appends, and the freezes of the ledger stay in its cache.  *)
(***************************************************************************)
LEMMA Appended ==
  ASSUME Rows, projection # None, FrozenForGood, NEW r, Calm(projection.state, r), NEW bars,
         Append_(r, bars)
  PROVE  /\ Grown(r) /\ FrozenForGood' /\ Cached(projection)'
         /\ events' \in Seq(Range(events')) /\ events' # <<>> /\ events'[1].type = "ORDER_CREATED"
<1> DEFINE new == NewEvents(events, r, bars)
           all == events \o new
<1>1. /\ new \in Seq(Range(new))
      /\ \A x \in Range(new) : \E e \in Range(r.events) : x.type = e.type /\ x.ts = e.ts
  <2>1. Proper(r)
    BY DEF Calm
  <2> QED
    BY <2>1, NewEventsSome
<1>2. events' = all /\ projection' = [state |-> r.state, next_seq |-> projection.next_seq + Len(new)]
  BY DEF Append_
<1> HIDE DEF new
<1>3. events \in Seq(Range(events)) /\ events # <<>>
  BY DEF Rows
<1>4. /\ Range(all) = Range(events) \cup Range(new) /\ all \in Seq(Range(all))
      /\ Len(all) = Len(events) + Len(new) /\ DOMAIN all = 1..(Len(events) + Len(new))
      /\ \A i \in 1..(Len(events) + Len(new)) :
           all[i] = IF i <= Len(events) THEN events[i] ELSE new[i - Len(events)]
  BY <1>1, <1>3, Concat
<1>5. /\ Len(events) \in Nat /\ Len(events) # 0 /\ DOMAIN events = 1..Len(events)
      /\ Len(new) \in Nat /\ DOMAIN new = 1..Len(new)
  BY <1>1, <1>3
<1> HIDE DEF all
<1>6. \A i \in 1..Len(events) : all[i] = events[i]
  BY <1>4, <1>5
<1>7. ASSUME NEW i \in (Len(events) + 1)..Len(all)
      PROVE  \E e \in Range(r.events) : all[i].type = e.type /\ all[i].ts = e.ts
  <2>1. i - Len(events) \in 1..Len(new) /\ all[i] = new[i - Len(events)]
    BY <1>4, <1>5, <1>7
  <2>2. new[i - Len(events)] \in Range(new)
    BY <1>5, <2>1 DEF Range
  <2> QED
    BY <1>1, <2>1, <2>2
<1>8. Grown(r)
  BY <1>2, <1>4, <1>5, <1>6, <1>7 DEF Grown
<1>9. /\ Fielded(projection.state) /\ projection.next_seq = Len(events) + 1
      /\ Froze(events) => Frozen(projection.state)
  BY DEF Rows, Cached
<1>10. Froze(all) => Froze(events) \/ Has(r, "FROZEN")
  <2>1. ASSUME NEW x \in Range(all), x.type = "FROZEN", x \notin Range(events) PROVE Has(r, "FROZEN")
    BY <1>1, <1>4, <2>1 DEF Has
  <2> QED
    BY <2>1 DEF Froze
<1>11. /\ Frozen(projection.state) \/ Has(r, "FROZEN") =>
             Frozen(r.state) /\ \A e \in Range(r.events) : e.type \notin Forbidden
       /\ DOMAIN r.state = DOMAIN projection.state
  BY DEF Calm
<1>12. /\ Fielded(r.state) /\ projection.next_seq + Len(new) = Len(all) + 1
       /\ Froze(all) => Frozen(r.state)
  BY <1>4, <1>5, <1>9, <1>10, <1>11 DEF Fielded
<1>13. Cached(projection)'
  BY <1>2, <1>12 DEF Cached
<1>14. ASSUME NEW i \in DOMAIN all, NEW j \in DOMAIN all, i < j, all[i].type = "FROZEN"
       PROVE  all[j].type \notin Forbidden
  <2>1. CASE j <= Len(events)
    <3>1. i \in DOMAIN events /\ j \in DOMAIN events /\ all[i] = events[i] /\ all[j] = events[j]
      BY <1>4, <1>5, <1>6, <1>14, <2>1
    <3> QED
      BY <1>14, <3>1 DEF FrozenForGood, Forbidden
  <2>2. CASE ~(j <= Len(events))
    <3>1. j \in (Len(events) + 1)..Len(all)
      BY <1>4, <1>5, <2>2
    <3>2. all[i] \in Range(all)
      BY DEF Range
    <3>3. Froze(events) \/ Has(r, "FROZEN")
      BY <1>10, <1>14, <3>2 DEF Froze
    <3>4. \A e \in Range(r.events) : e.type \notin Forbidden
      BY <1>9, <1>11, <3>3
    <3> QED
      BY <1>7, <3>1, <3>4
  <2> QED
    BY <2>1, <2>2
<1>15. FrozenForGood'
  BY <1>2, <1>14 DEF FrozenForGood, Forbidden
<1>16. all # <<>> /\ all[1].type = "ORDER_CREATED" /\ all \in Seq(Range(all))
  <2>1. all[1] = events[1] /\ 1 \in DOMAIN all
    BY <1>4, <1>5, <1>6
  <2>2. events[1].type = "ORDER_CREATED"
    BY DEF Rows
  <2>3. DOMAIN <<>> = {}
    OBVIOUS
  <2> QED
    BY <1>4, <2>1, <2>2, <2>3
<1> QED
  BY <1>2, <1>8, <1>13, <1>15, <1>16

-----------------------------------------------------------------------------
(* The invariant. *)

\* The segments tile the window, and lie in the order in which they were written.
Tiled ==
  /\ SegmentsTile
  /\ \A i \in DOMAIN segments :
       /\ IsExpectedMinute(segments[i].to) /\ segments[i].first_seq <= Len(events) + 1
       /\ run # None => segments[i].asOf <= run.asOf
       /\ \A j \in 1..i : segments[j].to <= segments[i].to

\* A dividend has been credited on a confirmed position.
Credited == (\E i \in DOMAIN events : events[i].type = "DIVIDEND") => Confirmed

LedgerInv == Rows /\ FrozenForGood /\ Tiled /\ DividendOnConfirmedPosition /\ Credited

\* What the calls outside of a cycle write.
Outside(r) ==
  \A e \in Range(r.events) :
    e.type \notin MarketEventTypes \ {"TIME_EXIT"} /\ (e.type = "DIVIDEND" => Confirmed)

(***************************************************************************)
(* The rows that a transaction leaves alone.                               *)
(***************************************************************************)
LEMMA RowsAlone ==
  ASSUME LedgerInv, UNCHANGED <<ctx, now, store, run, events, projection, segments>>
  PROVE  LedgerInv'
BY DEF LedgerInv, Rows, Cached, Segment, FrozenForGood, Tiled, SegmentsTile, Confirmed, LastSegmentEnd,
       DividendOnConfirmedPosition, Credited, Froze

(***************************************************************************)
(* A call outside of a cycle keeps the invariant.                          *)
(***************************************************************************)
LEMMA OutsideKeeps ==
  ASSUME LedgerInv, projection # None, NEW r, Calm(projection.state, r), Outside(r), NEW bars,
         Append_(r, bars), UNCHANGED <<ctx, now, store, run, segments>>
  PROVE  LedgerInv'
<1>1. /\ Grown(r) /\ FrozenForGood' /\ Cached(projection)'
      /\ events' \in Seq(Range(events')) /\ events' # <<>> /\ events'[1].type = "ORDER_CREATED"
  BY Appended DEF LedgerInv
<1>2. Rows'
  BY <1>1 DEF LedgerInv, Rows, Segment
<1>3. Tiled'
  <2>1. \A i \in DOMAIN segments : segments[i].first_seq \in Nat
    BY DEF LedgerInv, Rows, Segment, Range
  <2>2. \A i \in DOMAIN segments : segments[i].first_seq <= Len(events') + 1
    BY <1>1, <2>1 DEF LedgerInv, Tiled, Grown
  <2> QED
    BY <2>2 DEF LedgerInv, Tiled, SegmentsTile
<1>4. Confirmed' = Confirmed
  BY DEF Confirmed, LastSegmentEnd
<1>5. \A i \in DOMAIN events' :
        \/ i \in DOMAIN events /\ events'[i] = events[i]
        \/ /\ ~(i <= Len(events)) /\ events'[i].type \notin MarketEventTypes \ {"TIME_EXIT"}
           /\ events'[i].type = "DIVIDEND" => Confirmed
  BY <1>1 DEF Grown, Outside
<1>6. Credited'
  BY <1>4, <1>5 DEF LedgerInv, Credited
<1>7. DividendOnConfirmedPosition'
  <2>1. ASSUME NEW i \in DOMAIN events', NEW j \in DOMAIN events', i < j,
               events'[i].type = "DIVIDEND", events'[j].type \in MarketEventTypes \ {"TIME_EXIT"}
        PROVE  events'[j].ts >= Sessions[ExSession].open
    <3>1. j \in DOMAIN events /\ events'[j] = events[j]
      BY <1>5, <2>1
    <3>2. i \in DOMAIN events /\ events'[i] = events[i]
      BY <1>1, <1>5, <2>1, <3>1 DEF Grown
    <3> QED
      BY <2>1, <3>1, <3>2 DEF LedgerInv, DividendOnConfirmedPosition
  <2> QED
    BY <2>1 DEF DividendOnConfirmedPosition
<1> QED
  BY <1>1, <1>2, <1>3, <1>6, <1>7 DEF LedgerInv

(***************************************************************************)
(* apply_command keeps it, whether it writes or raises an integrity error. *)
(***************************************************************************)
LEMMA CommandKeeps ==
  ASSUME LedgerInv, projection # None, NEW r, Calm(projection.state, r), Outside(r), NEW bars,
         Command(r, bars)
  PROVE  LedgerInv'
<1>1. CASE IntegrityErrorOf(events, r, bars) # None
  <2>1. UNCHANGED <<ctx, now, store, run, events, projection, segments>>
    BY <1>1 DEF Command, Raise
  <2> QED
    BY <2>1, RowsAlone
<1>2. CASE IntegrityErrorOf(events, r, bars) = None
  <2>1. Append_(r, bars) /\ UNCHANGED <<ctx, now, store, run, segments>>
    BY <1>2 DEF Command
  <2> QED
    BY <2>1, OutsideKeeps
<1> QED
  BY <1>1, <1>2

-----------------------------------------------------------------------------
(* An evaluation. *)

(***************************************************************************)
(* A cycle resumes at an expected minute after every minute evaluated.     *)
(***************************************************************************)
LEMMA Resumes ==
  ASSUME LedgerInv
  PROVE  /\ ResumeFrom \in Nat /\ IsExpectedMinute(ResumeFrom)
         /\ \A i \in DOMAIN segments : segments[i].to < ResumeFrom
         /\ Len(segments) \in Nat /\ DOMAIN segments = 1..Len(segments)
         /\ segments # <<>> => LastSegmentEnd = segments[Len(segments)].to
<1>1. /\ segments \in Seq(Range(segments)) /\ Len(segments) \in Nat /\ DOMAIN segments = 1..Len(segments)
      /\ \A i \in DOMAIN segments : segments[i].to \in Nat
  BY DEF LedgerInv, Rows, Segment, Range
<1>2. CASE segments = <<>>
  <2>1. ResumeFrom = FirstExpectedMinuteAtOrAfter(Created)
    BY <1>2 DEF ResumeFrom, LedgerInv, Rows, Start, EvaluationStart
  <2>2. Created \in Int /\ FirstExpectedMinuteAtOrAfter(Created) # RangeError
    BY WindowAssumption DEF Start, EvaluationStart, RangeError
  <2>3. /\ FirstExpectedMinuteAtOrAfter(Created) \in Nat
        /\ IsExpectedMinute(FirstExpectedMinuteAtOrAfter(Created))
    BY <2>2, FirstIsExpected
  <2> QED
    BY <1>1, <1>2, <2>1, <2>3
<1>3. CASE segments # <<>>
  <2> DEFINE n == Len(segments)
             S == {segments[i].to : i \in DOMAIN segments}
             last == segments[n].to
  <2>1. n \in DOMAIN segments
    BY <1>1, <1>3
  <2>2. \A i \in DOMAIN segments : segments[i].to <= last
    BY <1>1, <2>1 DEF LedgerInv, Tiled
  <2>3. last \in Int /\ last \in S /\ S \in SUBSET (0..last) /\ 0 \in Int /\ \A x \in S : x <= last
    BY <1>1, <2>1, <2>2
  <2> HIDE DEF n, S, last
  <2>4. Max(S) \in S /\ last <= Max(S)
    BY <2>3, Extremes
  <2> DEFINE top == Max(S)
  <2>5. top = last
    <3>1. top \in S /\ last <= top
      BY <2>4
    <3> HIDE DEF top
    <3> QED
      BY <2>3, <3>1
  <2>6. LastSegmentEnd = last
    BY <2>5 DEF LastSegmentEnd, S
  <2>7. IsExpectedMinute(last) /\ last < Until
    BY <2>1 DEF LedgerInv, Rows, Tiled, SegmentsTile, last
  <2>8. PICK k \in DOMAIN Sessions : Until < Sessions[k].open
    BY WindowAssumption
  <2>9. last < Sessions[k].open
    <3>1. 0 \in Int /\ Until \in Nat
      BY WindowAssumption
    <3>2. Sessions[k] \in Window
      BY <2>8, <3>1, Counted
    <3>3. Sessions[k].open \in Nat
      BY <3>2 DEF Window
    <3> QED
      BY <2>3, <2>7, <2>8, <3>1, <3>3
  <2>10. /\ NextExpectedMinute(last) \in Nat /\ last < NextExpectedMinute(last)
         /\ IsExpectedMinute(NextExpectedMinute(last))
    BY <2>3, <2>7, <2>9, NextIsExpected
  <2>11. ResumeFrom = NextExpectedMinute(last)
    BY <1>3, <2>6 DEF ResumeFrom
  <2>12. \A i \in DOMAIN segments : segments[i].to < ResumeFrom
    BY <1>1, <2>2, <2>3, <2>10, <2>11
  <2> QED
    BY <1>1, <1>3, <2>6, <2>10, <2>11, <2>12 DEF last, n
<1> QED
  BY <1>2, <1>3

(***************************************************************************)
(* The window of an evaluation begins where it resumes.                    *)
(***************************************************************************)
LEMMA WindowBounds ==
  ASSUME NEW from \in Nat, IsExpectedMinute(from), NEW horizon \in Int, from < horizon,
         NEW evaluated \in SUBSET MinutesOf(from, horizon), evaluated # {},
         NEW window, window = {m \in MinutesOf(from, horizon) : m <= Max(evaluated)}
  PROVE  /\ window \in SUBSET (from..(horizon - 1)) /\ horizon - 1 \in Int
         /\ \A m \in window : IsExpectedMinute(m)
         /\ Min(window) = from /\ Max(window) \in window
         /\ window = MinutesOf(Min(window), Max(window) + Minute)
<1> DEFINE b == horizon - 1
<1>1. from \in Int /\ b \in Int /\ MinutesOf(from, horizon) \in SUBSET (from..b)
  BY DEF MinutesOf
<1>2. evaluated \in SUBSET (from..b)
  BY <1>1
<1> HIDE DEF b
<1>3. Max(evaluated) \in evaluated
  BY <1>1, <1>2, Extremes
<1>4. from <= Max(evaluated)
  <2> DEFINE top == Max(evaluated)
  <2>1. top \in evaluated
    BY <1>3
  <2> HIDE DEF top
  <2>2. from <= top
    BY <1>2, <2>1
  <2> QED
    BY <2>2 DEF top
<1>5. from \in MinutesOf(from, horizon)
  BY DEF MinutesOf
<1>6. from \in window /\ window \in SUBSET (from..b)
  BY <1>1, <1>4, <1>5
<1>7. Max(window) \in window /\ Min(window) \in window /\ Min(window) <= from
  BY <1>1, <1>6, Extremes
<1>8. Min(window) = from
  BY <1>1, <1>6, <1>7
<1>9. \A m \in window : IsExpectedMinute(m)
  BY DEF MinutesOf
<1>10. window = MinutesOf(from, Max(window) + Minute)
  <2> DEFINE top == Max(window)
             last == Max(evaluated)
  <2>1. top \in window /\ \A m \in window : m <= top
    BY <1>1, <1>6, Extremes
  <2>2. Minute \in Nat \ {0} /\ \A m : IsExpectedMinute(m) => m % Minute = 0
    BY CalendarAssumption DEF IsExpectedMinute, IsWholeMinute
  <2>3. last \in Int
    <3>1. last \in evaluated
      BY <1>3
    <3> HIDE DEF last
    <3> QED
      BY <1>1, <1>2, <3>1
  <2> HIDE DEF top, last
  <2>4. top \in from..b /\ top <= last /\ IsExpectedMinute(top)
    BY <1>6, <1>9, <2>1 DEF last
  <2>5. ASSUME NEW m \in MinutesOf(from, top + Minute) PROVE m \in window
    <3>1. m \in Int /\ from <= m /\ m < top + Minute /\ IsExpectedMinute(m)
      BY <1>1, <2>2, <2>4 DEF MinutesOf
    <3>2. top < m => top + Minute <= m
      BY <2>2, <2>4, <3>1, Multiples
    <3>3. m <= top
      BY <2>2, <2>4, <3>1, <3>2
    <3>4. m <= last /\ m \in from..(horizon - 1)
      BY <1>1, <2>3, <2>4, <3>1, <3>3 DEF b
    <3> QED
      BY <3>1, <3>4 DEF MinutesOf, last
  <2>6. ASSUME NEW m \in window PROVE m \in MinutesOf(from, top + Minute)
    <3>1. m \in from..b /\ m <= top /\ IsExpectedMinute(m)
      BY <1>6, <1>9, <2>1
    <3>2. m \in from..(top + Minute - 1)
      BY <1>1, <2>2, <2>4, <3>1
    <3> DEFINE end == top + Minute
    <3>3. m \in from..(end - 1)
      BY <1>1, <2>2, <2>4, <3>2
    <3> HIDE DEF end
    <3>4. m \in MinutesOf(from, end)
      BY <3>1, <3>3 DEF MinutesOf
    <3> QED
      BY <3>4 DEF end
  <2>7. window = MinutesOf(from, top + Minute)
    BY <2>5, <2>6
  <2> QED
    BY <2>7 DEF top
<1> QED
  BY <1>1, <1>6, <1>7, <1>8, <1>9, <1>10 DEF b

(***************************************************************************)
(* A segment is appended after the others.                                 *)
(***************************************************************************)
LEMMA SegmentAppended ==
  ASSUME LedgerInv, projection # None, run # None, NEW from \in Nat, NEW to \in Nat,
         from = ResumeFrom, from <= to, to < ctx.until, IsExpectedMinute(to),
         NEW seg, seg.asOf = run.asOf, seg.from = from, seg.to = to,
         seg.first_seq = projection.next_seq, seg.count \in Nat,
         segments' = Append(segments, seg), UNCHANGED <<ctx, now, store, run>>,
         Len(events') \in Nat, Len(events) \in Nat, Len(events) <= Len(events')
  PROVE  /\ segments' \in Seq(Range(segments')) /\ (\A s \in Range(segments') : Segment(s)')
         /\ Tiled' /\ segments' # <<>> /\ LastSegmentEnd' = to
         /\ segments # <<>> => LastSegmentEnd < to
<1> DEFINE n == Len(segments)
           all == Append(segments, seg)
<1>1. /\ n \in Nat /\ segments \in Seq(Range(segments)) /\ DOMAIN segments = 1..n
      /\ \A i \in DOMAIN segments : segments[i].to < ResumeFrom
      /\ segments # <<>> => LastSegmentEnd = segments[n].to
  BY Resumes DEF LedgerInv, Rows
<1>2. /\ all \in Seq(Range(segments) \cup {seg}) /\ Len(all) = n + 1 /\ DOMAIN all = 1..(n + 1)
      /\ \A i \in 1..n : all[i] = segments[i]
      /\ all[n + 1] = seg
  <2> DEFINE R == Range(segments) \cup {seg}
  <2>1. segments \in Seq(R) /\ seg \in R
    BY <1>1
  <2> HIDE DEF R
  <2>2. all \in Seq(R) /\ Len(all) = n + 1 /\ (\A i \in 1..n : all[i] = segments[i]) /\ all[n + 1] = seg
    BY <2>1
  <2>3. DOMAIN all = 1..(n + 1)
    BY <2>2
  <2> QED
    BY <2>2, <2>3 DEF R
<1> HIDE DEF n
<1>3. segments' = all
  BY DEF all
<1> HIDE DEF all
<1>4. all \in Seq(Range(all)) /\ Range(all) = Range(segments) \cup {seg}
  <2>1. \A i \in 1..(n + 1) : i \in 1..n \/ i = n + 1
    BY <1>1
  <2>2. Range(all) = Range(segments) \cup {seg}
    <3>1. Range(all) = {all[i] : i \in 1..(n + 1)} /\ Range(segments) = {segments[i] : i \in 1..n}
      BY <1>1, <1>2 DEF Range
    <3>2. \A x : x \in Range(all) <=> x \in Range(segments) \/ x = seg
      BY <1>1, <1>2, <2>1, <3>1
    <3> QED
      BY <3>2
  <2> QED
    BY <1>2, <2>2
<1>5. \A s \in Range(segments) : Segment(s)
  BY DEF LedgerInv, Rows
<1>6. /\ run.asOf \in 0..Len(store) /\ projection.next_seq = Len(events) + 1
  BY DEF LedgerInv, Rows, Cached
<1>7. \A s \in Range(all) : Segment(s)'
  <2>1. Segment(seg)
    BY <1>6 DEF Segment
  <2> QED
    BY <1>4, <1>5, <2>1 DEF Segment
<1>8. \A i \in 1..n : segments[i] \in Range(segments) /\ Segment(segments[i])
  BY <1>1, <1>5 DEF Range
<1>9. all # <<>>
  BY <1>1, <1>2
<1>10. \A i \in 1..n : all[i].to < to /\ all[i].to \in Nat
  <2>1. \A i \in 1..n : all[i] = segments[i] /\ segments[i].to \in Nat /\ segments[i].to < from
    BY <1>1, <1>2, <1>8 DEF Segment
  <2> QED
    BY <2>1
<1>11. LastSegmentEnd' = to
  <2> DEFINE S == {all[i].to : i \in DOMAIN all}
  <2>1. \A i \in DOMAIN all : all[i].to <= to /\ all[i].to \in 0..to
    <3>1. \A i \in DOMAIN all : i \in 1..n \/ i = n + 1
      BY <1>1, <1>2
    <3> QED
      BY <1>2, <1>10, <3>1
  <2>2. n + 1 \in DOMAIN all
    BY <1>1, <1>2
  <2>3. to \in S /\ S \in SUBSET (0..to) /\ 0 \in Int /\ to \in Int /\ \A x \in S : x <= to
    BY <1>2, <2>1, <2>2
  <2> HIDE DEF S
  <2>4. Max(S) \in S /\ to <= Max(S)
    BY <2>3, Extremes
  <2> DEFINE top == Max(S)
  <2>5. top = to
    <3>1. top \in S /\ to <= top
      BY <2>4
    <3> HIDE DEF top
    <3> QED
      BY <2>3, <3>1
  <2> QED
    BY <1>3, <2>5 DEF LastSegmentEnd, S
<1>12. segments # <<>> => LastSegmentEnd < to /\ n \in 1..n /\ LastSegmentEnd = segments[n].to
  <2>1. segments # <<>> => n \in 1..n
    BY <1>1 DEF n
  <2> QED
    BY <1>1, <1>2, <1>10, <2>1
<1>13. n # 0 => segments # <<>>
  BY DEF n
<1>14. from = IF n = 0 THEN ctx.start ELSE NextExpectedMinute(segments[n].to)
  BY <1>1, <1>12, <1>13 DEF ResumeFrom, n
<1>15. ASSUME NEW i \in DOMAIN all
       PROVE  /\ all[i].from = IF i = 1 THEN ctx.start ELSE NextExpectedMinute(all[i - 1].to)
              /\ all[i].from <= all[i].to /\ all[i].to < ctx.until
              /\ i > 1 => /\ all[i - 1].asOf <= all[i].asOf
                          /\ all[i - 1].first_seq <= all[i].first_seq
              /\ IsExpectedMinute(all[i].to) /\ all[i].first_seq <= Len(events') + 1
              /\ all[i].asOf <= run.asOf
              /\ \A j \in 1..i : all[j].to <= all[i].to
  <2>1. CASE i \in 1..n
    <3>1. \A j \in 1..i : j \in 1..n /\ all[j] = segments[j]
      <4>1. \A j \in 1..i : j \in 1..n
        BY <1>1, <2>1
      <4> QED
        BY <1>2, <4>1
    <3>2. i # 1 => i - 1 \in 1..i
      BY <1>1, <2>1
    <3>3. i \in 1..i
      BY <1>1, <2>1
    <3>4. /\ segments[i].from = IF i = 1 THEN ctx.start ELSE NextExpectedMinute(segments[i - 1].to)
          /\ segments[i].from <= segments[i].to /\ segments[i].to < ctx.until
          /\ i > 1 => /\ segments[i - 1].asOf <= segments[i].asOf
                      /\ segments[i - 1].first_seq <= segments[i].first_seq
          /\ IsExpectedMinute(segments[i].to) /\ segments[i].first_seq <= Len(events) + 1
          /\ segments[i].asOf <= run.asOf
          /\ \A j \in 1..i : segments[j].to <= segments[i].to
      BY <1>1, <2>1 DEF LedgerInv, Tiled, SegmentsTile
    <3>5. segments[i].first_seq <= Len(events') + 1
      <4>1. segments[i].first_seq \in Nat
        BY <1>8, <2>1 DEF Segment
      <4> QED
        BY <3>4, <4>1
    <3> QED
      BY <1>1, <2>1, <3>1, <3>2, <3>3, <3>4, <3>5
  <2>2. CASE i = n + 1
    <3>1. all[i] = seg /\ i - 1 = n /\ (i = 1 <=> n = 0) /\ (i > 1 => n \in 1..n)
      BY <1>1, <1>2, <2>2
    <3>2. n \in 1..n => /\ all[n] = segments[n] /\ Segment(segments[n])
                        /\ segments[n].first_seq <= Len(events) + 1 /\ segments[n].asOf <= run.asOf
      BY <1>1, <1>2, <1>8 DEF LedgerInv, Tiled
    <3>3. \A j \in 1..i : all[j].to <= to
      <4>1. \A j \in 1..i : j \in 1..n \/ j = n + 1
        BY <1>1, <2>2
      <4>2. \A j \in 1..n : all[j].to <= to
        BY <1>10
      <4> QED
        BY <1>2, <4>1, <4>2
    <3>4. all[i].from = IF i = 1 THEN ctx.start ELSE NextExpectedMinute(all[i - 1].to)
      BY <1>1, <1>14, <3>1, <3>2
    <3>5. seg.first_seq <= Len(events') + 1
      BY <1>6
    <3>6. i > 1 => all[i - 1].asOf <= all[i].asOf /\ all[i - 1].first_seq <= all[i].first_seq
      BY <1>6, <3>1, <3>2
    <3>7. run.asOf <= run.asOf
      BY <1>6
    <3> HIDE DEF n
    <3> QED
      BY <3>1, <3>3, <3>4, <3>5, <3>6, <3>7
  <2> QED
    BY <1>1, <1>2, <2>1, <2>2
<1>16. Tiled'
  BY <1>3, <1>15 DEF Tiled, SegmentsTile
<1> QED
  BY <1>3, <1>4, <1>7, <1>9, <1>11, <1>12, <1>16

(***************************************************************************)
(* A bar evaluated after a confirmed position is of the ex-date or later.  *)
(***************************************************************************)
LEMMA AfterConfirmed ==
  ASSUME LedgerInv, Confirmed, NEW ts \in Int, IsExpectedMinute(ts), ResumeFrom <= ts
  PROVE  Sessions[ExSession].open <= ts
<1> DEFINE close == Sessions[ExSession - 1].close
           last == LastSegmentEnd
<1>1. ExSession \in DOMAIN Sessions /\ ExSession - 1 \in DOMAIN Sessions /\ Len(Sessions) \in Nat
  <2>1. Len(Sessions) \in Nat /\ DOMAIN Sessions = 1..Len(Sessions)
    BY Counted
  <2> QED
    BY <2>1, ExDateAssumption
<1>2. Minute \in Nat \ {0} /\ close \in Nat /\ close % Minute = 0 /\ ts % Minute = 0
  <2>1. close \in Nat
    BY <1>1, Counted DEF Window
  <2>2. close % Minute = 0
    BY <1>1, CalendarAssumption DEF IsCalendar, IsWholeMinute
  <2> QED
    BY <2>1, <2>2, CalendarAssumption DEF IsExpectedMinute, IsWholeMinute
<1>3. segments # <<>> /\ last >= close - Minute
  BY DEF Confirmed
<1>4. /\ last = segments[Len(segments)].to /\ Len(segments) \in DOMAIN segments
      /\ ResumeFrom \in Nat /\ \A i \in DOMAIN segments : segments[i].to < ResumeFrom
  BY <1>3, Resumes DEF LedgerInv, Rows
<1>5. last \in Nat /\ last < ResumeFrom
  BY <1>4 DEF LedgerInv, Rows, Segment, Range
<1> HIDE DEF last
<1>6. close - Minute < ts
  BY <1>2, <1>3, <1>4, <1>5
<1> HIDE DEF close
<1>7. ~(ts < close)
  <2>1. close \in Int
    BY <1>2
  <2>2. ts < close => ts + Minute <= close
    BY <1>2, <2>1, Multiples
  <2> QED
    BY <1>2, <1>6, <2>2
<1>8. Sessions[ExSession - 1].close <= ts
  BY <1>2, <1>7 DEF close
<1> QED
  BY <1>1, <1>8, ClosedBetween

(***************************************************************************)
(* What an evaluation appends: events of its bars, and its segment.        *)
(***************************************************************************)
LEMMA EvaluationAppends ==
  ASSUME LedgerInv, projection # None, run # None, NEW from \in Nat, NEW to \in Nat,
         from = ResumeFrom, from <= to, to < ctx.until, IsExpectedMinute(to),
         NEW bars, \A bar \in Range(bars) : bar.ts \in Int /\ from <= bar.ts /\ IsExpectedMinute(bar.ts),
         NEW r, Ran(projection.state, bars, r), Append_(r, bars),
         NEW seg, seg.asOf = run.asOf, seg.from = from, seg.to = to,
         seg.first_seq = projection.next_seq, seg.count \in Nat,
         segments' = Append(segments, seg), UNCHANGED <<ctx, now, store, run>>
  PROVE  LedgerInv'
<1>1. Calm(projection.state, r) /\ Writes(r, BarTypes)
  BY BarsCalm
<1>2. /\ Grown(r) /\ FrozenForGood' /\ Cached(projection)'
      /\ events' \in Seq(Range(events')) /\ events' # <<>> /\ events'[1].type = "ORDER_CREATED"
  BY <1>1, Appended DEF LedgerInv
<1>3. Len(events') \in Nat /\ Len(events) \in Nat /\ Len(events) <= Len(events')
  BY <1>2 DEF Grown
<1>4. /\ segments' \in Seq(Range(segments')) /\ (\A s \in Range(segments') : Segment(s)')
      /\ Tiled' /\ segments' # <<>> /\ LastSegmentEnd' = to
      /\ segments # <<>> => LastSegmentEnd < to
  BY <1>3, SegmentAppended
<1>5. Rows'
  BY <1>2, <1>4 DEF LedgerInv, Rows
<1>6. "DIVIDEND" \notin BarTypes
  BY DEF BarTypes, MarketEventTypes
<1>7. ASSUME NEW i \in DOMAIN events', events'[i].type = "DIVIDEND"
      PROVE  i \in DOMAIN events /\ events'[i] = events[i] /\ Confirmed
  <2>1. i \in 1..Len(events) \/ i \in (Len(events) + 1)..Len(events')
    BY <1>2 DEF Grown
  <2>2. i \notin (Len(events) + 1)..Len(events')
    BY <1>1, <1>2, <1>6, <1>7 DEF Grown, Writes
  <2>3. i \in DOMAIN events /\ events'[i] = events[i]
    BY <1>2, <2>1, <2>2 DEF Grown
  <2> QED
    BY <1>7, <2>3 DEF LedgerInv, Credited
<1>8. Confirmed => Confirmed'
  <2>1. ASSUME Confirmed PROVE to >= Sessions[ExSession - 1].close - Minute
    <3>1. Sessions[ExSession - 1].close \in Int /\ Minute \in Int
      <4>1. Len(Sessions) \in Nat /\ DOMAIN Sessions = 1..Len(Sessions)
        BY Counted
      <4>2. ExSession - 1 \in DOMAIN Sessions
        BY <4>1, ExDateAssumption
      <4>3. Sessions[ExSession - 1] \in Window
        BY <4>2, Counted
      <4> QED
        BY <4>3, CalendarAssumption DEF Window
    <3>2. segments # <<>> /\ LastSegmentEnd >= Sessions[ExSession - 1].close - Minute
      BY <2>1 DEF Confirmed
    <3>3. LastSegmentEnd \in Int
      <4>1. LastSegmentEnd = segments[Len(segments)].to /\ Len(segments) \in DOMAIN segments
        BY <3>2, Resumes DEF LedgerInv, Rows
      <4>2. segments[Len(segments)] \in Range(segments)
        BY <4>1 DEF Range
      <4>3. Segment(segments[Len(segments)])
        BY <4>2 DEF LedgerInv, Rows
      <4> QED
        BY <4>1, <4>3 DEF Segment
    <3> QED
      BY <1>4, <3>1, <3>2, <3>3
  <2> QED
    BY <1>4, <2>1 DEF Confirmed
<1>9. Credited'
  BY <1>7, <1>8 DEF Credited
<1>10. DividendOnConfirmedPosition'
  <2>1. ASSUME NEW i \in DOMAIN events', NEW j \in DOMAIN events', i < j,
               events'[i].type = "DIVIDEND", events'[j].type \in MarketEventTypes \ {"TIME_EXIT"}
        PROVE  events'[j].ts >= Sessions[ExSession].open
    <3>1. i \in DOMAIN events /\ events'[i] = events[i] /\ Confirmed
      BY <1>7, <2>1
    <3>2. CASE j \in 1..Len(events)
      <4>1. j \in DOMAIN events /\ events'[j] = events[j]
        BY <1>2, <3>2 DEF Grown
      <4> QED
        BY <2>1, <3>1, <4>1 DEF LedgerInv, DividendOnConfirmedPosition
    <3>3. CASE j \in (Len(events) + 1)..Len(events')
      <4>1. PICK e \in Range(r.events) : events'[j].type = e.type /\ events'[j].ts = e.ts
        BY <1>2, <3>3 DEF Grown
      <4>2. e.type # "EXPIRED"
        BY <2>1, <4>1 DEF MarketEventTypes
      <4>3. PICK bar \in Range(bars) : e.ts = bar.ts
        BY <4>2 DEF Ran
      <4>4. Sessions[ExSession].open <= bar.ts
        BY <3>1, <4>3, AfterConfirmed
      <4>5. Sessions[ExSession].open \in Int /\ bar.ts \in Int
        <5>1. Len(Sessions) \in Nat /\ DOMAIN Sessions = 1..Len(Sessions)
          BY Counted
        <5>2. ExSession \in DOMAIN Sessions
          BY <5>1, ExDateAssumption
        <5>3. Sessions[ExSession] \in Window
          BY <5>2, Counted
        <5> QED
          BY <5>3 DEF Window
      <4> QED
        BY <4>1, <4>3, <4>4, <4>5
    <3> QED
      BY <1>2, <3>2, <3>3 DEF Grown
  <2> QED
    BY <2>1 DEF DividendOnConfirmedPosition
<1> QED
  BY <1>2, <1>4, <1>5, <1>9, <1>10 DEF LedgerInv

\* What an evaluation writes of the bars used for the minutes of the window.
SegmentOf(window, used, r) ==
  [asOf |-> run.asOf, from |-> Min(window), to |-> Max(window),
   data |-> SelectedData(window, used), first_seq |-> projection.next_seq,
   count |-> Len(NewEvents(events, r, used))]

Evaluated(window, used, r) ==
  /\ run # None /\ projection # None
  /\ used = BarsAsOf(run.asOf, window) /\ r = RunBars(projection.state, used, ctx)
  /\ IF IntegrityErrorOf(events, r, used) # None THEN Raise(IntegrityErrorOf(events, r, used))
     ELSE /\ Append_(r, used) /\ segments' = Append(segments, SegmentOf(window, used, r))
          /\ UNCHANGED <<ctx, now, store, run, incidents>>

\* The minutes from where the evaluation resumes up to one before the end, and
\* bars of them.
Windowed(window, used) ==
  /\ window \in SUBSET (ResumeFrom..(ctx.until - 1)) /\ ctx.until \in Nat
  /\ \A m \in window : IsExpectedMinute(m)
  /\ Min(window) = ResumeFrom /\ Max(window) \in window
  /\ window = MinutesOf(Min(window), Max(window) + Minute)
  /\ used \in Seq(Range(used)) /\ \A bar \in Range(used) : bar.ts \in window /\ "ts" \in DOMAIN bar

(***************************************************************************)
(* The window of an evaluation is what its segment names.                  *)
(***************************************************************************)
LEMMA EvaluatesWindow ==
  ASSUME LedgerInv, Evaluate
  PROVE  \E window, used, r : Evaluated(window, used, r) /\ Windowed(window, used)
<1> DEFINE horizon == Lesser(ctx.until, Floor(run.marketNow))
           minutes == MinutesOf(ResumeFrom, horizon)
           evaluated == IF run.close THEN minutes ELSE Stored(run.asOf, minutes)
           window == {m \in minutes : m <= Max(evaluated)}
           used == BarsAsOf(run.asOf, window)
           r == RunBars(projection.state, used, ctx)
           seg == [asOf |-> run.asOf, from |-> Min(window), to |-> Max(window),
                   data |-> SelectedData(window, used), first_seq |-> projection.next_seq,
                   count |-> Len(NewEvents(events, r, used))]
           error == IntegrityErrorOf(events, r, used)
<1>1. /\ run # None /\ projection # None /\ ResumeFrom < horizon /\ evaluated # {}
      /\ error # None => Raise(error)
      /\ error = None => /\ Append_(r, used) /\ segments' = Append(segments, seg)
                         /\ UNCHANGED <<ctx, now, store, run, incidents>>
  BY DEF Evaluate, Live
<1>2. Evaluated(window, used, r)
  BY <1>1 DEF Evaluated, SegmentOf
<1>3. ResumeFrom \in Nat /\ IsExpectedMinute(ResumeFrom)
  BY Resumes
<1>4. horizon \in Int /\ horizon <= ctx.until /\ ctx.until \in Nat
  <2>1. ctx.until \in Nat /\ run.marketNow \in Nat
    BY <1>1, WindowAssumption DEF LedgerInv, Rows
  <2>2. Floor(run.marketNow) \in Int
    BY <2>1, CalendarAssumption DEF Floor
  <2> QED
    BY <2>1, <2>2, NoneAssumption DEF Lesser
<1>5. evaluated \in SUBSET minutes
  BY DEF Stored
<1>6. /\ window \in SUBSET (ResumeFrom..(horizon - 1)) /\ horizon - 1 \in Int
      /\ \A m \in window : IsExpectedMinute(m)
      /\ Min(window) = ResumeFrom /\ Max(window) \in window
      /\ window = MinutesOf(Min(window), Max(window) + Minute)
  <2> DEFINE from == ResumeFrom
             bound_ == horizon
             chosen == evaluated
  <2>1. /\ from \in Nat /\ IsExpectedMinute(from) /\ bound_ \in Int /\ from < bound_
        /\ chosen \in SUBSET MinutesOf(from, bound_) /\ chosen # {}
        /\ window = {m \in MinutesOf(from, bound_) : m <= Max(chosen)}
    BY <1>1, <1>3, <1>4, <1>5
  <2> HIDE DEF from, bound_, chosen, window
  <2>2. /\ window \in SUBSET (from..(bound_ - 1)) /\ bound_ - 1 \in Int
        /\ \A m \in window : IsExpectedMinute(m)
        /\ Min(window) = from /\ Max(window) \in window
        /\ window = MinutesOf(Min(window), Max(window) + Minute)
    BY <2>1, WindowBounds
  <2> QED
    BY <2>2 DEF from, bound_
<1> HIDE DEF horizon, minutes, evaluated
<1>7. used \in Seq(Range(used)) /\ \A bar \in Range(used) : bar.ts \in window /\ "ts" \in DOMAIN bar
  <2> DEFINE a == ResumeFrom
             b == horizon - 1
             asOf == run.asOf
  <2>1. /\ asOf \in 0..Len(store) /\ store \in Seq(Range(store))
        /\ \A bar \in Range(store) : "ts" \in DOMAIN bar
    BY <1>1 DEF LedgerInv, Rows
  <2>2. \A i \in 1..asOf : store[i] \in Range(store)
    BY <2>1 DEF Range
  <2>3. /\ a \in Int /\ b \in Int /\ window \in SUBSET (a..b) /\ asOf \in Nat
        /\ \A i \in 1..asOf : "ts" \in DOMAIN store[i]
    BY <1>3, <1>6, <2>1, <2>2
  <2> HIDE DEF a, b, asOf, window
  <2>4. /\ BarsAsOf(asOf, window) \in Seq(Range(BarsAsOf(asOf, window)))
        /\ \A bar \in Range(BarsAsOf(asOf, window)) : bar.ts \in window /\ "ts" \in DOMAIN bar
    BY <2>3, BarsType
  <2> QED
    BY <2>4 DEF asOf
<1>8. window \in SUBSET (ResumeFrom..(ctx.until - 1))
  <2> HIDE DEF window
  <2> QED
    BY <1>3, <1>4, <1>6
<1> HIDE DEF window, used, r
<1> QED
  BY <1>2, <1>4, <1>6, <1>7, <1>8 DEF Windowed

(***************************************************************************)
(* evaluate_order keeps the invariant.                                     *)
(***************************************************************************)
LEMMA EvaluateKeeps ==
  ASSUME LedgerInv, Evaluate
  PROVE  LedgerInv'
<1>1. PICK window, used, r : Evaluated(window, used, r) /\ Windowed(window, used)
  BY EvaluatesWindow
<1> DEFINE seg == SegmentOf(window, used, r)
           from == Min(window)
           to == Max(window)
           error == IntegrityErrorOf(events, r, used)
<1>2. run # None /\ projection # None
  BY <1>1 DEF Evaluated
<1>3. CASE error # None
  <2>1. UNCHANGED <<ctx, now, store, run, events, projection, segments>>
    BY <1>1, <1>3 DEF Evaluated, Raise
  <2> QED
    BY <2>1, RowsAlone
<1>4. CASE error = None
  <2>1. /\ Append_(r, used) /\ segments' = Append(segments, seg) /\ UNCHANGED <<ctx, now, store, run>>
        /\ r = RunBars(projection.state, used, ctx)
    BY <1>1, <1>4 DEF Evaluated
  <2>2. /\ used \in Seq(Range(used)) /\ \A bar \in Range(used) : bar.ts \in window /\ "ts" \in DOMAIN bar
        /\ \A m \in window : m \in ResumeFrom..(ctx.until - 1) /\ IsExpectedMinute(m)
        /\ from = ResumeFrom /\ to \in window /\ ctx.until \in Nat
    BY <1>1 DEF Windowed
  <2>3. ResumeFrom \in Nat
    BY Resumes
  <2>4. Ran(projection.state, used, r)
    BY <2>1, <2>2, RunBarsRan
  <2>5. Len(NewEvents(events, r, used)) \in Nat
    <3> DEFINE new == NewEvents(events, r, used)
    <3>1. new \in Seq(Range(new))
      BY <2>4, NewEventsSome DEF Ran
    <3> HIDE DEF new
    <3>2. Len(new) \in Nat
      BY <3>1
    <3> QED
      BY <3>2 DEF new
  <2>6. /\ seg.asOf = run.asOf /\ seg.from = from /\ seg.to = to
        /\ seg.first_seq = projection.next_seq /\ seg.count \in Nat
    BY <2>5 DEF SegmentOf
  <2> HIDE DEF from, to, seg
  <2>7. from \in Nat /\ to \in Nat /\ from <= to /\ to < ctx.until /\ IsExpectedMinute(to)
    BY <2>2, <2>3
  <2>8. \A bar \in Range(used) : bar.ts \in Int /\ from <= bar.ts /\ IsExpectedMinute(bar.ts)
    BY <2>2, <2>3
  <2> QED
    BY <1>2, <2>1, <2>2, <2>4, <2>6, <2>7, <2>8, EvaluationAppends
<1> QED
  BY <1>3, <1>4

-----------------------------------------------------------------------------
(* Every action. *)

(***************************************************************************)
(* An order is created with its one event.                                 *)
(***************************************************************************)
LEMMA InitLedger ==
  ASSUME Init
  PROVE  LedgerInv
<1> DEFINE created == NewOrderState(ctx, None)
           first == Prepared(created.events[1], <<>>)
<1>1. /\ now = Created /\ store = <<>> /\ run = None /\ segments = <<>>
      /\ ctx.start = Start /\ ctx.until = Until
      /\ events = [i \in DOMAIN created.events |-> Prepared(created.events[i], <<>>)]
      /\ projection = [state |-> created.state, next_seq |-> 2]
  BY DEF Init
<1>2. /\ created.events = <<Event("ORDER_CREATED", None)>>
      /\ Fielded(created.state)
  BY DEF NewOrderState, StepResult, Fielded
<1> HIDE DEF created
<1>3. first.type = "ORDER_CREATED"
  BY <1>2 DEF Event, Prepared
<1>4. events = <<first>>
  BY <1>1, <1>2
<1> HIDE DEF first
<1>5. /\ events \in Seq(Range(events)) /\ events # <<>> /\ Len(events) = 1
      /\ DOMAIN events = {1} /\ events[1].type = "ORDER_CREATED" /\ Range(events) = {first}
  BY <1>3, <1>4 DEF Range
<1>6. Range(segments) = {} /\ Range(store) = {} /\ segments \in Seq({}) /\ store \in Seq({})
      /\ DOMAIN segments = {}
  BY <1>1 DEF Range
<1>7. ~Froze(events)
  BY <1>3, <1>5 DEF Froze
<1>8. Cached(projection)
  <2>1. projection.state = created.state /\ projection.next_seq = 2
    BY <1>1
  <2>2. Len(events) + 1 = 2
    BY <1>5
  <2> QED
    BY <1>2, <1>7, <2>1, <2>2 DEF Cached
<1>9. Rows
  BY <1>1, <1>5, <1>6, <1>8, WindowAssumption DEF Rows
<1>10. FrozenForGood /\ DividendOnConfirmedPosition
  BY <1>5 DEF FrozenForGood, DividendOnConfirmedPosition
<1>11. Tiled /\ Credited
  BY <1>5, <1>6 DEF Tiled, SegmentsTile, Credited
<1> QED
  BY <1>9, <1>10, <1>11 DEF LedgerInv

(***************************************************************************)
(* Time, bars, and the beginning and the end of a cycle.                   *)
(***************************************************************************)
LEMMA CycleKeeps ==
  ASSUME LedgerInv
  PROVE  /\ Tick => LedgerInv'
         /\ \A candle, ts : Ingest(candle, ts) => LedgerInv'
         /\ \A close : StartRun(now, close) => LedgerInv'
         /\ EndRun => LedgerInv'
<1>1. ASSUME Tick PROVE LedgerInv'
  BY <1>1 DEF Tick, LedgerInv, Rows, Cached, Segment, FrozenForGood, Tiled, SegmentsTile, Confirmed,
     LastSegmentEnd, DividendOnConfirmedPosition, Credited, Froze
<1>2. ASSUME NEW candle, NEW ts, Ingest(candle, ts) PROVE LedgerInv'
  <2> DEFINE bar == [ts |-> ts, open |-> candle.open, high |-> candle.high, low |-> candle.low,
                     close |-> candle.close, batch |-> Len(store) + 1]
             all == Append(store, bar)
  <2>1. store' = all /\ UNCHANGED <<ctx, now, run, events, projection, segments>>
    BY <1>2 DEF Ingest
  <2>2. store \in Seq(Range(store)) /\ \A b \in Range(store) : "ts" \in DOMAIN b
    BY DEF LedgerInv, Rows
  <2>3. "ts" \in DOMAIN bar
    OBVIOUS
  <2> HIDE DEF bar
  <2>4. /\ Len(store) \in Nat /\ Len(all) = Len(store) + 1 /\ all \in Seq(Range(all))
        /\ Range(all) = Range(store) \cup {bar}
    <3> DEFINE n == Len(store)
               R == Range(store) \cup {bar}
    <3>1. store \in Seq(R) /\ bar \in R /\ n \in Nat /\ DOMAIN store = 1..n
      BY <2>2
    <3> HIDE DEF R
    <3>2. all \in Seq(R) /\ Len(all) = n + 1 /\ (\A i \in 1..n : all[i] = store[i]) /\ all[n + 1] = bar
      BY <3>1
    <3>3. DOMAIN all = 1..(n + 1)
      BY <3>2
    <3> HIDE DEF all, n
    <3>4. \A x : x \in Range(all) <=> x \in Range(store) \/ x = bar
      <4>1. \A i \in 1..(n + 1) : i \in 1..n \/ i = n + 1
        BY <3>1
      <4>2. Range(all) = {all[i] : i \in 1..(n + 1)} /\ Range(store) = {store[i] : i \in 1..n}
        BY <3>1, <3>3 DEF Range
      <4> QED
        BY <3>1, <3>2, <4>1, <4>2
    <3>5. Range(all) = R
      BY <3>4 DEF R
    <3> QED
      BY <3>1, <3>2, <3>5 DEF n, R
  <2> HIDE DEF all
  <2>5. \A k \in 0..Len(store) : k \in 0..Len(all)
    BY <2>4
  <2>6. (\A b \in Range(all) : "ts" \in DOMAIN b)
    BY <2>2, <2>3, <2>4
  <2>7. \A seg \in Range(segments) : Segment(seg)'
    BY <2>1, <2>5 DEF LedgerInv, Rows, Segment
  <2>8. Rows'
    BY <2>1, <2>4, <2>5, <2>6, <2>7 DEF LedgerInv, Rows, Cached, Froze
  <2> QED
    BY <2>1, <2>8 DEF LedgerInv, FrozenForGood, Tiled, SegmentsTile, Confirmed, LastSegmentEnd,
       DividendOnConfirmedPosition, Credited
<1>3. ASSUME NEW close, StartRun(now, close) PROVE LedgerInv'
  <2>1. /\ run'.asOf = Len(store) /\ run'.marketNow = now
        /\ UNCHANGED <<ctx, now, store, events, projection, segments>>
    BY <1>3 DEF StartRun
  <2>2. Len(store) \in Nat /\ Len(store) \in 0..Len(store) /\ now \in Nat
    <3>1. store \in Seq(Range(store)) /\ now \in Nat
      BY DEF LedgerInv, Rows
    <3>2. Len(store) \in Nat
      BY <3>1
    <3> QED
      BY <3>1, <3>2
  <2>3. \A i \in DOMAIN segments : segments[i].asOf <= Len(store)
    <3>1. TAKE i \in DOMAIN segments
    <3>2. segments[i] \in Range(segments)
      BY DEF Range
    <3>3. Segment(segments[i])
      BY <3>2 DEF LedgerInv, Rows
    <3>4. segments[i].asOf \in 0..Len(store)
      BY <3>3 DEF Segment
    <3> QED
      BY <3>4, <2>2
  <2>4. Rows'
    BY <2>1, <2>2 DEF LedgerInv, Rows, Cached, Segment, Froze
  <2>5. Tiled'
    BY <2>1, <2>3 DEF LedgerInv, Tiled, SegmentsTile
  <2> QED
    BY <2>1, <2>4, <2>5 DEF LedgerInv, FrozenForGood, Confirmed, LastSegmentEnd,
       DividendOnConfirmedPosition, Credited
<1>4. ASSUME EndRun PROVE LedgerInv'
  BY <1>4 DEF EndRun, LedgerInv, Rows, Cached, Segment, FrozenForGood, Tiled, SegmentsTile, Confirmed,
     LastSegmentEnd, DividendOnConfirmedPosition, Credited, Froze
<1> QED
  BY <1>1, <1>2, <1>3, <1>4

(***************************************************************************)
(* The commands of the operator and the end of the window.                 *)
(***************************************************************************)
LEMMA OperatorKeeps ==
  ASSUME LedgerInv, projection # None
  PROVE  /\ CancelOrder => LedgerInv'
         /\ FreezeOrder => LedgerInv'
         /\ FlagOrderReview => LedgerInv'
         /\ FinalizeValidity => LedgerInv'
<1> DEFINE s == projection.state
<1>1. Fielded(s)
  BY DEF LedgerInv, Rows, Cached
<1> HIDE DEF s
<1>2. {"CANCELED", "FROZEN", "NEEDS_REVIEW", "EXPIRED", "TIME_EXIT"}
        \cap (MarketEventTypes \ {"TIME_EXIT"}) = {}
  BY DEF MarketEventTypes
<1>3. ASSUME CancelOrder PROVE LedgerInv'
  <2> DEFINE r == Cancel(s, now)
  <2>1. Calm(s, r) /\ Writes(r, {"CANCELED"})
    BY <1>1, CancelCalm
  <2>2. Command(r, <<>>)
    BY <1>3 DEF CancelOrder, s
  <2> HIDE DEF r
  <2>3. Outside(r)
    BY <1>2, <2>1 DEF Writes, Outside
  <2> QED
    BY <2>1, <2>2, <2>3, CommandKeeps DEF s
<1>4. ASSUME FreezeOrder PROVE LedgerInv'
  <2> DEFINE r == Freeze(s, "SPLIT", None)
  <2>1. Calm(s, r) /\ Writes(r, {"FROZEN", "NEEDS_REVIEW"})
    BY <1>1, FreezeCalm
  <2>2. Command(r, <<>>)
    BY <1>4 DEF FreezeOrder, s
  <2> HIDE DEF r
  <2>3. Outside(r)
    BY <1>2, <2>1 DEF Writes, Outside
  <2> QED
    BY <2>1, <2>2, <2>3, CommandKeeps DEF s
<1>5. ASSUME FlagOrderReview PROVE LedgerInv'
  <2> DEFINE r == FlagReview(s, "RECHECK", None)
  <2>1. Calm(s, r) /\ Writes(r, {"NEEDS_REVIEW"})
    BY <1>1, FlagCalm
  <2>2. Command(r, <<>>)
    BY <1>5 DEF FlagOrderReview, s
  <2> HIDE DEF r
  <2>3. Outside(r)
    BY <1>2, <2>1 DEF Writes, Outside
  <2> QED
    BY <2>1, <2>2, <2>3, CommandKeeps DEF s
<1>6. ASSUME FinalizeValidity PROVE LedgerInv'
  <2> DEFINE bars == ProcessedBar(s.last_bar_ts)
             r == ApplyValidityEnd(s, ctx, Head(bars))
             q == ApplyValidityEnd(s, ctx, None)
  <2>1. Raise("PROCESSED_BAR_MISSING") \/ Command(r, bars) \/ Command(q, <<>>)
    BY <1>6 DEF FinalizeValidity, s
  <2> HIDE DEF bars
  <2>2. /\ Calm(s, r) /\ Writes(r, {"EXPIRED", "TIME_EXIT", "NEEDS_REVIEW"})
        /\ Calm(s, q) /\ Writes(q, {"EXPIRED", "TIME_EXIT", "NEEDS_REVIEW"})
    BY <1>1, EndCalm
  <2> HIDE DEF r, q
  <2>3. Outside(r) /\ Outside(q)
    BY <1>2, <2>2 DEF Writes, Outside
  <2>4. CASE Raise("PROCESSED_BAR_MISSING")
    <3>1. UNCHANGED <<ctx, now, store, run, events, projection, segments>>
      BY <2>4 DEF Raise
    <3> QED
      BY <3>1, RowsAlone
  <2> QED
    BY <2>1, <2>2, <2>3, <2>4, CommandKeeps DEF s
<1> QED
  BY <1>3, <1>4, <1>5, <1>6

(***************************************************************************)
(* The commands of the opening.                                            *)
(***************************************************************************)
LEMMA OpeningKeeps ==
  ASSUME LedgerInv, projection # None
  PROVE  (Dividend \/ DividendUnverifiable) => LedgerInv'
<1> DEFINE s == projection.state
           flag == FlagReview(s, "DIVIDEND_POSITION_UNCONFIRMED", ExSession)
           paid == ApplyDividend(s, ctx, ExSession, Amount, dividend)
           reason == IF Confirmed THEN "DIVIDEND_UNVERIFIED" ELSE "DIVIDEND_POSITION_UNCONFIRMED"
           mark == FlagReview(s, reason, ExSession)
<1>1. Fielded(s)
  BY DEF LedgerInv, Rows, Cached
<1> HIDE DEF s, reason
<1>2. /\ Calm(s, flag) /\ Writes(flag, {"NEEDS_REVIEW"})
      /\ Calm(s, mark) /\ Writes(mark, {"NEEDS_REVIEW"})
      /\ Calm(s, paid) /\ Writes(paid, {"DIVIDEND", "NEEDS_REVIEW"})
  BY <1>1, FlagCalm, DividendCalm
<1>3. Dividend => Command(IF ~Confirmed THEN flag ELSE paid, <<>>)
  BY DEF Dividend, s
<1>4. DividendUnverifiable => Command(mark, <<>>)
  BY DEF DividendUnverifiable, s, reason
<1> HIDE DEF flag, mark, paid
<1>5. "NEEDS_REVIEW" \notin MarketEventTypes /\ "DIVIDEND" \notin MarketEventTypes
  BY DEF MarketEventTypes
<1>6. Outside(flag) /\ Outside(mark) /\ (Confirmed => Outside(paid))
  BY <1>2, <1>5 DEF Writes, Outside
<1>7. Command(flag, <<>>) => LedgerInv'
  BY <1>2, <1>6, CommandKeeps DEF s
<1>8. Command(mark, <<>>) => LedgerInv'
  BY <1>2, <1>6, CommandKeeps DEF s
<1>9. Confirmed /\ Command(paid, <<>>) => LedgerInv'
  BY <1>2, <1>6, CommandKeeps DEF s
<1>10. ASSUME Dividend PROVE LedgerInv'
  <2>1. CASE Confirmed
    <3>1. Command(paid, <<>>)
      BY <1>3, <1>10, <2>1
    <3> QED
      BY <1>9, <2>1, <3>1
  <2>2. CASE ~Confirmed
    <3>1. Command(flag, <<>>)
      BY <1>3, <1>10, <2>2
    <3> QED
      BY <1>7, <3>1
  <2> QED
    BY <2>1, <2>2
<1> QED
  BY <1>4, <1>8, <1>10

(***************************************************************************)
(* The command of a session's data quality is of minutes of the session.   *)
(***************************************************************************)
LEMMA QualityCommands ==
  ASSUME Rows, projection # None, NEW i \in 1..ValidSessions, Quality(i)
  PROVE  \E a, b \in Int : \E missing \in SUBSET (a..b) : \E doubtful \in SUBSET missing :
           Command(QualityResult(projection.state, i, missing, doubtful), <<>>)
<1> DEFINE s == projection.state
           first == SessionContaining(Start)
           a == Greater(ctx.start, Sessions[i].open)
           b == Sessions[i].close - 1
<1>1. ctx.start = Start
  BY DEF Rows
<1>2. i \in DOMAIN Sessions
  <2>1. Start = FirstExpectedMinuteAtOrAfter(Created) /\ Start \in Nat /\ Created \in Int
        /\ ValidSessions \in Nat \ {0} /\ Start # RangeError
    BY WindowAssumption DEF Start, EvaluationStart, RangeError
  <2>2. IsExpectedMinute(Start)
    BY <2>1, FirstIsExpected
  <2>3. first \in DOMAIN Sessions
    BY <2>2 DEF IsExpectedMinute
  <2>4. DOMAIN Sessions = 1..Len(Sessions) /\ Len(Sessions) \in Nat
    BY Counted
  <2>5. ~(first + ValidSessions - 1 > Len(Sessions))
    BY WindowAssumption DEF Until, SignalValidUntil, NthSessionClose, RangeError
  <2> HIDE DEF first
  <2> QED
    BY <2>1, <2>3, <2>4, <2>5
<1>3. a \in Int /\ b \in Int
  <2>1. Sessions[i] \in Window
    BY <1>2, Counted
  <2>2. Sessions[i].open \in Int /\ Sessions[i].close \in Int /\ ctx.start \in Int
    BY <1>1, <2>1, WindowAssumption DEF Window
  <2> QED
    BY <2>2 DEF Greater
<1>4. QualityMinutes(s, i) \in SUBSET (a..b)
  BY DEF QualityMinutes, MinutesOf
<1>5. PICK doubtful :
         /\ doubtful \in SUBSET MissingAmong(QualityMinutes(s, i))
         /\ Command(QualityResult(s, i, MissingAmong(QualityMinutes(s, i)), doubtful), <<>>)
  BY DEF Quality, s
<1> HIDE DEF s, a, b
<1> DEFINE missing == MissingAmong(QualityMinutes(s, i))
<1>6. missing \in SUBSET (a..b)
  BY <1>4 DEF MissingAmong
<1>7. Command(QualityResult(s, i, missing, doubtful), <<>>) /\ doubtful \in SUBSET missing
  BY <1>5
<1> HIDE DEF missing
<1> QED
  BY <1>3, <1>6, <1>7 DEF s

(***************************************************************************)
(* A session's data quality.                                               *)
(***************************************************************************)
LEMMA QualityKeeps ==
  ASSUME LedgerInv, projection # None, NEW i \in 1..ValidSessions, Quality(i)
  PROVE  LedgerInv'
<1> DEFINE s == projection.state
<1>1. Fielded(s) /\ Rows
  BY DEF LedgerInv, Rows, Cached
<1>2. PICK a, b \in Int : \E missing \in SUBSET (a..b) : \E doubtful \in SUBSET missing :
        Command(QualityResult(s, i, missing, doubtful), <<>>)
  BY <1>1, QualityCommands
<1>3. PICK missing \in SUBSET (a..b) : \E doubtful \in SUBSET missing :
        Command(QualityResult(s, i, missing, doubtful), <<>>)
  BY <1>2
<1>4. PICK doubtful \in SUBSET missing : Command(QualityResult(s, i, missing, doubtful), <<>>)
  BY <1>3
<1> HIDE DEF s
<1> DEFINE r == QualityResult(s, i, missing, doubtful)
<1>5. Calm(s, r) /\ Writes(r, QualityTypes)
  BY <1>1, QualityCalm
<1>6. Command(r, <<>>)
  BY <1>4
<1> HIDE DEF r
<1>7. Outside(r)
  BY <1>5 DEF Writes, Outside, QualityTypes, MarketEventTypes
<1> QED
  BY <1>5, <1>6, <1>7, CommandKeeps DEF s

(***************************************************************************)
(* A projection that is dropped, and one that is regenerated.              *)
(***************************************************************************)
LEMMA IntegrityKeeps ==
  ASSUME LedgerInv
  PROVE  (DropProjection \/ Rebuild \/ QuarantineFreeze) => LedgerInv'
<1>1. ASSUME DropProjection PROVE LedgerInv'
  BY <1>1 DEF DropProjection, LedgerInv, Rows, Segment, FrozenForGood, Tiled, SegmentsTile, Confirmed,
     LastSegmentEnd, DividendOnConfirmedPosition, Credited
<1>2. ASSUME Rebuild PROVE LedgerInv'
  <2> DEFINE h == RegeneratedHistory
  <2>1. \/ Raise("PROJECTION_INTEGRITY_ERROR")
        \/ /\ ~h.diverged /\ projection' = h.projection
           /\ UNCHANGED <<ctx, now, store, run, events, segments>>
    BY <1>2 DEF Rebuild, RebuildFrom
  <2>2. CASE Raise("PROJECTION_INTEGRITY_ERROR")
    <3>1. UNCHANGED <<ctx, now, store, run, events, projection, segments>>
      BY <2>2 DEF Raise
    <3> QED
      BY <3>1, RowsAlone
  <2>3. CASE /\ ~h.diverged /\ projection' = h.projection
             /\ UNCHANGED <<ctx, now, store, run, events, segments>>
    <3>1. Cached(h.projection)
      BY <2>3, HistoryCached DEF LedgerInv
    <3> HIDE DEF h
    <3>2. Cached(projection)'
      BY <2>3, <3>1 DEF Cached
    <3>3. Rows'
      BY <2>3, <3>2 DEF LedgerInv, Rows, Segment
    <3> QED
      BY <2>3, <3>3 DEF LedgerInv, FrozenForGood, Tiled, SegmentsTile, Confirmed, LastSegmentEnd,
         DividendOnConfirmedPosition, Credited
  <2> QED
    BY <2>1, <2>2, <2>3
<1>3. ASSUME QuarantineFreeze PROVE LedgerInv'
  <2>1. CASE projection = None
    <3>1. UNCHANGED <<ctx, now, store, run, events, projection, segments>>
      BY <1>3, <2>1 DEF QuarantineFreeze
    <3> QED
      BY <3>1, RowsAlone
  <2>2. CASE projection # None
    <3> DEFINE s == projection.state
               r == Freeze(s, "INTEGRITY", None)
    <3>1. Fielded(s)
      BY <2>2 DEF LedgerInv, Rows, Cached
    <3>2. Append_(r, <<>>) /\ UNCHANGED <<ctx, now, store, run, segments>>
      BY <1>3, <2>2 DEF QuarantineFreeze
    <3> HIDE DEF s
    <3>3. Calm(s, r) /\ Writes(r, {"FROZEN", "NEEDS_REVIEW"})
      BY <3>1, FreezeCalm
    <3> HIDE DEF r
    <3>4. Outside(r)
      BY <3>3 DEF Writes, Outside, MarketEventTypes
    <3> QED
      BY <2>2, <3>2, <3>3, <3>4, OutsideKeeps DEF s
  <2> QED
    BY <2>1, <2>2
<1> QED
  BY <1>1, <1>2, <1>3

(***************************************************************************)
(* Every step.                                                             *)
(***************************************************************************)
LEMMA StepLedger ==
  ASSUME LedgerInv, [Next]_vars
  PROVE  LedgerInv'
<1> DEFINE Alone == UNCHANGED <<ctx, now, store, run, events, projection, segments>>
<1>1. Alone => LedgerInv'
  BY RowsAlone
<1>2. CASE UNCHANGED vars
  <2>1. Alone
    BY <1>2 DEF vars
  <2> QED
    BY <1>1, <2>1
<1>3. ASSUME Evaluation PROVE LedgerInv'
  <2>1. FinalizeValidity => projection # None
    BY DEF FinalizeValidity
  <2> QED
    BY <1>3, <2>1, CycleKeeps, EvaluateKeeps, OperatorKeeps DEF Evaluation
<1>4. ASSUME Opening PROVE LedgerInv'
  <2>1. \A agree : CheckDividend(agree) => Alone
    BY DEF CheckDividend
  <2>2. (Dividend \/ DividendUnverifiable) => projection # None
    BY DEF Dividend, DividendUnverifiable, DividendPending
  <2> QED
    BY <1>1, <1>4, <2>1, <2>2, OpeningKeeps DEF Opening
<1>5. ASSUME Evening PROVE LedgerInv'
  <2>1. PICK i \in 1..ValidSessions : Quality(i)
    BY <1>5 DEF Evening
  <2>2. projection # None
    BY <2>1 DEF Quality
  <2> QED
    BY <2>1, <2>2, QualityKeeps
<1>6. ASSUME Operator PROVE LedgerInv'
  <2>1. projection # None
    BY <1>6 DEF Operator, CancelOrder, FreezeOrder, FlagOrderReview
  <2> QED
    BY <1>6, <2>1, OperatorKeeps DEF Operator
<1>7. ASSUME Integrity PROVE LedgerInv'
  <2>1. ProjectionMissing \/ CalendarMismatch => Alone
    BY DEF ProjectionMissing, CalendarMismatch, Raise
  <2> QED
    BY <1>1, <1>7, <2>1, IntegrityKeeps DEF Integrity
<1>8. ASSUME Quarantine PROVE LedgerInv'
  <2>1. QuarantineLost => Alone
    BY DEF QuarantineLost
  <2> QED
    BY <1>1, <1>8, <2>1, IntegrityKeeps DEF Quarantine
<1> QED
  BY <1>2, <1>3, <1>4, <1>5, <1>6, <1>7, <1>8 DEF Next

-----------------------------------------------------------------------------

(***************************************************************************)
(* A freeze outlives everything but an operator, in every ledger: no bar,  *)
(* no dividend and no end of validity is written after a FROZEN event      *)
(* (evaluator/apply.py), also when the projection that kept the freeze was *)
(* lost and regenerated by regenerate_history.                             *)
(***************************************************************************)
THEOREM FreezesAreForGood == Spec => []FrozenForGood
<1>1. Init => LedgerInv
  BY InitLedger
<1>2. LedgerInv /\ [Next]_vars => LedgerInv'
  BY StepLedger
<1>3. LedgerInv => FrozenForGood
  BY DEF LedgerInv
<1> QED
  BY <1>1, <1>2, <1>3, PTL DEF Spec

(***************************************************************************)
(* The segments of every order tile its window: evaluate_order resumes     *)
(* where it stopped, at the expected minute after the last one evaluated,  *)
(* on knowledge that never goes back.                                      *)
(***************************************************************************)
THEOREM SegmentsAlwaysTile == Spec => []SegmentsTile
<1>1. Init => LedgerInv
  BY InitLedger
<1>2. LedgerInv /\ [Next]_vars => LedgerInv'
  BY StepLedger
<1>3. LedgerInv => SegmentsTile
  BY DEF LedgerInv, Tiled
<1> QED
  BY <1>1, <1>2, <1>3, PTL DEF Spec

(***************************************************************************)
(* A dividend is credited on the position held before the ex-date: no bar  *)
(* of an earlier minute follows the credit in the ledger.                  *)
(***************************************************************************)
THEOREM DividendsOnConfirmedPositions == Spec => []DividendOnConfirmedPosition
<1>1. Init => LedgerInv
  BY InitLedger
<1>2. LedgerInv /\ [Next]_vars => LedgerInv'
  BY StepLedger
<1>3. LedgerInv => DividendOnConfirmedPosition
  BY DEF LedgerInv
<1> QED
  BY <1>1, <1>2, <1>3, PTL DEF Spec

-----------------------------------------------------------------------------
(* The record of a session's data quality. *)

QualityWrites(s, r, low, i) ==
  /\ Puts(s, r, low) /\ Marks(s, r)
  /\ \A e \in Range(r.events) : e.type = "DATA_QUALITY" => e.level = i

FlagAdded(p, s, flagged) == QualityWrites(p.state, flagged, p.low, p.session)

Putting == INSTANCE FoldProofs WITH
  Apply <- FlagOn, Item <- MinuteAt, Pick <- Greatest, Holds <- FlagAdded

(***************************************************************************)
(* The reviews of a session's missing bars.                                *)
(***************************************************************************)
LEMMA ReviewsPut ==
  ASSUME NEW s, NEW low, NEW i, NEW r, QualityWrites(s, r, low, i),
         NEW a \in Int, NEW b \in Int, NEW doubtful \in SUBSET (a..b)
  PROVE  QualityWrites(s, MissingBarReviews(r, doubtful), low, i)
<1> DEFINE minutes == Ascending(doubtful)
           p == [state |-> s, minutes |-> minutes, low |-> low, session |-> i]
           S == DOMAIN minutes
<1>1. minutes \in Seq(doubtful)
  BY AscendingType
<1> HIDE DEF minutes
<1>2. Putting!IsFiniteSet(S) /\ \A t \in SUBSET S : t # {} => Max(t) \in t
  BY <1>1, Indices DEF IsFiniteSet, Putting!IsFiniteSet
<1> HIDE DEF S
<1>3. Putting!Picks(p, S)
  BY <1>2 DEF Putting!Picks, Greatest
<1>4. FlagAdded(p, {}, r)
  BY DEF FlagAdded
<1>5. ASSUME NEW t \in SUBSET S, t # {}, NEW acc, FlagAdded(p, t \ {Greatest(p, t)}, acc)
      PROVE  FlagAdded(p, t, FlagOn(p, MinuteAt(p, Greatest(p, t)), acc))
  <2> DEFINE m == MinuteAt(p, Greatest(p, t))
             q == FlagReview(acc.state, "MISSING_BAR", m)
             c == After(acc.events, q)
             e == ReviewOf("MISSING_BAR", m)
  <2>1. QualityWrites(s, acc, low, i)
    BY <1>5 DEF FlagAdded
  <2> HIDE DEF m
  <2>2. Puts(s, c, low) /\ Marks(s, c)
    BY <2>1, FlagAfterPuts DEF QualityWrites
  <2>3. q.events = <<e>> /\ Entry(e) /\ e.type = "NEEDS_REVIEW"
    BY DEF FlagReview, StepResult, ReviewOf, Event, Entry
  <2>4. Range(c.events) = Range(acc.events) \cup {e}
    <3> DEFINE u == q.state
    <3>1. q = StepResult(u, <<e>>)
      BY DEF FlagReview, StepResult, ReviewOf
    <3> HIDE DEF e, u, q
    <3>2. Proper(q) /\ Range(q.events) = {e}
      BY <2>3, <3>1, FewEvents
    <3>3. Log(acc.events)
      BY <2>1 DEF QualityWrites, Puts, Proper
    <3> QED
      BY <3>2, <3>3, AfterEvents
  <2> HIDE DEF c, e
  <2>5. QualityWrites(s, c, low, i)
    BY <2>1, <2>2, <2>3, <2>4 DEF QualityWrites
  <2> QED
    BY <2>5 DEF FlagAdded, FlagOn, m, q, c
<1>6. p.state = s /\ p.low = low /\ p.session = i
  OBVIOUS
<1> HIDE DEF p
<1>7. FlagAdded(p, S, Putting!Fold(p, r, S))
  <2>1. \A t \in SUBSET S : t # {} =>
          \A acc : FlagAdded(p, t \ {Greatest(p, t)}, acc)
                     => FlagAdded(p, t, FlagOn(p, MinuteAt(p, Greatest(p, t)), acc))
    BY <1>5
  <2>2. Putting!IsFiniteSet(S)
    BY <1>2
  <2> QED
    BY <2>1, <2>2, <1>3, <1>4, Putting!FoldHolds
<1>8. MissingBarReviews(r, doubtful) = Putting!Fold(p, r, S)
  BY DEF MissingBarReviews, FoldLeft, Putting!Fold, MapThenFoldSet, Putting!MapThenFoldSet,
         FlagOn, MinuteAt, Greatest, p, S, minutes
<1> QED
  BY <1>6, <1>7, <1>8 DEF FlagAdded

(***************************************************************************)
(* The command of a session's data quality.                                *)
(***************************************************************************)
LEMMA QualityPuts ==
  ASSUME NEW s, Stateful(s), s.last_bar_ts \in Int \cup {None}, NEW i, NEW a \in Int, NEW b \in Int,
         NEW missing \in SUBSET (a..b), NEW doubtful \in SUBSET missing, NEW low
  PROVE  QualityWrites(s, QualityResult(s, i, missing, doubtful), low, i)
<1> DEFINE e == [Event("DATA_QUALITY", None) EXCEPT !.level = i]
           gaps == Gaps(missing)
           one == <<e>>
           all == one \o gaps
           r == StepResult(s, all)
<1>1. Entry(e) /\ e.type = "DATA_QUALITY" /\ e.level = i
  BY DEF Event, Entry
<1> HIDE DEF e
<1>2. Log(one) /\ Range(one) = {e} /\ DOMAIN one = {1} /\ Len(one) = 1 /\ one[1] = e
  BY <1>1 DEF Log, Range
<1>3. /\ Log(gaps)
      /\ \A x \in Range(gaps) : x.type = "DATA_GAP" /\ x = Event("DATA_GAP", x.ts)
  <2> DEFINE M == {m \in missing : m - Minute \notin missing}
             starts == Ascending(M)
  <2>1. M \in SUBSET (a..b)
    OBVIOUS
  <2> HIDE DEF M
  <2>2. starts \in Seq(M)
    BY <2>1, AscendingType
  <2>3. gaps = [g \in DOMAIN starts |-> Event("DATA_GAP", starts[g])]
    BY DEF Gaps, M
  <2> HIDE DEF starts, gaps
  <2>4. DOMAIN starts = 1..Len(starts) /\ Len(starts) \in Nat
    BY <2>2
  <2>5. ASSUME NEW x \in Range(gaps)
        PROVE  Entry(x) /\ x.type = "DATA_GAP" /\ x = Event("DATA_GAP", x.ts)
    <3>1. PICK g \in DOMAIN starts : x = Event("DATA_GAP", starts[g])
      BY <2>3 DEF Range
    <3> DEFINE m == starts[g]
    <3>2. x = Event("DATA_GAP", m)
      BY <3>1
    <3> HIDE DEF m
    <3>3. x.ts = m /\ x.type = "DATA_GAP" /\ Entry(x)
      BY <3>2 DEF Event, Entry
    <3> QED
      BY <3>2, <3>3
  <2>6. gaps \in Seq(Range(gaps))
    <3> DEFINE R == Range(gaps)
    <3>1. \A g \in 1..Len(starts) : Event("DATA_GAP", starts[g]) \in R
      BY <2>3, <2>4 DEF Range
    <3> HIDE DEF R
    <3>2. [g \in 1..Len(starts) |-> Event("DATA_GAP", starts[g])] \in Seq(R)
      BY <2>4, <3>1, IsASeq
    <3> QED
      BY <2>3, <2>4, <3>2 DEF R
  <2> QED
    BY <2>5, <2>6 DEF Log
<1>4. QualityResult(s, i, missing, doubtful) = MissingBarReviews(r, doubtful)
  BY DEF QualityResult, e
<1> HIDE DEF gaps, one
<1>5. Log(all) /\ Range(all) = {e} \cup Range(gaps)
  BY <1>2, <1>3, ConcatEvents
<1>6. Single(all)
  <2>0. one \in Seq(Range(one)) /\ gaps \in Seq(Range(gaps))
    BY <1>2, <1>3 DEF Log
  <2>1. /\ DOMAIN all = 1..(Len(one) + Len(gaps))
        /\ \A j \in 1..(Len(one) + Len(gaps)) : all[j] = IF j <= Len(one) THEN one[j] ELSE gaps[j - Len(one)]
    BY <2>0, Concat
  <2> HIDE DEF all
  <2>2. DOMAIN gaps = 1..Len(gaps) /\ Len(gaps) \in Nat
    BY <2>0
  <2>3. ASSUME NEW j \in DOMAIN all, j # 1 PROVE all[j].type = "DATA_GAP"
    <3>1. j - 1 \in 1..Len(gaps) /\ all[j] = gaps[j - 1]
      BY <1>2, <2>1, <2>2, <2>3
    <3>2. gaps[j - 1] \in Range(gaps)
      BY <2>2, <3>1 DEF Range
    <3> QED
      BY <1>3, <3>1, <3>2
  <2>4. all[1].type = "DATA_QUALITY"
    BY <1>1, <1>2, <2>1, <2>2
  <2> QED
    BY <2>3, <2>4 DEF Single, SingleTypes, OnceTypes, EndTypes
<1> HIDE DEF all
<1>7. Proper(r) /\ r.state = s /\ r.events = all
  BY <1>5 DEF StepResult, Proper
<1> HIDE DEF r
<1>8. Grows(s, s)
  BY DEF Grows, Further
<1>9. \A x \in Range(all) : NewIn(s, s, x, low)
  BY <1>1, <1>3, <1>5 DEF NewIn, OtherTypes, OnceTypes, EndTypes, ZoneTypes
<1>10. Puts(s, r, low)
  BY <1>6, <1>7, <1>8, <1>9 DEF Puts
<1>11. Marks(s, r)
  <2>1. ReasonsOf(all) = {}
    BY <1>1, <1>3, <1>5 DEF ReasonsOf
  <2>2. s = [s EXCEPT !.review_reasons = s.review_reasons]
    BY DEF Stateful
  <2>3. s.review_reasons \cup ReasonsOf(all) = s.review_reasons
    BY <2>1
  <2>4. \A x \in Range(all) : x.type \in QualityTypes
    BY <1>1, <1>3, <1>5 DEF QualityTypes
  <2> QED
    BY <1>7, <2>2, <2>3, <2>4 DEF Marks
<1>12. QualityWrites(s, r, low, i)
  BY <1>1, <1>3, <1>5, <1>7, <1>10, <1>11 DEF QualityWrites
<1>13. doubtful \in SUBSET (a..b)
  OBVIOUS
<1> QED
  BY <1>4, <1>12, <1>13, ReviewsPut

-----------------------------------------------------------------------------
(* Which events are new. *)

\* What dedupe_events has found after the events of the indices s.
Found(known, evs, s, fresh) ==
  /\ fresh \in Seq(Range(evs)) /\ \A x \in Range(fresh) : x \notin Range(known)
  /\ \A i, j \in DOMAIN fresh : fresh[i] = fresh[j] => i = j
  /\ \A i \in s : evs[i] \in Range(known) \cup Range(fresh)
  /\ s = {} => fresh = <<>>
  /\ 1 \in s /\ evs[1] \notin Range(known) => fresh # <<>> /\ fresh[1] = evs[1]

FoundSoFar(p, s, fresh) == Found(p.known, p.evs, s, fresh)

Sifting == INSTANCE FoldProofs WITH
  Apply <- Unknown, Item <- EventAt, Pick <- Greatest, Holds <- FoundSoFar

(***************************************************************************)
(* One event more.                                                         *)
(***************************************************************************)
LEMMA FoundOneMore ==
  ASSUME NEW known, known \in Seq(Range(known)), NEW evs, evs \in Seq(Range(evs)),
         NEW t \in SUBSET DOMAIN evs, NEW i \in t, \A j \in t : j <= i,
         NEW fresh, Found(known, evs, t \ {i}, fresh),
         NEW more, more = IF evs[i] \in Range(known \o fresh) THEN fresh ELSE Append(fresh, evs[i])
  PROVE  Found(known, evs, t, more)
<1> DEFINE e == evs[i]
           R == Range(evs)
           n == Len(fresh)
<1>1. e \in R /\ \A j \in t : j \in Nat /\ 1 <= j
  BY DEF Range
<1>2. fresh \in Seq(R)
  BY DEF Found
<1> HIDE DEF R
<1>3. n \in Nat /\ DOMAIN fresh = 1..n /\ fresh \in Seq(Range(fresh))
  BY <1>2 DEF Range
<1>4. Range(known \o fresh) = Range(known) \cup Range(fresh)
  BY <1>3, Concat
<1>5. CASE e \in Range(known) \cup Range(fresh)
  <2>1. more = fresh
    BY <1>4, <1>5
  <2>2. ASSUME 1 \in t, evs[1] \notin Range(known) PROVE fresh # <<>> /\ fresh[1] = evs[1]
    <3>1. CASE i = 1
      <4>1. t \ {i} = {}
        BY <1>1, <3>1
      <4>2. fresh = <<>>
        BY <4>1 DEF Found
      <4>3. Range(fresh) = {}
        BY <4>2 DEF Range
      <4> QED
        BY <1>5, <2>2, <3>1, <4>3
    <3>2. CASE i # 1
      BY <2>2, <3>2 DEF Found
    <3> QED
      BY <3>1, <3>2
  <2> QED
    BY <1>5, <2>1, <2>2 DEF Found
<1>6. CASE e \notin Range(known) \cup Range(fresh)
  <2> DEFINE new == Append(fresh, e)
  <2>1. more = new
    BY <1>4, <1>6
  <2> HIDE DEF e
  <2>2. /\ new \in Seq(R) /\ DOMAIN new = 1..(n + 1) /\ new[n + 1] = e
        /\ \A j \in 1..n : new[j] = fresh[j]
    BY <1>1, <1>2, <1>3
  <2> HIDE DEF new, n
  <2>3. Range(new) = Range(fresh) \cup {e}
    <3>1. n + 1 \in 1..(n + 1) /\ \A j \in 1..n : j \in 1..(n + 1)
      BY <1>3
    <3>2. \A j \in 1..(n + 1) : j \in 1..n \/ j = n + 1
      BY <1>3
    <3>3. \A j \in 1..(n + 1) : new[j] \in Range(fresh) \cup {e}
      BY <1>3, <2>2, <3>2 DEF Range
    <3>4. Range(new) \subseteq Range(fresh) \cup {e}
      BY <2>2, <3>3 DEF Range
    <3>5. e \in Range(new) /\ \A j \in 1..n : fresh[j] \in Range(new)
      BY <2>2, <3>1 DEF Range
    <3>6. Range(fresh) \cup {e} \subseteq Range(new)
      BY <1>3, <3>5 DEF Range
    <3> QED
      BY <3>4, <3>6
  <2>4. \A x \in Range(new) : x \notin Range(known)
    BY <1>6, <2>3 DEF Found
  <2>5. ASSUME NEW j \in DOMAIN new, NEW k \in DOMAIN new, new[j] = new[k] PROVE j = k
    <3>1. \A l \in 1..n : new[l] \in Range(fresh)
      BY <1>3, <2>2 DEF Range
    <3>2. \A l \in 1..n, m \in 1..n : fresh[l] = fresh[m] => l = m
      BY <1>3 DEF Found
    <3>3. CASE j \in 1..n /\ k \in 1..n
      BY <2>2, <2>5, <3>2, <3>3
    <3>4. CASE j = n + 1 \/ k = n + 1
      BY <1>3, <1>6, <2>2, <2>5, <3>1, <3>4
    <3> QED
      BY <1>3, <2>2, <3>3, <3>4
  <2>6. \A j \in t : evs[j] \in Range(known) \cup Range(new)
    BY <2>3 DEF Found, e
  <2>7. new # <<>>
    BY <1>3, <2>2
  <2>8. ASSUME 1 \in t, evs[1] \notin Range(known) PROVE new[1] = evs[1]
    <3>1. CASE i = 1
      <4>1. t \ {i} = {}
        BY <1>1, <3>1
      <4>2. fresh = <<>>
        BY <4>1 DEF Found
      <4>3. n = 0
        BY <4>2 DEF n
      <4> QED
        BY <2>2, <3>1, <4>3 DEF e
    <3>2. CASE i # 1
      <4>1. fresh # <<>> /\ fresh[1] = evs[1]
        BY <2>8, <3>2 DEF Found
      <4>2. 1 \in 1..n
        BY <1>3, <4>1 DEF n
      <4> QED
        BY <2>2, <4>1, <4>2
    <3> QED
      BY <3>1, <3>2
  <2> QED
    BY <2>1, <2>2, <2>4, <2>5, <2>6, <2>7, <2>8 DEF Found, R
<1> QED
  BY <1>5, <1>6

(***************************************************************************)
(* dedupe_events returns the events that are not known, once each, and     *)
(* begins with the first of all if that one is not known.                  *)
(***************************************************************************)
LEMMA FreshFound ==
  ASSUME NEW known, known \in Seq(Range(known)), NEW evs, evs \in Seq(Range(evs))
  PROVE  Found(known, evs, DOMAIN evs, Fresh(known, evs))
<1> DEFINE p == [known |-> known, evs |-> evs]
           S == DOMAIN evs
<1>1. Sifting!IsFiniteSet(S) /\ \A t \in SUBSET S : t # {} => Max(t) \in t
  BY Indices DEF IsFiniteSet, Sifting!IsFiniteSet
<1>2. ASSUME NEW t \in SUBSET S, t # {} PROVE \A j \in t : j <= Max(t)
  <2>1. S = 1..Len(evs) /\ Len(evs) \in Int /\ 1 \in Int
    OBVIOUS
  <2> HIDE DEF S
  <2>2. t \in SUBSET (1..Len(evs))
    BY <2>1
  <2> QED
    BY <1>2, <2>1, <2>2, Extremes
<1>3. Sifting!Picks(p, S)
  BY <1>1 DEF Sifting!Picks, Greatest
<1>4. FoundSoFar(p, {}, <<>>)
  <2>1. Range(<<>>) = {} /\ <<>> \in Seq(Range(evs))
    BY DEF Range
  <2> QED
    BY <2>1 DEF FoundSoFar, Found
<1>5. ASSUME NEW t \in SUBSET S, t # {}, NEW fresh, FoundSoFar(p, t \ {Greatest(p, t)}, fresh)
      PROVE  FoundSoFar(p, t, Unknown(p, EventAt(p, Greatest(p, t)), fresh))
  <2> DEFINE i == Max(t)
             more == IF evs[i] \in Range(known \o fresh) THEN fresh ELSE Append(fresh, evs[i])
  <2>1. i \in t /\ \A j \in t : j <= i
    BY <1>1, <1>2, <1>5
  <2>2. Found(known, evs, t \ {i}, fresh)
    BY <1>5 DEF FoundSoFar, Greatest
  <2> HIDE DEF i
  <2>3. Found(known, evs, t, more)
    BY <2>1, <2>2, FoundOneMore
  <2>4. Unknown(p, EventAt(p, Greatest(p, t)), fresh) = more
    BY DEF Unknown, EventAt, Greatest, i
  <2> QED
    BY <2>3, <2>4 DEF FoundSoFar
<1>6. p.known = known /\ p.evs = evs
  OBVIOUS
<1> HIDE DEF p, S
<1>7. FoundSoFar(p, S, Sifting!Fold(p, <<>>, S))
  BY <1>1, <1>3, <1>4, <1>5, Sifting!FoldHolds
<1>8. Fresh(known, evs) = Sifting!Fold(p, <<>>, S)
  BY DEF Fresh, FoldLeft, Sifting!Fold, MapThenFoldSet, Sifting!MapThenFoldSet, Unknown, EventAt,
         Greatest, p, S
<1> QED
  BY <1>6, <1>7, <1>8 DEF FoundSoFar, S

-----------------------------------------------------------------------------
(* Events that are in the ledger. *)

PreparedOf(r, bars) == [i \in DOMAIN r.events |-> Prepared(r.events[i], bars)]

\* An event of the ledger of an order in the state s.
KeptEvent(s, e) ==
  /\ e.type \in OnceTypes \cup ZoneTypes => Traced(s, e)
  /\ e.type \in ZoneTypes => e.ts \in Int
  /\ e.type = "FROZEN" => e.reason \in s.frozen_reasons
  /\ e.type = "NEEDS_REVIEW" =>
       e.reason \in s.review_reasons /\ e = Prepared(ReviewOf(e.reason, e.level), <<>>)
  /\ e.type = "DATA_GAP" => e = Prepared(Event("DATA_GAP", e.ts), <<>>)

(***************************************************************************)
(* What prepare_event adds to an event.                                    *)
(***************************************************************************)
LEMMA PreparedIs ==
  ASSUME NEW e, Entry(e), NEW bars
  PROVE  LET x == Prepared(e, bars) IN
         /\ x.type = e.type /\ x.ts = e.ts /\ x.level = e.level /\ x.reason = e.reason
         /\ e.ts = None => x = Prepared(e, <<>>) /\ x.batch = None
         /\ bars = <<>> => x.batch = None
<1>1. {"type", "ts", "level", "reason"} \subseteq DOMAIN e
  BY DEF Entry
<1>2. bars = <<>> => ~\E i \in DOMAIN bars : bars[i].ts = e.ts
  OBVIOUS
<1>3. "batch" \in DOMAIN e \cup {"batch"}
  OBVIOUS
<1>4. bars = <<>> \/ e.ts = None => Prepared(e, bars).batch = None
  BY <1>2, <1>3 DEF Prepared
<1>5. ASSUME e.ts = None PROVE Prepared(e, bars) = Prepared(e, <<>>)
  BY <1>5 DEF Prepared
<1> QED
  BY <1>1, <1>4, <1>5 DEF Prepared

(***************************************************************************)
(* The prepared events of a result.                                        *)
(***************************************************************************)
LEMMA PreparedAll ==
  ASSUME NEW r, Proper(r), NEW bars
  PROVE  LET evs == PreparedOf(r, bars) IN
         /\ evs \in Seq(Range(evs)) /\ DOMAIN evs = DOMAIN r.events
         /\ \A i \in DOMAIN evs : evs[i] = Prepared(r.events[i], bars) /\ r.events[i] \in Range(r.events)
         /\ \A x \in Range(evs) : \E e \in Range(r.events) : x = Prepared(e, bars)
         /\ r.events = <<>> <=> evs = <<>>
         /\ r.events # <<>> => 1 \in DOMAIN evs
<1> DEFINE evs == PreparedOf(r, bars)
<1>1. r.events \in Seq(Range(r.events))
  BY DEF Proper, Log
<1>2. DOMAIN r.events = 1..Len(r.events) /\ Len(r.events) \in Nat
  BY <1>1
<1>3. DOMAIN evs = 1..Len(r.events) /\ \A i \in DOMAIN evs : evs[i] = Prepared(r.events[i], bars)
  BY <1>2 DEF PreparedOf
<1>4. evs = [i \in 1..Len(r.events) |-> evs[i]]
  BY <1>2 DEF PreparedOf
<1> HIDE DEF evs
<1>5. evs \in Seq(Range(evs)) /\ Len(evs) = Len(r.events)
  <2>1. \A i \in 1..Len(r.events) : evs[i] \in Range(evs)
    BY <1>3 DEF Range
  <2> QED
    BY <1>2, <1>3, <1>4, <2>1
<1>6. \A i \in DOMAIN evs : r.events[i] \in Range(r.events)
  BY <1>2, <1>3 DEF Range
<1>7. ASSUME NEW x \in Range(evs) PROVE \E e \in Range(r.events) : x = Prepared(e, bars)
  <2>1. PICK i \in DOMAIN evs : x = evs[i]
    BY DEF Range
  <2> QED
    BY <1>3, <1>6, <2>1
<1>8. r.events = <<>> <=> evs = <<>>
  BY <1>1, <1>5
<1>9. r.events # <<>> => 1 \in DOMAIN evs
  BY <1>1, <1>2, <1>3
<1> QED
  BY <1>2, <1>3, <1>5, <1>6, <1>7, <1>8, <1>9 DEF evs

(***************************************************************************)
(* The ledger of an order stays the ledger of the order.                   *)
(***************************************************************************)
LEMMA KeptGrows ==
  ASSUME NEW s, s.last_bar_ts \in Int \cup {None}, NEW t, Grows(s, t), NEW e, KeptEvent(s, e)
  PROVE  KeptEvent(t, e)
<1>1. e.type \in OnceTypes \cup ZoneTypes => Traced(t, e)
  BY PastKept DEF KeptEvent, Grows
<1> QED
  BY <1>1 DEF KeptEvent, Grows

(***************************************************************************)
(* So does what is new in it.                                              *)
(***************************************************************************)
LEMMA KeptNew ==
  ASSUME NEW s, NEW t, NEW e, Entry(e), NEW low, NewIn(s, t, e, low), NEW bars,
         e.type = "DATA_GAP" => bars = <<>>
  PROVE  KeptEvent(t, Prepared(e, bars))
<1> DEFINE x == Prepared(e, bars)
<1>1. /\ x.type = e.type /\ x.ts = e.ts /\ x.level = e.level /\ x.reason = e.reason
      /\ e.ts = None => x = Prepared(e, <<>>)
  BY PreparedIs
<1>2. e.type = "NEEDS_REVIEW" => x = Prepared(ReviewOf(x.reason, x.level), <<>>)
  <2>1. ReviewOf(e.reason, e.level).ts = None
    BY DEF ReviewOf, Event
  <2> QED
    BY <1>1, <2>1 DEF NewIn
<1>3. e.type = "DATA_GAP" => x = Prepared(Event("DATA_GAP", x.ts), <<>>)
  BY <1>1 DEF NewIn
<1> HIDE DEF x
<1>4. Traced(t, x) <=> Traced(t, e)
  BY <1>1 DEF Traced
<1>5. x.type \in OnceTypes \cup ZoneTypes => Traced(t, x)
  BY <1>1, <1>4 DEF NewIn
<1>6. x.type = "FROZEN" => x.reason \in t.frozen_reasons
  BY <1>1 DEF NewIn
<1>7. x.type \in ZoneTypes => x.ts \in Int
  BY <1>1 DEF NewIn
<1>8. x.type = "NEEDS_REVIEW" => x.reason \in t.review_reasons
  BY <1>1 DEF NewIn
<1> QED
  BY <1>1, <1>2, <1>3, <1>5, <1>6, <1>7, <1>8 DEF KeptEvent, x

(***************************************************************************)
(* What two events of one key share.                                       *)
(***************************************************************************)
LEMMA KeyParts ==
  ASSUME NEW e, NEW f, EventKey(e) = EventKey(f)
  PROVE  /\ e.type = f.type /\ e.reason = f.reason
         /\ e.type \in ZoneTypes \cup {"DATA_GAP"} => e.ts = f.ts
         /\ e.type \in {"NEEDS_REVIEW", "DATA_QUALITY"} => e.level = f.level
<1>1. e.type = f.type /\ e.reason = f.reason
  BY DEF EventKey
<1>2. e.type \in ZoneTypes \cup {"DATA_GAP"} => e.ts = f.ts
  BY <1>1 DEF EventKey, ZoneTypes
<1>3. e.type \in {"NEEDS_REVIEW", "DATA_QUALITY"} => e.level = f.level
  BY <1>1 DEF EventKey
<1> QED
  BY <1>1, <1>2, <1>3

\* What a result may not repeat of the events that are known.
Apart(known, r, bars) ==
  \A e \in Range(r.events) :
    /\ e.type = "DATA_GAP" => bars = <<>>
    /\ e.type = "DIVIDEND" => \A f \in Range(known) : f.type # "DIVIDEND"
    /\ e.type = "DATA_QUALITY" =>
         \A f \in Range(known) : f.type = "DATA_QUALITY" => f.level # e.level

(***************************************************************************)
(* An event is not of the key of another one that is known, nor of another *)
(* one of its result.                                                      *)
(***************************************************************************)
LEMMA NoCollision ==
  ASSUME NEW s, NEW low, NEW r, Puts(s, r, low), NEW known, known \in Seq(Range(known)),
         \A e \in Range(known) : KeptEvent(s, e), NEW bars, Apart(known, r, bars)
  PROVE  ~Collides(known, PreparedOf(r, bars))
<1> DEFINE evs == PreparedOf(r, bars)
<1>1. Proper(r)
  BY DEF Puts
<1>2. /\ evs \in Seq(Range(evs)) /\ DOMAIN evs = DOMAIN r.events
      /\ \A i \in DOMAIN evs : evs[i] = Prepared(r.events[i], bars) /\ r.events[i] \in Range(r.events)
  BY <1>1, PreparedAll
<1>3. \A e \in Range(r.events) : Entry(e) /\ NewIn(s, r.state, e, low)
  BY <1>1 DEF Puts, Proper, Log
<1> HIDE DEF evs
<1>4. Range(known \o evs) = Range(known) \cup Range(evs)
  BY <1>2, Concat
<1>5. SUFFICES ASSUME NEW i \in DOMAIN evs, NEW y \in Range(known) \cup Range(evs),
                      EventKey(evs[i]) = EventKey(y)
               PROVE  evs[i] = y
  BY <1>4 DEF Collides, Range, evs
<1> DEFINE e == r.events[i]
           x == evs[i]
<1>6. /\ e \in Range(r.events) /\ x = Prepared(e, bars)
      /\ x.type = e.type /\ x.ts = e.ts /\ x.level = e.level /\ x.reason = e.reason
      /\ NewIn(s, r.state, e, low)
  BY <1>2, <1>3, PreparedIs
<1>7. /\ x.type = y.type /\ x.reason = y.reason
      /\ x.type \in ZoneTypes \cup {"DATA_GAP"} => x.ts = y.ts
      /\ x.type \in {"NEEDS_REVIEW", "DATA_QUALITY"} => x.level = y.level
  BY <1>5, KeyParts
<1>8. CASE y \in Range(evs)
  <2>1. PICK j \in DOMAIN evs : y = evs[j]
    BY <1>8 DEF Range
  <2> DEFINE f == r.events[j]
  <2>2. /\ f \in Range(r.events) /\ y = Prepared(f, bars)
        /\ y.type = f.type /\ y.ts = f.ts /\ y.level = f.level /\ y.reason = f.reason
        /\ NewIn(s, r.state, f, low)
    BY <1>2, <1>3, <2>1, PreparedIs
  <2>3. CASE e.type \in SingleTypes
    BY <1>2, <1>6, <1>7, <2>1, <2>2, <2>3 DEF Puts, Single
  <2>4. CASE e.type \notin SingleTypes
    <3> HIDE DEF e, f, x
    <3>1. e.type \in ZoneTypes \cup {"NEEDS_REVIEW", "DATA_GAP"}
      BY <1>6, <2>4 DEF NewIn, SingleTypes, OtherTypes
    <3>2. CASE e.type \in ZoneTypes
      BY <1>6, <1>7, <2>2, <3>2 DEF NewIn, ZoneForm, x
    <3>3. CASE e.type = "NEEDS_REVIEW"
      BY <1>6, <1>7, <2>2, <3>3 DEF NewIn, x
    <3>4. CASE e.type = "DATA_GAP"
      BY <1>6, <1>7, <2>2, <3>4 DEF NewIn, x
    <3> QED
      BY <3>1, <3>2, <3>3, <3>4 DEF x
  <2> QED
    BY <2>3, <2>4
<1>9. CASE y \in Range(known)
  <2>1. KeptEvent(s, y)
    BY <1>9
  <2> HIDE DEF e, x
  <2>2. CASE e.type \in OnceTypes \cup ZoneTypes
    <3>1. Traced(s, y) /\ ~Traced(s, e)
      BY <1>6, <1>7, <2>1, <2>2 DEF KeptEvent, NewIn
    <3>2. e.type \in ZoneTypes => e.ts = y.ts
      BY <1>6, <1>7
    <3> QED
      BY <1>6, <1>7, <3>1, <3>2 DEF Traced
  <2>3. CASE e.type = "FROZEN"
    BY <1>6, <1>7, <2>1, <2>3 DEF KeptEvent, NewIn
  <2>4. CASE e.type \in {"DIVIDEND", "DATA_QUALITY"}
    BY <1>6, <1>7, <1>9, <2>4 DEF Apart
  <2>5. CASE e.type = "NEEDS_REVIEW"
    <3>1. y = Prepared(ReviewOf(e.reason, e.level), <<>>)
      BY <1>6, <1>7, <2>1, <2>5 DEF KeptEvent
    <3>2. e = ReviewOf(e.reason, e.level) /\ e.ts = None
      BY <1>6, <2>5 DEF NewIn, ReviewOf, Event
    <3>3. x = Prepared(e, <<>>)
      BY <1>3, <1>6, <3>2, PreparedIs
    <3> QED
      BY <3>1, <3>2, <3>3 DEF x
  <2>6. CASE e.type = "DATA_GAP"
    BY <1>6, <1>7, <2>1, <2>6 DEF KeptEvent, NewIn, Apart, x
  <2> QED
    BY <1>6, <2>2, <2>3, <2>4, <2>5, <2>6 DEF NewIn, OtherTypes, x
<1> QED
  BY <1>8, <1>9

-----------------------------------------------------------------------------
(* The regeneration of rows, as a road from the order's creation to the    *)
(* end of its ledger.  The rows are a record w of the order's events,      *)
(* segments, store and context: what a later transaction appends to them   *)
(* leaves the road where it is.                                            *)

VersionsIn(log, asOf, ts) == {i \in 1..asOf : log[i].ts = ts}

BarsIn(log, asOf, minutes) ==
  LET stored == Ascending({m \in minutes : VersionsIn(log, asOf, m) # {}})
  IN  [i \in DOMAIN stored |-> log[Max(VersionsIn(log, asOf, stored[i]))]]

ErrorOn(c, known, r, bars) ==
  LET evs == PreparedOf(r, bars)
  IN  IF \E e \in Range(evs) : e.type \in MarketEventTypes /\ (e.ts = None \/ e.ts < c.start)
      THEN "EVENT_BEFORE_EVALUATION_START"
      ELSE IF Collides(known, evs) THEN "EVENT_HASH_CONFLICT" ELSE None

CommandIn(c, e, s, bar) ==
  CASE e.type = "CANCELED" -> Cancel(s, e.level)
    [] e.type = "FROZEN" -> Freeze(s, e.reason, e.level)
    [] e.type = "NEEDS_REVIEW" -> FlagReview(s, e.reason, e.level)
    [] e.type = "DIVIDEND" -> ApplyDividend(s, c, ExSession, e.level, TRUE)
    [] e.type = "EXPIRED" -> ApplyValidityEnd(s, c, None)
    [] e.type = "TIME_EXIT" /\ bar # None -> ApplyValidityEnd(s, c, bar)
    [] OTHER -> Unchanged(s)

\* Rows that are well formed.
RowsOf(w) ==
  /\ w.events \in Seq(Range(w.events)) /\ w.segments \in Seq(Range(w.segments))
  /\ w.store \in Seq(Range(w.store)) /\ \A bar \in Range(w.store) : "ts" \in DOMAIN bar
  /\ \A seg \in Range(w.segments) :
       /\ seg.asOf \in 0..Len(w.store) /\ seg.first_seq \in Nat /\ seg.count \in Nat
       /\ seg.from \in Nat /\ seg.to \in Nat

\* A history that has not diverged.
IsPlace(h) ==
  /\ h \in [state : {h.state}, seq : {h.seq}, index : {h.index}, diverged : {FALSE}]
  /\ h.seq \in Nat \ {0} /\ h.index \in Nat \ {0}

AtSegment(w, h) == h.index <= Len(w.segments) /\ w.segments[h.index].first_seq = h.seq

\* The new events of the result r are the events from n up to m of the ledger.
Gives(w, n, r, bars, m) ==
  LET known == SubSeq(w.events, 1, n - 1)
      fresh == NewEvents(known, r, bars)
  IN  /\ ErrorOn(w.ctx, known, r, bars) = None
      /\ m = n + Len(fresh) /\ m <= Len(w.events) + 1
      /\ fresh = SubSeq(w.events, n, m - 1)

SegmentBars(w, seg) == BarsIn(w.store, seg.asOf, SegmentMinutes(seg))

SegmentGives(w, seg, bars, h, g) ==
  /\ SelectedData(SegmentMinutes(seg), bars) = seg.data
  /\ Gives(w, h.seq, RunBars(h.state, bars, w.ctx), bars, g.seq)
  /\ g.seq = h.seq + seg.count /\ g.index = h.index + 1
  /\ g.state = RunBars(h.state, bars, w.ctx).state

BySegment(w, h, g) ==
  /\ AtSegment(w, h)
  /\ SegmentGives(w, w.segments[h.index], SegmentBars(w, w.segments[h.index]), h, g)

RecordTypes == {"DATA_QUALITY", "DATA_GAP"}

ByRecord(w, h, g) ==
  /\ h.seq <= Len(w.events) /\ w.events[h.seq].type \in RecordTypes
  /\ g.state = h.state /\ g.seq = h.seq + 1 /\ g.index = h.index

BarIn(log, e) == IF e.batch = None THEN None ELSE log[e.batch]
BarsFor(bar) == IF bar = None THEN <<>> ELSE <<bar>>

CommandGives(w, e, bar, h, g) ==
  /\ Gives(w, h.seq, CommandIn(w.ctx, e, h.state, bar), BarsFor(bar), g.seq)
  /\ g.seq > h.seq /\ g.index = h.index
  /\ g.state = CommandIn(w.ctx, e, h.state, bar).state

ByCommand(w, h, g) ==
  /\ h.seq <= Len(w.events) /\ w.events[h.seq].type \notin RecordTypes
  /\ w.events[h.seq].batch \in DOMAIN w.store \cup {None}
  /\ CommandGives(w, w.events[h.seq], BarIn(w.store, w.events[h.seq]), h, g)

\* One item of the history, which does not diverge on it.
Follows(w, h, g) ==
  /\ IsPlace(g)
  /\ \/ BySegment(w, h, g)
     \/ ~AtSegment(w, h) /\ (ByRecord(w, h, g) \/ ByCommand(w, h, g))

First(w) ==
  [state |-> NewOrderState(w.ctx, None).state, seq |-> 2, index |-> 1, diverged |-> FALSE]

\* The places t of the first n - 1 items.
Road(w, n, t) ==
  /\ t[1] = First(w) /\ \A i \in 1..(n - 1) : Follows(w, t[i], t[i + 1])
  /\ \A i \in 1..n : IsPlace(t[i]) /\ i + 2 <= t[i].seq + t[i].index

Reach(w, h) == \E n \in Nat \ {0} : \E t : Road(w, n, t) /\ t[n] = h

\* The end of the rows.
At(w, s) ==
  [state |-> s, seq |-> Len(w.events) + 1, index |-> Len(w.segments) + 1, diverged |-> FALSE]

\* a is a beginning of b.
Begins(a, b) == Len(a) <= Len(b) /\ \A i \in 1..Len(a) : b[i] = a[i]

\* The rows v are the rows w with something appended.
Prolongs(w, v) ==
  /\ v.ctx = w.ctx /\ RowsOf(w) /\ RowsOf(v)
  /\ Begins(w.events, v.events) /\ Begins(w.segments, v.segments) /\ Begins(w.store, v.store)
  /\ \A i \in (Len(w.segments) + 1)..Len(v.segments) :
       v.segments[i].first_seq > Len(w.events)

(***************************************************************************)
(* What begins a sequence is cut from both alike.                          *)
(***************************************************************************)
LEMMA CutAlike ==
  ASSUME NEW a, a \in Seq(Range(a)), NEW b, b \in Seq(Range(b)), Begins(a, b),
         NEW m \in Nat \ {0}, NEW n \in Int, n <= Len(a)
  PROVE  SubSeq(a, m, n) = SubSeq(b, m, n)
<1>1. Len(a) \in Nat /\ Len(b) \in Nat /\ Len(a) <= Len(b)
  BY DEF Begins
<1>2. \A i \in m..n : a[i] = b[i]
  BY <1>1 DEF Begins
<1> QED
  BY <1>1, <1>2

(***************************************************************************)
(* Bars as of an instant are in the log up to it.                          *)
(***************************************************************************)
LEMMA BarsAlike ==
  ASSUME NEW a, NEW b, NEW asOf \in Nat, \A i \in 1..asOf : b[i] = a[i],
         NEW from \in Int, NEW to \in Int, NEW minutes \in SUBSET (from..to)
  PROVE  BarsIn(a, asOf, minutes) = BarsIn(b, asOf, minutes)
<1>1. \A m : VersionsIn(a, asOf, m) = VersionsIn(b, asOf, m)
  BY DEF VersionsIn
<1> DEFINE S == {m \in minutes : VersionsIn(a, asOf, m) # {}}
           stored == Ascending(S)
<1>2. S = {m \in minutes : VersionsIn(b, asOf, m) # {}}
  BY <1>1
<1>3. S \in SUBSET (from..to)
  OBVIOUS
<1>4. \A m \in S : VersionsIn(a, asOf, m) # {}
  OBVIOUS
<1> HIDE DEF S
<1>5. stored \in Seq(S)
  BY <1>3, AscendingType
<1> HIDE DEF stored
<1>6. ASSUME NEW i \in DOMAIN stored
      PROVE  a[Max(VersionsIn(a, asOf, stored[i]))] = b[Max(VersionsIn(b, asOf, stored[i]))]
  <2> DEFINE V == VersionsIn(a, asOf, stored[i])
  <2>1. stored[i] \in S
    BY <1>5
  <2>2. V # {} /\ V \in SUBSET (1..asOf) /\ 1 \in Int /\ asOf \in Int
    BY <1>4, <2>1 DEF VersionsIn
  <2> HIDE DEF V
  <2>3. Max(V) \in 1..asOf
    BY <2>2, Extremes
  <2>4. VersionsIn(b, asOf, stored[i]) = V
    BY <1>1 DEF V
  <2> QED
    BY <2>3, <2>4 DEF V
<1> QED
  BY <1>2, <1>6 DEF BarsIn, stored, S

(***************************************************************************)
(* A result gives the same events of longer rows.                          *)
(***************************************************************************)
LEMMA GivesOn ==
  ASSUME NEW w, NEW v, Prolongs(w, v), NEW n \in Nat \ {0}, n <= Len(w.events) + 1, NEW m \in Int,
         NEW r, NEW bars, Gives(w, n, r, bars, m)
  PROVE  Gives(v, n, r, bars, m)
<1>1. /\ w.events \in Seq(Range(w.events)) /\ v.events \in Seq(Range(v.events))
      /\ Begins(w.events, v.events) /\ v.ctx = w.ctx
  BY DEF Prolongs, RowsOf
<1>2. Len(w.events) \in Nat /\ Len(v.events) \in Nat /\ Len(w.events) <= Len(v.events)
  BY <1>1 DEF Begins
<1>3. m <= Len(w.events) + 1 /\ m - 1 \in Int /\ n - 1 \in Int /\ 1 \in Nat \ {0}
      /\ m - 1 <= Len(w.events) /\ n - 1 <= Len(w.events)
  BY <1>2 DEF Gives
<1>4. SubSeq(w.events, 1, n - 1) = SubSeq(v.events, 1, n - 1)
  BY <1>1, <1>3, CutAlike
<1>5. SubSeq(w.events, n, m - 1) = SubSeq(v.events, n, m - 1)
  BY <1>1, <1>3, CutAlike
<1>6. m <= Len(v.events) + 1
  BY <1>2, <1>3
<1> QED
  BY <1>1, <1>4, <1>5, <1>6 DEF Gives

(***************************************************************************)
(* The bars of a segment are those of longer rows.                         *)
(***************************************************************************)
LEMMA SegmentAlike ==
  ASSUME NEW w, NEW v, Prolongs(w, v), NEW seg \in Range(w.segments)
  PROVE  SegmentBars(w, seg) = SegmentBars(v, seg)
<1> DEFINE minutes == SegmentMinutes(seg)
<1>1. seg.asOf \in 0..Len(w.store) /\ seg.from \in Nat /\ seg.to \in Nat /\ Minute \in Nat
  BY CalendarAssumption DEF Prolongs, RowsOf
<1>2. w.store \in Seq(Range(w.store))
  BY DEF Prolongs, RowsOf
<1>3. seg.asOf \in Nat /\ seg.asOf <= Len(w.store)
  BY <1>1, <1>2
<1>4. \A i \in 1..seg.asOf : v.store[i] = w.store[i]
  BY <1>2, <1>3 DEF Prolongs, Begins
<1>5. minutes \in SUBSET (seg.from..(seg.to + Minute - 1)) /\ seg.from \in Int /\ seg.to + Minute - 1 \in Int
  BY <1>1 DEF SegmentMinutes, MinutesOf
<1> HIDE DEF minutes
<1>6. BarsIn(w.store, seg.asOf, minutes) = BarsIn(v.store, seg.asOf, minutes)
  BY <1>3, <1>4, <1>5, BarsAlike
<1> QED
  BY <1>6 DEF SegmentBars, minutes

(***************************************************************************)
(* What follows in the rows follows in longer rows.                        *)
(***************************************************************************)
LEMMA FollowsOn ==
  ASSUME NEW w, NEW v, Prolongs(w, v), NEW h, IsPlace(h), NEW g, Follows(w, h, g)
  PROVE  Follows(v, h, g)
<1> DEFINE n == Len(w.events)
           k == Len(w.segments)
<1>1. /\ v.ctx = w.ctx /\ w.segments \in Seq(Range(w.segments)) /\ v.segments \in Seq(Range(v.segments))
      /\ w.events \in Seq(Range(w.events)) /\ v.events \in Seq(Range(v.events))
      /\ w.store \in Seq(Range(w.store)) /\ v.store \in Seq(Range(v.store))
      /\ Begins(w.events, v.events) /\ Begins(w.segments, v.segments) /\ Begins(w.store, v.store)
  BY DEF Prolongs, RowsOf
<1>2. /\ n \in Nat /\ Len(v.events) \in Nat /\ n <= Len(v.events)
      /\ k \in Nat /\ Len(v.segments) \in Nat /\ k <= Len(v.segments)
  BY <1>1 DEF Begins
<1>3. h.seq \in Nat \ {0} /\ h.index \in Nat \ {0} /\ g.seq \in Nat \ {0} /\ IsPlace(g)
  BY DEF IsPlace, Follows
<1>4. CASE BySegment(w, h, g)
  <2> DEFINE seg == w.segments[h.index]
             bars == SegmentBars(w, seg)
  <2>1. h.index \in 1..k /\ seg \in Range(w.segments)
    BY <1>1, <1>2, <1>3, <1>4 DEF BySegment, AtSegment, Range
  <2>2. v.segments[h.index] = seg /\ h.index <= Len(v.segments)
    BY <1>1, <1>2, <1>3, <2>1 DEF Begins
  <2>3. AtSegment(v, h)
    BY <1>4, <2>2 DEF BySegment, AtSegment
  <2>4. SegmentGives(w, seg, bars, h, g) /\ seg.count \in Nat
    BY <1>4, <2>1 DEF BySegment, Prolongs, RowsOf
  <2>5. bars = SegmentBars(v, seg)
    BY <2>1, SegmentAlike
  <2> HIDE DEF seg, bars
  <2>6. g.seq = h.seq + seg.count /\ g.seq <= n + 1
    BY <2>4 DEF SegmentGives, Gives
  <2>7. h.seq <= Len(w.events) + 1
    BY <1>2, <1>3, <2>4, <2>6
  <2>8. Gives(v, h.seq, RunBars(h.state, bars, w.ctx), bars, g.seq)
    <3> DEFINE r == RunBars(h.state, bars, w.ctx)
    <3>1. Gives(w, h.seq, r, bars, g.seq) /\ g.seq \in Int
      BY <1>3, <2>4 DEF SegmentGives
    <3> HIDE DEF r
    <3>2. Gives(v, h.seq, r, bars, g.seq)
      BY <1>3, <2>7, <3>1, GivesOn
    <3> QED
      BY <3>2 DEF r
  <2>9. SegmentGives(v, seg, bars, h, g)
    BY <1>1, <2>4, <2>8 DEF SegmentGives
  <2>10. BySegment(v, h, g)
    BY <2>2, <2>3, <2>5, <2>9 DEF BySegment, seg
  <2> QED
    BY <1>3, <2>10 DEF Follows
<1>5. ASSUME ~AtSegment(w, h), h.seq <= n PROVE ~AtSegment(v, h) /\ v.events[h.seq] = w.events[h.seq]
  <2>1. CASE h.index <= k
    BY <1>1, <1>2, <1>3, <1>5, <2>1 DEF AtSegment, Begins
  <2>2. CASE h.index > k
    <3>1. ASSUME h.index <= Len(v.segments) PROVE v.segments[h.index].first_seq # h.seq
      <4>1. h.index \in (k + 1)..Len(v.segments)
        BY <1>2, <1>3, <2>2, <3>1
      <4>2. v.segments[h.index].first_seq > n
        BY <4>1 DEF Prolongs
      <4>3. v.segments[h.index] \in Range(v.segments)
        BY <1>1, <1>2, <1>3, <3>1 DEF Range
      <4>4. v.segments[h.index].first_seq \in Nat
        BY <4>3 DEF Prolongs, RowsOf
      <4> QED
        BY <1>2, <1>3, <1>5, <4>2, <4>4
    <3> QED
      BY <1>1, <1>2, <1>3, <1>5, <3>1 DEF AtSegment, Begins
  <2> QED
    BY <1>2, <1>3, <2>1, <2>2
<1>6. CASE ~AtSegment(w, h) /\ ByRecord(w, h, g)
  <2>1. ~AtSegment(v, h) /\ v.events[h.seq] = w.events[h.seq] /\ h.seq <= Len(v.events)
    BY <1>2, <1>3, <1>5, <1>6 DEF ByRecord
  <2>2. ByRecord(v, h, g)
    BY <1>6, <2>1 DEF ByRecord
  <2> QED
    BY <1>3, <2>1, <2>2 DEF Follows
<1>7. CASE ~AtSegment(w, h) /\ ByCommand(w, h, g)
  <2>1. ~AtSegment(v, h) /\ v.events[h.seq] = w.events[h.seq] /\ h.seq <= Len(v.events)
    BY <1>2, <1>3, <1>5, <1>7 DEF ByCommand
  <2> DEFINE e == w.events[h.seq]
             bar == BarIn(w.store, e)
  <2>2. e.batch \in DOMAIN v.store \cup {None} /\ bar = BarIn(v.store, e)
    BY <1>1, <1>7 DEF ByCommand, Begins, BarIn
  <2>3. CommandGives(w, e, bar, h, g)
    BY <1>7 DEF ByCommand
  <2> HIDE DEF e, bar
  <2>4. Gives(v, h.seq, CommandIn(w.ctx, e, h.state, bar), BarsFor(bar), g.seq)
    <3> DEFINE r == CommandIn(w.ctx, e, h.state, bar)
               bars == BarsFor(bar)
    <3>1. Gives(w, h.seq, r, bars, g.seq) /\ g.seq \in Int
      BY <1>3, <2>3 DEF CommandGives
    <3>2. h.seq <= Len(w.events) + 1
      BY <1>2, <1>3, <1>7 DEF ByCommand
    <3> HIDE DEF r, bars
    <3>3. Gives(v, h.seq, r, bars, g.seq)
      BY <1>3, <3>1, <3>2, GivesOn
    <3> QED
      BY <3>3 DEF r, bars
  <2>5. CommandGives(v, e, bar, h, g)
    BY <1>1, <2>3, <2>4 DEF CommandGives
  <2>6. ByCommand(v, h, g)
    BY <1>7, <2>1, <2>2, <2>5 DEF ByCommand, e
  <2> QED
    BY <1>3, <2>1, <2>6 DEF Follows
<1> QED
  BY <1>4, <1>6, <1>7 DEF Follows

(***************************************************************************)
(* A road in the rows is a road in longer rows, and goes on by an item.    *)
(***************************************************************************)
LEMMA ReachOn ==
  ASSUME NEW w, NEW v, Prolongs(w, v), NEW h, Reach(w, h)
  PROVE  Reach(v, h)
<1>1. PICK n \in Nat \ {0} : \E t : Road(w, n, t) /\ t[n] = h
  BY DEF Reach
<1>2. PICK t : Road(w, n, t) /\ t[n] = h
  BY <1>1
<1>3. First(v) = First(w)
  BY DEF First, Prolongs
<1>4. ASSUME NEW i \in 1..(n - 1) PROVE Follows(v, t[i], t[i + 1])
  <2>1. Follows(w, t[i], t[i + 1]) /\ IsPlace(t[i])
    BY <1>2 DEF Road
  <2> QED
    BY <2>1, FollowsOn
<1>5. Road(v, n, t)
  BY <1>2, <1>3, <1>4 DEF Road
<1> QED
  BY <1>2, <1>5 DEF Reach

(***************************************************************************)
(* One item more.                                                          *)
(***************************************************************************)
LEMMA ReachMore ==
  ASSUME NEW w, RowsOf(w), NEW h, Reach(w, h), NEW g, Follows(w, h, g)
  PROVE  Reach(w, g)
<1>1. PICK n \in Nat \ {0} : \E t : Road(w, n, t) /\ t[n] = h
  BY DEF Reach
<1>2. PICK t : Road(w, n, t) /\ t[n] = h
  BY <1>1
<1> DEFINE u == [i \in 1..(n + 1) |-> IF i = n + 1 THEN g ELSE t[i]]
<1>3. /\ \A i \in 1..n : u[i] = t[i]
      /\ u[n + 1] = g /\ 1 \in 1..n /\ n \in 1..n /\ n + 1 \in Nat \ {0}
      /\ \A i \in 1..(n - 1) : i \in 1..n /\ i + 1 \in 1..n
      /\ \A i \in 1..n : i \in 1..(n - 1) \/ i = n
      /\ \A i \in 1..(n + 1) : i \in 1..n \/ i = n + 1
      /\ (n + 1) - 1 = n
  OBVIOUS
<1> HIDE DEF u
<1>4. IsPlace(h) /\ n + 2 <= h.seq + h.index /\ IsPlace(g)
  BY <1>2, <1>3 DEF Road, Follows
<1>5. h.seq + h.index + 1 <= g.seq + g.index
  <2>1. h.seq \in Nat /\ h.index \in Nat /\ g.seq \in Nat /\ g.index \in Nat
    BY <1>4 DEF IsPlace
  <2>2. CASE BySegment(w, h, g)
    <3>1. w.segments[h.index] \in Range(w.segments)
      <4>1. w.segments \in Seq(Range(w.segments)) /\ h.index <= Len(w.segments) /\ h.index \in Nat \ {0}
        BY <1>4, <2>2 DEF RowsOf, BySegment, AtSegment, IsPlace
      <4> QED
        BY <4>1 DEF Range
    <3>2. w.segments[h.index].count \in Nat
      BY <3>1 DEF RowsOf
    <3> QED
      BY <2>1, <2>2, <3>2 DEF BySegment, SegmentGives
  <2>3. CASE ByRecord(w, h, g)
    BY <2>1, <2>3 DEF ByRecord
  <2>4. CASE ByCommand(w, h, g)
    BY <2>1, <2>4 DEF ByCommand, CommandGives
  <2> QED
    BY <2>2, <2>3, <2>4 DEF Follows
<1>6. (n + 1) + 2 <= g.seq + g.index
  BY <1>4, <1>5 DEF IsPlace
<1>7. \A i \in 1..n : Follows(w, u[i], u[i + 1])
  <2>1. ASSUME NEW i \in 1..(n - 1) PROVE Follows(w, u[i], u[i + 1])
    <3>1. Follows(w, t[i], t[i + 1])
      BY <1>2 DEF Road
    <3> QED
      BY <1>3, <3>1
  <2>2. Follows(w, u[n], u[n + 1])
    BY <1>2, <1>3
  <2> QED
    BY <1>3, <2>1, <2>2
<1>8. \A i \in 1..(n + 1) : IsPlace(u[i]) /\ i + 2 <= u[i].seq + u[i].index
  <2>1. \A i \in 1..n : IsPlace(u[i]) /\ i + 2 <= u[i].seq + u[i].index
    BY <1>2, <1>3 DEF Road
  <2> QED
    BY <1>3, <1>4, <1>6, <2>1
<1>9. u[1] = First(w)
  BY <1>2, <1>3 DEF Road
<1>10. Road(w, n + 1, u)
  BY <1>3, <1>7, <1>8, <1>9 DEF Road
<1> QED
  BY <1>3, <1>10 DEF Reach

-----------------------------------------------------------------------------
(* Events appended to the rows. *)

\* The rows w of an order in the state s.
Kept(w, s) ==
  /\ RowsOf(w) /\ Stateful(s) /\ s.last_bar_ts \in Int \cup {None}
  /\ w.events # <<>> /\ w.events[1] = Prepared(Event("ORDER_CREATED", None), <<>>)
  /\ \A e \in Range(w.events) : KeptEvent(s, e)
  /\ \A i \in DOMAIN w.store : w.store[i].batch = i

\* The rows v are the rows w and the new events of a result.
Books(w, v, r, bars) ==
  /\ v.events = w.events \o NewEvents(w.events, r, bars)
  /\ v.store = w.store /\ v.ctx = w.ctx /\ RowsOf(v)

(***************************************************************************)
(* The new events of a result are some of its events, each of them once,   *)
(* and the first of them if that one is new.                               *)
(***************************************************************************)
LEMMA NewEventsFound ==
  ASSUME NEW known, known \in Seq(Range(known)), NEW r, Proper(r), NEW bars
  PROVE  Found(known, PreparedOf(r, bars), DOMAIN PreparedOf(r, bars), NewEvents(known, r, bars))
<1> DEFINE evs == PreparedOf(r, bars)
<1>1. evs \in Seq(Range(evs))
  BY PreparedAll
<1>2. NewEvents(known, r, bars) = Fresh(known, evs)
  BY DEF NewEvents, PreparedOf
<1> HIDE DEF evs
<1>3. Found(known, evs, DOMAIN evs, Fresh(known, evs))
  BY <1>1, FreshFound
<1> QED
  BY <1>2, <1>3 DEF evs

\* c is a and then b.
InParts(a, b, c) ==
  /\ Len(a) \in Nat /\ Len(b) \in Nat /\ Len(c) = Len(a) + Len(b)
  /\ b \in Seq(Range(b)) /\ Range(c) = Range(a) \cup Range(b)
  /\ \A i \in 1..Len(a) : c[i] = a[i]
  /\ \A i \in 1..Len(b) : c[Len(a) + i] = b[i]
  /\ SubSeq(c, 1, Len(a)) = a /\ SubSeq(c, Len(a) + 1, Len(a) + Len(b)) = b
  /\ Begins(a, c)

(***************************************************************************)
(* The rows before and after, event by event.                              *)
(***************************************************************************)
LEMMA Parts ==
  ASSUME NEW w, RowsOf(w), NEW v, NEW r, Proper(r), NEW bars, Books(w, v, r, bars)
  PROVE  InParts(w.events, NewEvents(w.events, r, bars), v.events)
<1> DEFINE a == w.events
           b == NewEvents(w.events, r, bars)
           n == Len(a)
           m == Len(b)
           c == v.events
<1>1. a \in Seq(Range(a)) /\ c = a \o b
  BY DEF RowsOf, Books
<1>2. b \in Seq(Range(b))
  <2>1. b \in Seq(Range(PreparedOf(r, bars)))
    BY <1>1, NewEventsFound DEF Found
  <2> HIDE DEF b
  <2> QED
    BY <2>1 DEF Range
<1> HIDE DEF a, b, c
<1>3. n \in Nat /\ m \in Nat /\ DOMAIN a = 1..n /\ DOMAIN b = 1..m
  BY <1>1, <1>2
<1>4. /\ Range(c) = Range(a) \cup Range(b) /\ c \in Seq(Range(c)) /\ Len(c) = n + m
      /\ \A i \in 1..(n + m) : c[i] = IF i <= n THEN a[i] ELSE b[i - n]
  BY <1>1, <1>2, Concat
<1> HIDE DEF n, m
<1>5. \A i \in 1..n : c[i] = a[i]
  BY <1>3, <1>4
<1>6. \A i \in 1..m : c[n + i] = b[i]
  <2>1. ASSUME NEW i \in 1..m PROVE c[n + i] = b[i]
    <3>1. n + i \in 1..(n + m) /\ ~(n + i <= n) /\ (n + i) - n = i
      BY <1>3
    <3> QED
      BY <1>4, <3>1
  <2> QED
    BY <2>1
<1>7. SubSeq(c, 1, n) = a
  <2>1. SubSeq(a, 1, n) = a
    BY <1>1, SubSeqFull DEF n
  <2>2. Begins(a, c)
    BY <1>3, <1>4, <1>5 DEF Begins, n
  <2>3. 1 \in Nat \ {0} /\ n \in Int /\ n <= Len(a)
    BY <1>3 DEF n
  <2> QED
    BY <1>1, <1>4, <2>1, <2>2, <2>3, CutAlike
<1>8. SubSeq(c, n + 1, n + m) = b
  <2> DEFINE q == SubSeq(c, n + 1, n + m)
  <2>1. \A i \in (n + 1)..(n + m) : c[i] \in Range(c)
    BY <1>3, <1>4 DEF Range
  <2>2. n + 1 \in Int /\ n + m \in Int
    BY <1>3
  <2>3. /\ Len(q) = IF n + 1 <= n + m THEN (n + m) - (n + 1) + 1 ELSE 0
        /\ q \in Seq(Range(c))
        /\ \A i \in 1..((n + m) - (n + 1) + 1) : q[i] = c[(n + 1) + i - 1]
    BY <1>4, <2>1, <2>2, SubSeqProperties
  <2> HIDE DEF q
  <2>4. Len(q) = m
    BY <1>3, <2>3
  <2>5. ASSUME NEW i \in 1..m PROVE q[i] = b[i]
    <3>1. i \in 1..((n + m) - (n + 1) + 1) /\ (n + 1) + i - 1 = n + i
      BY <1>3
    <3> QED
      BY <1>6, <2>3, <3>1
  <2>6. Len(b) = m
    BY DEF m
  <2>7. q = b
    BY <1>2, <2>3, <2>4, <2>5, <2>6
  <2> QED
    BY <2>7 DEF q
<1>9. Begins(a, c)
  BY <1>3, <1>4, <1>5 DEF Begins, n
<1> QED
  <2>1. InParts(a, b, c)
    BY <1>2, <1>3, <1>4, <1>5, <1>6, <1>7, <1>8, <1>9 DEF InParts, n, m
  <2> QED
    BY <2>1 DEF a, b, c

(***************************************************************************)
(* The rows are still those of the order.                                  *)
(***************************************************************************)
LEMMA KeptBooks ==
  ASSUME NEW w, NEW s, Kept(w, s), NEW low, NEW r, Puts(s, r, low), NEW bars,
         (\E e \in Range(r.events) : e.type = "DATA_GAP") => bars = <<>>,
         NEW v, Books(w, v, r, bars)
  PROVE  Kept(v, r.state)
<1> DEFINE fresh == NewEvents(w.events, r, bars)
           t == r.state
<1>1. Proper(r) /\ Grows(s, t)
  BY DEF Puts
<1>2. RowsOf(w) /\ w.events \in Seq(Range(w.events)) /\ w.events # <<>>
  BY DEF Kept, RowsOf
<1>3. /\ Range(v.events) = Range(w.events) \cup Range(fresh)
      /\ v.events[1] = w.events[1] /\ v.events # <<>>
  <2>1. /\ Range(v.events) = Range(w.events) \cup Range(fresh)
        /\ Len(w.events) \in Nat /\ Len(v.events) = Len(w.events) + Len(fresh) /\ Len(fresh) \in Nat
        /\ \A i \in 1..Len(w.events) : v.events[i] = w.events[i]
    <3>1. InParts(w.events, fresh, v.events)
      BY <1>1, <1>2, Parts
    <3> HIDE DEF fresh
    <3> QED
      BY <3>1 DEF InParts
  <2>2. Len(w.events) # 0
    BY <1>2
  <2> HIDE DEF fresh
  <2>3. 1 \in 1..Len(w.events) /\ Len(v.events) # 0
    BY <2>1, <2>2
  <2> QED
    BY <2>1, <2>3
<1>4. ASSUME NEW x \in Range(fresh) PROVE KeptEvent(t, x)
  <2>1. fresh \in Seq(Range(PreparedOf(r, bars)))
    BY <1>1, <1>2, NewEventsFound DEF Found
  <2>2. x \in Range(PreparedOf(r, bars))
    <3> HIDE DEF fresh
    <3> QED
      BY <2>1 DEF Range
  <2>3. PICK e \in Range(r.events) : x = Prepared(e, bars)
    BY <1>1, <2>2, PreparedAll
  <2>4. Entry(e) /\ NewIn(s, t, e, low)
    BY DEF Puts, Proper, Log
  <2> QED
    BY <2>3, <2>4, KeptNew
<1>5. \A x \in Range(w.events) : KeptEvent(t, x)
  BY <1>1, KeptGrows DEF Kept
<1>6. Stateful(t) /\ t.last_bar_ts \in Int \cup {None}
  BY <1>1 DEF Grows, Further
<1>7. \A i \in DOMAIN v.store : v.store[i].batch = i
  BY DEF Kept, Books
<1> QED
  BY <1>3, <1>4, <1>5, <1>6, <1>7 DEF Kept, Books

(***************************************************************************)
(* The result gives its new events again.                                  *)
(***************************************************************************)
LEMMA GivesBooked ==
  ASSUME NEW w, RowsOf(w), NEW v, NEW r, Proper(r), NEW bars, Books(w, v, r, bars),
         ErrorOn(w.ctx, w.events, r, bars) = None
  PROVE  Gives(v, Len(w.events) + 1, r, bars, Len(v.events) + 1)
<1> DEFINE a == w.events
           n == Len(a)
           fresh == NewEvents(a, r, bars)
           m == Len(fresh)
<1>1. /\ n \in Nat /\ m \in Nat /\ Len(v.events) = n + m
      /\ SubSeq(v.events, 1, n) = a /\ SubSeq(v.events, n + 1, n + m) = fresh
  <2>1. InParts(a, fresh, v.events)
    BY Parts
  <2> HIDE DEF a, fresh
  <2> QED
    BY <2>1 DEF InParts
<1>2. ErrorOn(v.ctx, a, r, bars) = None
  BY DEF Books
<1> HIDE DEF a, n, m
<1>3. (n + 1) - 1 = n /\ (Len(v.events) + 1) - 1 = n + m /\ Len(v.events) + 1 = (n + 1) + m
  BY <1>1
<1>4. Gives(v, n + 1, r, bars, Len(v.events) + 1)
  <2> DEFINE N == n + 1
             M == Len(v.events) + 1
             cut == SubSeq(v.events, N, M - 1)
  <2>1. SubSeq(v.events, 1, N - 1) = a
    BY <1>1, <1>3
  <2>2. cut = NewEvents(a, r, bars)
    BY <1>1, <1>3 DEF a
  <2>3. M = N + Len(NewEvents(a, r, bars))
    BY <1>3 DEF m, a
  <2>4. M <= Len(v.events) + 1
    BY <1>1
  <2> HIDE DEF N, M
  <2>5. Gives(v, N, r, bars, M)
    BY <1>2, <2>1, <2>2, <2>3, <2>4 DEF Gives
  <2> QED
    BY <2>5 DEF N, M
<1> QED
  BY <1>4 DEF n, a

(***************************************************************************)
(* Rows to which only events are added are prolonged, and their end is no  *)
(* segment.                                                                *)
(***************************************************************************)
LEMMA BooksProlong ==
  ASSUME NEW w, RowsOf(w), NEW v, NEW r, Proper(r), NEW bars, Books(w, v, r, bars),
         v.segments = w.segments
  PROVE  /\ Prolongs(w, v)
         /\ \A h : h.index = Len(w.segments) + 1 => ~AtSegment(v, h)
<1>1. InParts(w.events, NewEvents(w.events, r, bars), v.events)
  BY Parts
<1>2. Begins(w.events, v.events)
  BY <1>1 DEF InParts
<1>3. w.segments \in Seq(Range(w.segments)) /\ w.store \in Seq(Range(w.store))
  BY DEF RowsOf
<1>4. Len(w.segments) \in Nat /\ Len(w.store) \in Nat
  BY <1>3
<1>5. Begins(w.segments, v.segments) /\ Begins(w.store, v.store)
  BY <1>4 DEF Begins, Books
<1>6. (Len(w.segments) + 1)..Len(v.segments) = {}
  BY <1>4
<1>7. Prolongs(w, v)
  BY <1>2, <1>5, <1>6 DEF Prolongs, Books
<1>8. ASSUME NEW h, h.index = Len(w.segments) + 1 PROVE ~AtSegment(v, h)
  BY <1>4, <1>8 DEF AtSegment
<1> QED
  BY <1>7, <1>8

(***************************************************************************)
(* A place in well formed rows, and the end of them.                       *)
(***************************************************************************)
LEMMA AtIsPlace ==
  ASSUME NEW w, RowsOf(w), NEW s
  PROVE  /\ IsPlace(At(w, s)) /\ At(w, s).state = s /\ At(w, s).seq = Len(w.events) + 1
         /\ At(w, s).index = Len(w.segments) + 1
         /\ Len(w.events) \in Nat /\ Len(w.segments) \in Nat
<1>1. w.segments \in Seq(Range(w.segments)) /\ w.events \in Seq(Range(w.events))
  BY DEF RowsOf
<1>2. Len(w.segments) \in Nat /\ Len(w.events) \in Nat
  BY <1>1
<1> QED
  BY <1>2 DEF At, IsPlace

(***************************************************************************)
(* A command whose first event is new is regenerated from that event.      *)
(***************************************************************************)
LEMMA CommandReach ==
  ASSUME NEW w, NEW s, Kept(w, s), Reach(w, At(w, s)), NEW r, Proper(r), r.events # <<>>,
         NEW bars, NEW x, x = Prepared(r.events[1], bars),
         x \notin Range(w.events), x.type \notin RecordTypes, x.batch \in DOMAIN w.store \cup {None},
         bars = BarsFor(BarIn(w.store, x)), CommandIn(w.ctx, x, s, BarIn(w.store, x)) = r,
         ErrorOn(w.ctx, w.events, r, bars) = None,
         NEW v, Books(w, v, r, bars), v.segments = w.segments
  PROVE  Reach(v, At(v, r.state))
<1> DEFINE h == At(w, s)
           g == At(v, r.state)
           fresh == NewEvents(w.events, r, bars)
           evs == PreparedOf(r, bars)
           bar == BarIn(w.store, x)
           n == Len(w.events)
           m == Len(fresh)
<1>1. RowsOf(w) /\ RowsOf(v) /\ w.events \in Seq(Range(w.events)) /\ v.store = w.store /\ v.ctx = w.ctx
  BY DEF Kept, Books, RowsOf
<1>2. /\ IsPlace(h) /\ h.state = s /\ h.seq = n + 1 /\ h.index = Len(w.segments) + 1
      /\ IsPlace(g) /\ g.state = r.state /\ g.seq = Len(v.events) + 1 /\ g.index = Len(w.segments) + 1
      /\ n \in Nat
  BY <1>1, AtIsPlace
<1>3. evs[1] = x /\ 1 \in DOMAIN evs
  BY PreparedAll
<1>4. InParts(w.events, fresh, v.events)
  BY <1>1, Parts
<1>5. Found(w.events, evs, DOMAIN evs, fresh)
  BY <1>1, NewEventsFound
<1>6. Reach(v, h)
  <2>1. Prolongs(w, v)
    BY <1>1, BooksProlong
  <2> HIDE DEF h
  <2> QED
    BY <2>1, ReachOn DEF h
<1>7. ~AtSegment(v, h)
  <2> HIDE DEF h
  <2> QED
    BY <1>1, <1>2, BooksProlong
<1>8. Gives(v, n + 1, r, bars, Len(v.events) + 1)
  BY <1>1, GivesBooked
<1> HIDE DEF h, g, fresh, evs, bar, n
<1>9. fresh # <<>> /\ fresh[1] = x
  BY <1>3, <1>5 DEF Found
<1>10. m \in Nat /\ m # 0 /\ Len(v.events) = n + m
  <2>1. m \in Nat /\ Len(v.events) = n + m /\ fresh \in Seq(Range(fresh))
    BY <1>4 DEF InParts, n
  <2> QED
    BY <1>9, <2>1
<1>11. v.events[n + 1] = x
  <2>1. 1 \in 1..Len(fresh)
    BY <1>10
  <2> QED
    BY <1>4, <1>9, <2>1 DEF InParts, n
<1> HIDE DEF m
<1>12. CommandGives(v, x, bar, h, g)
  <2>1. CommandIn(v.ctx, x, h.state, bar) = r /\ BarsFor(bar) = bars
    BY <1>1, <1>2 DEF bar
  <2>2. Gives(v, h.seq, r, bars, g.seq)
    BY <1>2, <1>8
  <2>3. g.seq > h.seq
    BY <1>2, <1>10
  <2> QED
    BY <1>2, <2>1, <2>2, <2>3 DEF CommandGives
<1>13. ByCommand(v, h, g)
  <2>1. h.seq <= Len(v.events)
    BY <1>2, <1>10
  <2>2. v.events[h.seq] = x
    BY <1>2, <1>11
  <2> QED
    BY <1>1, <1>12, <2>1, <2>2 DEF ByCommand, bar
<1>14. Follows(v, h, g)
  BY <1>2, <1>7, <1>13 DEF Follows
<1>15. Reach(v, g)
  BY <1>1, <1>6, <1>14, ReachMore
<1> QED
  BY <1>15 DEF g

-----------------------------------------------------------------------------
(* Reviews and records are regenerated one by one. *)

(***************************************************************************)
(* A single event that is not known.                                       *)
(***************************************************************************)
LEMMA OneNew ==
  ASSUME NEW known, known \in Seq(Range(known)), NEW r, Proper(r), NEW bars, NEW e,
         PreparedOf(r, bars) = <<e>>, e \notin Range(known)
  PROVE  NewEvents(known, r, bars) = <<e>>
<1> DEFINE fresh == NewEvents(known, r, bars)
           evs == <<e>>
<1>1. /\ DOMAIN evs = {1} /\ evs[1] = e /\ 1 \in DOMAIN evs
      /\ Range(evs) = {e}
  BY DEF Range
<1>2. Found(known, evs, DOMAIN evs, fresh)
  BY NewEventsFound
<1> HIDE DEF fresh, evs
<1>3. /\ fresh \in Seq({e}) /\ fresh # <<>> /\ fresh[1] = e
      /\ \A i, j \in DOMAIN fresh : fresh[i] = fresh[j] => i = j
  BY <1>1, <1>2 DEF Found
<1>4. Len(fresh) \in Nat /\ DOMAIN fresh = 1..Len(fresh) /\ Len(fresh) # 0
      /\ \A i \in 1..Len(fresh) : fresh[i] = e
  BY <1>3
<1>5. Len(fresh) = 1
  <2>1. SUFFICES ASSUME Len(fresh) > 1 PROVE FALSE
    BY <1>4
  <2>2. 1 \in DOMAIN fresh /\ 2 \in DOMAIN fresh
    BY <1>4, <2>1
  <2>3. fresh[1] = fresh[2]
    BY <1>4, <2>2
  <2> QED
    BY <1>3, <2>2, <2>3
<1> QED
  BY <1>3, <1>5 DEF fresh

\* The reasons of the first j events, and the state after them.
ReasonsTo(evs, j) == {evs[i].reason : i \in {k \in 1..j : evs[k].type = "NEEDS_REVIEW"}}
Noted(s, reason) == [s EXCEPT !.review_reasons = @ \cup {reason}]
MarkedTo(s, evs, j) == [s EXCEPT !.review_reasons = @ \cup ReasonsTo(evs, j)]

MarkedAt(w, s, evs, j) ==
  [state |-> MarkedTo(s, evs, j), seq |-> (Len(w.events) + 1) + j,
   index |-> Len(w.segments) + 1, diverged |-> FALSE]

(***************************************************************************)
(* The reasons of one event more.                                          *)
(***************************************************************************)
LEMMA ReasonsMore ==
  ASSUME NEW evs, NEW j \in Nat, NEW s, Stateful(s)
  PROVE  /\ evs[j + 1].type # "NEEDS_REVIEW" => MarkedTo(s, evs, j + 1) = MarkedTo(s, evs, j)
         /\ evs[j + 1].type = "NEEDS_REVIEW" =>
              MarkedTo(s, evs, j + 1) = Noted(MarkedTo(s, evs, j), evs[j + 1].reason)
<1> DEFINE R == ReasonsTo(evs, j)
           Q == ReasonsTo(evs, j + 1)
           reason == evs[j + 1].reason
<1>1. \A i \in 1..(j + 1) : i \in 1..j \/ i = j + 1
  OBVIOUS
<1>2. \A i \in 1..j : i \in 1..(j + 1)
  OBVIOUS
<1>3. evs[j + 1].type # "NEEDS_REVIEW" => Q = R
  BY <1>1, <1>2 DEF ReasonsTo
<1>4. evs[j + 1].type = "NEEDS_REVIEW" => Q = R \cup {reason}
  <2>1. j + 1 \in 1..(j + 1)
    OBVIOUS
  <2>2. ASSUME evs[j + 1].type = "NEEDS_REVIEW" PROVE R \cup {reason} \subseteq Q
    BY <1>2, <2>1, <2>2 DEF ReasonsTo
  <2>3. ASSUME evs[j + 1].type = "NEEDS_REVIEW" PROVE Q \subseteq R \cup {reason}
    BY <1>1, <2>3 DEF ReasonsTo
  <2> QED
    BY <2>2, <2>3
<1>5. "review_reasons" \in DOMAIN s
  BY DEF Stateful, StateFields
<1> HIDE DEF R, Q, reason
<1>6. [s EXCEPT !.review_reasons = @ \cup (R \cup {reason})] =
        [[s EXCEPT !.review_reasons = @ \cup R] EXCEPT !.review_reasons = @ \cup {reason}]
  <2>1. (s.review_reasons \cup R) \cup {reason} = s.review_reasons \cup (R \cup {reason})
    OBVIOUS
  <2> DEFINE t == [s EXCEPT !.review_reasons = s.review_reasons \cup R]
             A == s.review_reasons \cup R
  <2>2. t.review_reasons = A
    BY <1>5
  <2>3. [t EXCEPT !.review_reasons = A \cup {reason}] = [s EXCEPT !.review_reasons = A \cup {reason}]
    OBVIOUS
  <2>4. [t EXCEPT !.review_reasons = t.review_reasons \cup {reason}] =
          [s EXCEPT !.review_reasons = s.review_reasons \cup (R \cup {reason})]
    BY <2>1, <2>2, <2>3
  <2> QED
    BY <2>4
<1> QED
  BY <1>3, <1>4, <1>6 DEF MarkedTo, Noted, R, Q, reason

\* The event n is a review that no earlier event is.
NewReview(v, n, e) ==
  /\ n <= Len(v.events) /\ e = v.events[n] /\ e.type = "NEEDS_REVIEW"
  /\ \A i \in 1..(n - 1) : v.events[i] # e

(***************************************************************************)
(* A review in the ledger is given again by its own call.                  *)
(***************************************************************************)
LEMMA ReviewGives ==
  ASSUME NEW v, RowsOf(v), NEW t, \A y \in Range(v.events) : KeptEvent(t, y),
         NEW n \in Nat \ {0}, NEW e, NewReview(v, n, e), NEW s
  PROVE  Gives(v, n, FlagReview(s, e.reason, e.level), <<>>, n + 1) /\ e.batch = None
<1> DEFINE x == ReviewOf(e.reason, e.level)
           q == FlagReview(s, e.reason, e.level)
           known == SubSeq(v.events, 1, n - 1)
           N == Len(v.events)
           evs == v.events
<1>0. /\ n <= Len(v.events) /\ e = v.events[n] /\ e.type = "NEEDS_REVIEW"
      /\ \A i \in 1..(n - 1) : v.events[i] # e
  BY DEF NewReview
<1>1. evs \in Seq(Range(evs)) /\ N \in Nat /\ DOMAIN evs = 1..N
  BY DEF RowsOf
<1> HIDE DEF evs, N
<1>2. n \in 1..N /\ e = evs[n] /\ e \in Range(evs)
  BY <1>0, <1>1 DEF Range, N, evs
<1>3. e = Prepared(x, <<>>)
  BY <1>0, <1>2 DEF KeptEvent, evs
<1>4. Entry(x) /\ x.type = "NEEDS_REVIEW"
  BY DEF ReviewOf, Entry, Event
<1>5. e.batch = None
  BY <1>3, <1>4, PreparedIs
<1>6. q = StepResult(q.state, <<x>>) /\ q.events = <<x>>
  BY DEF FlagReview, ReviewOf, StepResult
<1> HIDE DEF x, q
<1>7. Proper(q)
  BY <1>4, <1>6, FewEvents
<1>8. PreparedOf(q, <<>>) = <<e>>
  BY <1>3, <1>6 DEF PreparedOf
<1>9. known \in Seq(Range(evs)) /\ Len(known) = n - 1 /\ \A i \in 1..(n - 1) : known[i] = evs[i]
  <2>1. \A i \in 1..(n - 1) : evs[i] \in Range(evs)
    BY <1>1, <1>2 DEF Range
  <2>2. 1 \in Int /\ n - 1 \in Int
    OBVIOUS
  <2>3. /\ SubSeq(evs, 1, n - 1) \in Seq(Range(evs))
        /\ Len(SubSeq(evs, 1, n - 1)) = IF 1 <= n - 1 THEN (n - 1) - 1 + 1 ELSE 0
        /\ \A i \in 1..((n - 1) - 1 + 1) : SubSeq(evs, 1, n - 1)[i] = evs[1 + i - 1]
    BY <1>1, <2>1, <2>2, SubSeqProperties
  <2> DEFINE cut == SubSeq(evs, 1, n - 1)
  <2>4. known = cut
    BY DEF evs
  <2> HIDE DEF cut, known
  <2>5. Len(cut) = n - 1 /\ \A i \in 1..(n - 1) : cut[i] = evs[i]
    BY <2>3 DEF cut
  <2> QED
    BY <2>3, <2>4, <2>5 DEF cut
<1> HIDE DEF known
<1>10. known \in Seq(Range(known)) /\ DOMAIN known = 1..(n - 1)
  BY <1>9 DEF Range
<1>11. e \notin Range(known)
  BY <1>0, <1>9, <1>10 DEF Range, evs
<1>12. \A y \in Range(known) : KeptEvent(t, y)
  BY <1>9, <1>10 DEF Range, evs
<1>13. NewEvents(known, q, <<>>) = <<e>>
  BY <1>7, <1>8, <1>10, <1>11, OneNew
<1>14. ~Collides(known, <<e>>)
  <2> DEFINE one == <<e>>
  <2>1. Range(one) = {e} /\ one \in Seq(Range(one))
    BY DEF Range
  <2> HIDE DEF one
  <2>2. Range(known \o one) = Range(known) \cup {e}
    BY <1>10, <2>1, Concat
  <2>3. ASSUME NEW y \in Range(known) \cup {e}, EventKey(e) = EventKey(y) PROVE y = e
    <3>1. y.type = "NEEDS_REVIEW" /\ y.reason = e.reason /\ y.level = e.level
      BY <1>0, <2>3, KeyParts
    <3>2. CASE y \in Range(known)
      <4>1. y = Prepared(ReviewOf(y.reason, y.level), <<>>)
        BY <1>12, <3>1, <3>2 DEF KeptEvent
      <4> QED
        BY <1>3, <3>1, <4>1 DEF x
    <3> QED
      BY <2>3, <3>2
  <2>4. ~Collides(known, one)
    BY <2>1, <2>2, <2>3 DEF Collides
  <2> QED
    BY <2>4 DEF one
<1>15. ErrorOn(v.ctx, known, q, <<>>) = None
  <2>1. Range(<<e>>) = {e}
    BY DEF Range
  <2>2. e.type \notin MarketEventTypes
    BY <1>0 DEF MarketEventTypes
  <2> QED
    BY <1>8, <1>14, <2>1, <2>2 DEF ErrorOn
<1>16. SubSeq(evs, n, (n + 1) - 1) = <<e>>
  <2> DEFINE cut == SubSeq(evs, n, n)
  <2>1. \A i \in n..n : evs[i] \in Range(evs)
    BY <1>1, <1>2 DEF Range
  <2>2. n \in Int
    OBVIOUS
  <2>3. /\ cut \in Seq(Range(evs)) /\ Len(cut) = IF n <= n THEN n - n + 1 ELSE 0
        /\ \A i \in 1..(n - n + 1) : cut[i] = evs[n + i - 1]
    BY <1>1, <2>1, <2>2, SubSeqProperties
  <2> HIDE DEF cut
  <2>4. Len(cut) = 1 /\ 1 \in 1..(n - n + 1) /\ n + 1 - 1 = n
    BY <2>3
  <2>5. cut[1] = e
    BY <1>2, <2>3, <2>4
  <2>6. cut = <<e>>
    BY <2>3, <2>4, <2>5
  <2>7. (n + 1) - 1 = n
    OBVIOUS
  <2> QED
    BY <2>6, <2>7 DEF cut
<1> DEFINE m == n + 1
           one == <<e>>
<1>17. Len(one) = 1
  OBVIOUS
<1>18. m = n + Len(one)
  BY <1>17
<1>19. m <= N + 1
  BY <1>1, <1>2
<1> HIDE DEF m, one
<1>20. Gives(v, n, q, <<>>, m)
  <2>1. NewEvents(SubSeq(v.events, 1, n - 1), q, <<>>) = one
    BY <1>13 DEF one, known
  <2>2. ErrorOn(v.ctx, SubSeq(v.events, 1, n - 1), q, <<>>) = None
    BY <1>15 DEF known
  <2>3. SubSeq(v.events, n, m - 1) = one
    BY <1>16 DEF one, m, evs
  <2>4. m <= Len(v.events) + 1
    BY <1>19 DEF N, evs
  <2> QED
    BY <1>18, <2>1, <2>2, <2>3, <2>4 DEF Gives
<1> QED
  BY <1>5, <1>20 DEF m, q

(***************************************************************************)
(* One review or record more.                                              *)
(***************************************************************************)
LEMMA MarkFollows ==
  ASSUME NEW w, NEW s, Kept(w, s), NEW v, NEW t, Kept(v, t), v.segments = w.segments,
         v.ctx = w.ctx, v.store = w.store,
         NEW evs, InParts(w.events, evs, v.events), \A i \in 1..Len(evs) : evs[i].type \in QualityTypes,
         \A i \in 1..Len(evs) : evs[i] \notin Range(w.events),
         \A i, k \in 1..Len(evs) : evs[i] = evs[k] => i = k,
         NEW j \in Nat, j < Len(evs)
  PROVE  Follows(v, MarkedAt(w, s, evs, j), MarkedAt(w, s, evs, j + 1))
<1> DEFINE h == MarkedAt(w, s, evs, j)
           g == MarkedAt(w, s, evs, j + 1)
           n == Len(w.events)
           k == n + (j + 1)
           e == evs[j + 1]
<1>1. RowsOf(w) /\ RowsOf(v) /\ Stateful(s) /\ w.events \in Seq(Range(w.events))
  BY DEF Kept, RowsOf
<1>2. n \in Nat /\ Len(w.segments) \in Nat /\ Len(evs) \in Nat /\ Len(v.events) = n + Len(evs)
  BY <1>1, AtIsPlace DEF InParts
<1> HIDE DEF n
<1>3. /\ h.state = MarkedTo(s, evs, j) /\ h.seq = (n + 1) + j /\ h.index = Len(w.segments) + 1
      /\ g.state = MarkedTo(s, evs, j + 1) /\ g.seq = (n + 1) + (j + 1) /\ g.index = Len(w.segments) + 1
  BY DEF MarkedAt, n
<1>4. IsPlace(g)
  <2> DEFINE state == MarkedTo(s, evs, j + 1)
             seq == (n + 1) + (j + 1)
             index == Len(w.segments) + 1
  <2>1. g = [state |-> state, seq |-> seq, index |-> index, diverged |-> FALSE]
    BY DEF MarkedAt, n
  <2>2. seq \in Nat \ {0} /\ index \in Nat \ {0}
    BY <1>2
  <2> HIDE DEF g, state, seq, index
  <2> QED
    BY <2>1, <2>2 DEF IsPlace
<1> HIDE DEF h, g
<1>5. h.seq = k /\ k \in Nat \ {0} /\ k <= Len(v.events) /\ g.seq = k + 1
  BY <1>2, <1>3
<1>6. j + 1 \in 1..Len(evs)
  BY <1>2
<1>7. v.events[k] = e
  BY <1>6 DEF InParts, n
<1>8. ~AtSegment(v, h)
  BY <1>2, <1>3 DEF AtSegment
<1>9. e.type \in QualityTypes
  BY <1>6
<1>10. CASE e.type \in RecordTypes
  <2>0. e.type # "NEEDS_REVIEW"
    BY <1>10 DEF RecordTypes
  <2>1. g.state = h.state
    <3>1. evs[j + 1].type # "NEEDS_REVIEW" => MarkedTo(s, evs, j + 1) = MarkedTo(s, evs, j)
      BY <1>1, ReasonsMore
    <3> QED
      BY <1>3, <2>0, <3>1
  <2>2. ByRecord(v, h, g)
    BY <1>3, <1>5, <1>7, <1>10, <2>1 DEF ByRecord
  <2> QED
    BY <1>4, <1>8, <2>2 DEF Follows, h, g
<1>11. CASE e.type \notin RecordTypes
  <2>1. e.type = "NEEDS_REVIEW"
    BY <1>9, <1>11 DEF QualityTypes, RecordTypes
  <2>2. \A i \in 1..(k - 1) : v.events[i] # e
    <3>1. ASSUME NEW i \in 1..(k - 1) PROVE v.events[i] # e
      <4>1. CASE i <= n
        <5>1. i \in 1..n /\ v.events[i] = w.events[i]
          BY <1>2, <4>1 DEF InParts, n
        <5>2. v.events[i] \in Range(w.events)
          BY <1>1, <5>1 DEF Range, n
        <5> QED
          BY <1>6, <5>2
      <4>2. CASE i > n
        <5>1. i - n \in 1..Len(evs) /\ n + (i - n) = i /\ i - n # j + 1
          BY <1>2, <4>2
        <5>2. v.events[i] = evs[i - n]
          BY <5>1 DEF InParts, n
        <5> QED
          BY <1>6, <5>1, <5>2
      <4> QED
        BY <1>2, <4>1, <4>2
    <3> QED
      BY <3>1
  <2>3. \A y \in Range(v.events) : KeptEvent(t, y)
    BY DEF Kept
  <2> HIDE DEF e, k
  <2> DEFINE st == h.state
  <2> HIDE DEF st
  <2>4. Gives(v, k, FlagReview(st, e.reason, e.level), <<>>, k + 1) /\ e.batch = None
    <3>1. RowsOf(v) /\ k \in Nat \ {0} /\ k <= Len(v.events) /\ e = v.events[k]
      BY <1>1, <1>5, <1>7
    <3> QED
      <4>1. NewReview(v, k, e)
        BY <2>1, <2>2, <3>1 DEF NewReview
      <4> QED
        BY <2>3, <3>1, <4>1, ReviewGives
  <2> DEFINE bar == BarIn(v.store, e)
  <2>5. bar = None /\ BarsFor(bar) = <<>>
    BY <2>4 DEF BarIn, BarsFor
  <2> HIDE DEF bar
  <2>6. CommandIn(v.ctx, e, st, bar) = FlagReview(st, e.reason, e.level)
    BY <2>1 DEF CommandIn
  <2>7. g.state = FlagReview(st, e.reason, e.level).state
    <3>1. g.state = Noted(st, e.reason)
      BY <1>1, <1>3, <2>1, ReasonsMore DEF e, st
    <3> QED
      BY <3>1 DEF FlagReview, StepResult, Noted
  <2>8. CommandGives(v, e, bar, h, g)
    BY <1>2, <1>3, <1>5, <2>4, <2>5, <2>6, <2>7 DEF CommandGives, st
  <2>9. ByCommand(v, h, g)
    BY <1>5, <1>7, <1>11, <2>4, <2>8 DEF ByCommand, bar, e
  <2> QED
    BY <1>4, <1>8, <2>9 DEF Follows, h, g
<1> QED
  BY <1>10, <1>11 DEF h, g

(***************************************************************************)
(* Any number of them.                                                     *)
(***************************************************************************)
LEMMA MarksReach ==
  ASSUME NEW w, NEW s, Kept(w, s), Reach(w, At(w, s)), NEW low, NEW r, Puts(s, r, low), Marks(s, r),
         NEW bars, (\E e \in Range(r.events) : e.type = "DATA_GAP") => bars = <<>>,
         NEW v, Books(w, v, r, bars), v.segments = w.segments
  PROVE  Reach(v, At(v, r.state))
<1> DEFINE evs == NewEvents(w.events, r, bars)
           m == Len(evs)
           Place(j) == MarkedAt(w, s, evs, j)
<1>1. Kept(v, r.state) /\ Proper(r)
  BY KeptBooks DEF Puts
<1>2. RowsOf(w) /\ w.events \in Seq(Range(w.events)) /\ Stateful(s) /\ v.ctx = w.ctx /\ v.store = w.store
  BY DEF Kept, RowsOf, Books
<1>3. InParts(w.events, evs, v.events)
  BY <1>1, <1>2, Parts
<1>4. Found(w.events, PreparedOf(r, bars), DOMAIN PreparedOf(r, bars), evs)
  BY <1>1, <1>2, NewEventsFound
<1>5. Reach(v, At(w, s))
  <2>1. Prolongs(w, v)
    BY <1>1, <1>2, BooksProlong
  <2> DEFINE h == At(w, s)
  <2> HIDE DEF h
  <2> SUFFICES Reach(v, h)
    BY DEF h
  <2> QED
    BY <2>1, ReachOn DEF h
<1> HIDE DEF evs
<1>6. m \in Nat /\ DOMAIN evs = 1..m /\ evs \in Seq(Range(evs)) /\ Len(v.events) = Len(w.events) + m
  BY <1>3 DEF InParts
<1>7. /\ \A i \in 1..m : evs[i] \notin Range(w.events)
      /\ \A i, k \in 1..m : evs[i] = evs[k] => i = k
      /\ evs \in Seq(Range(PreparedOf(r, bars)))
  <2>1. \A i \in 1..m : evs[i] \in Range(evs)
    BY <1>6 DEF Range
  <2> QED
    BY <1>4, <1>6, <2>1 DEF Found
<1>8. ASSUME NEW i \in 1..m
      PROVE  \E e \in Range(r.events) : evs[i] = Prepared(e, bars) /\ evs[i].type = e.type
                                          /\ evs[i].reason = e.reason
  <2>1. evs[i] \in Range(PreparedOf(r, bars))
    BY <1>6, <1>7
  <2>2. PICK e \in Range(r.events) : evs[i] = Prepared(e, bars)
    BY <1>1, <2>1, PreparedAll
  <2>3. Entry(e)
    BY <1>1 DEF Proper, Log
  <2> QED
    BY <2>2, <2>3, PreparedIs
<1>9. \A i \in 1..m : evs[i].type \in QualityTypes
  BY <1>8 DEF Marks
<1>10. Place(0) = At(w, s)
  <2>1. ReasonsTo(evs, 0) = {}
    BY DEF ReasonsTo
  <2>2. MarkedTo(s, evs, 0) = [s EXCEPT !.review_reasons = s.review_reasons]
    <3>1. s.review_reasons \cup {} = s.review_reasons
      OBVIOUS
    <3> QED
      BY <2>1, <3>1 DEF MarkedTo
  <2>3. MarkedTo(s, evs, 0) = s
    BY <1>2, <2>2 DEF Stateful
  <2>4. (Len(w.events) + 1) + 0 = Len(w.events) + 1
    BY <1>2
  <2> QED
    BY <2>3, <2>4 DEF MarkedAt, At
<1>11. \A j \in Nat : j < m => Follows(v, Place(j), Place(j + 1))
  BY <1>1, <1>2, <1>3, <1>7, <1>9, MarkFollows
<1> HIDE DEF m
<1> HIDE DEF Place
<1>12. \A j \in 0..m : Reach(v, Place(j))
  <2> DEFINE Bad == {j \in 0..m : ~Reach(v, Place(j))}
  <2>1. SUFFICES ASSUME Bad # {} PROVE FALSE
    OBVIOUS
  <2>2. Bad \in SUBSET Nat
    BY <1>6
  <2>3. PICK j \in Bad : \A i \in Bad : j <= i
    BY <2>1, <2>2, Least
  <2>4. j # 0
    BY <1>5, <1>10, <2>3
  <2>5. j - 1 \in 0..m /\ j - 1 \in Nat /\ j - 1 < m /\ (j - 1) + 1 = j /\ j - 1 \notin Bad
    BY <1>6, <2>3, <2>4
  <2>6. Reach(v, Place(j - 1))
    BY <2>5
  <2>7. Follows(v, Place(j - 1), Place(j))
    BY <1>11, <2>5
  <2>8. RowsOf(v)
    BY <1>1 DEF Kept
  <2>9. Reach(v, Place(j))
    BY <2>6, <2>7, <2>8, ReachMore
  <2> QED
    BY <2>3, <2>9
<1>13. s.review_reasons \cup ReasonsTo(evs, m) = s.review_reasons \cup ReasonsOf(r.events)
  <2>1. ASSUME NEW x \in ReasonsTo(evs, m) PROVE x \in ReasonsOf(r.events)
    <3>1. PICK i \in 1..m : evs[i].type = "NEEDS_REVIEW" /\ x = evs[i].reason
      BY DEF ReasonsTo
    <3>2. PICK e \in Range(r.events) : evs[i].type = e.type /\ evs[i].reason = e.reason
      BY <1>8
    <3> QED
      BY <3>1, <3>2 DEF ReasonsOf
  <2>2. ASSUME NEW x \in ReasonsOf(r.events) PROVE x \in s.review_reasons \cup ReasonsTo(evs, m)
    <3>1. PICK e \in Range(r.events) : e.type = "NEEDS_REVIEW" /\ x = e.reason
      BY DEF ReasonsOf
    <3>2. PICK i \in DOMAIN r.events : e = r.events[i]
      BY DEF Range
    <3> DEFINE y == PreparedOf(r, bars)[i]
    <3>3. y = Prepared(e, bars) /\ i \in DOMAIN PreparedOf(r, bars)
      BY <1>1, <3>2, PreparedAll
    <3>4. Entry(e)
      BY <1>1 DEF Proper, Log
    <3>5. y.type = "NEEDS_REVIEW" /\ y.reason = x
      BY <3>1, <3>3, <3>4, PreparedIs
    <3>6. y \in Range(w.events) \cup Range(evs)
      BY <1>4, <3>3 DEF Found
    <3> HIDE DEF y
    <3>7. CASE y \in Range(w.events)
      BY <3>5, <3>7 DEF Kept, KeptEvent
    <3>8. CASE y \in Range(evs)
      <4>1. PICK k \in 1..m : y = evs[k]
        BY <1>6, <3>8 DEF Range
      <4> QED
        BY <3>5, <4>1 DEF ReasonsTo
    <3> QED
      BY <3>6, <3>7, <3>8
  <2> QED
    BY <2>1, <2>2
<1>14. MarkedTo(s, evs, m) = r.state
  <2>1. r.state = [s EXCEPT !.review_reasons = s.review_reasons \cup ReasonsOf(r.events)]
    BY DEF Marks
  <2> DEFINE t == r.state
  <2>2. t = [s EXCEPT !.review_reasons = s.review_reasons \cup ReasonsOf(r.events)]
    BY <2>1
  <2> HIDE DEF t
  <2>3. MarkedTo(s, evs, m) = t
    BY <1>13, <2>2 DEF MarkedTo
  <2> QED
    BY <2>3 DEF t
<1>15. Place(m) = At(v, r.state)
  <2>1. (Len(w.events) + 1) + m = Len(v.events) + 1
    BY <1>2, <1>6
  <2> QED
    BY <1>14, <2>1 DEF MarkedAt, At, Place
<1> QED
  BY <1>6, <1>12, <1>15

-----------------------------------------------------------------------------
(* Segments and bars appended to the rows. *)

(***************************************************************************)
(* One entry more.                                                         *)
(***************************************************************************)
LEMMA AppendBegins ==
  ASSUME NEW a, a \in Seq(Range(a)), NEW x
  PROVE  /\ Begins(a, Append(a, x)) /\ Len(a) \in Nat /\ Len(Append(a, x)) = Len(a) + 1
         /\ Append(a, x)[Len(a) + 1] = x
<1> DEFINE n == Len(a)
           b == Append(a, x)
<1>1. n \in Nat /\ Len(b) = n + 1 /\ b[n + 1] = x /\ \A i \in 1..n : b[i] = a[i]
  OBVIOUS
<1> HIDE DEF b, n
<1>2. Len(a) <= Len(b)
  BY <1>1 DEF n
<1> QED
  BY <1>1, <1>2 DEF Begins, b, n

\* The segment of running the bars as of its instant, at the end of the rows.
Evaluates(w, s, seg, bars, r) ==
  /\ seg.first_seq = Len(w.events) + 1 /\ seg.count = Len(NewEvents(w.events, r, bars))
  /\ bars = SegmentBars(w, seg) /\ seg.data = SelectedData(SegmentMinutes(seg), bars)
  /\ r = RunBars(s, bars, w.ctx) /\ ErrorOn(w.ctx, w.events, r, bars) = None

(***************************************************************************)
(* An evaluation is regenerated from its segment.                          *)
(***************************************************************************)
LEMMA SegmentReach ==
  ASSUME NEW w, NEW s, Kept(w, s), Reach(w, At(w, s)), NEW r, Proper(r), NEW bars, NEW seg,
         Evaluates(w, s, seg, bars, r), NEW v, Books(w, v, r, bars), v.segments = Append(w.segments, seg)
  PROVE  Reach(v, At(v, r.state))
<1> DEFINE h == At(w, s)
           g == At(v, r.state)
           fresh == NewEvents(w.events, r, bars)
           n == Len(w.events)
           k == Len(w.segments)
<1>1. /\ RowsOf(w) /\ RowsOf(v) /\ v.store = w.store /\ v.ctx = w.ctx
      /\ w.segments \in Seq(Range(w.segments)) /\ w.store \in Seq(Range(w.store))
  BY DEF Kept, Books, RowsOf
<1>2. /\ IsPlace(h) /\ h.state = s /\ h.seq = n + 1 /\ h.index = k + 1
      /\ IsPlace(g) /\ g.state = r.state /\ g.seq = Len(v.events) + 1 /\ g.index = Len(v.segments) + 1
      /\ n \in Nat /\ k \in Nat
  BY <1>1, AtIsPlace
<1>3. InParts(w.events, fresh, v.events)
  BY <1>1, Parts
<1>4. Begins(w.segments, v.segments) /\ Len(v.segments) = k + 1 /\ v.segments[k + 1] = seg
  BY <1>1, AppendBegins
<1>5. Begins(w.store, v.store)
  <2>1. Len(w.store) \in Nat
    BY <1>1
  <2> QED
    BY <1>1, <2>1 DEF Begins
<1>6. Gives(v, n + 1, r, bars, Len(v.events) + 1)
  BY <1>1, GivesBooked DEF Evaluates
<1> HIDE DEF fresh
<1>7. Len(fresh) \in Nat /\ Len(v.events) = n + Len(fresh) /\ Begins(w.events, v.events)
  BY <1>3 DEF InParts
<1>8. Prolongs(w, v)
  <2>1. \A i \in (k + 1)..Len(v.segments) : v.segments[i].first_seq > n
    <3>1. ASSUME NEW i \in (k + 1)..Len(v.segments) PROVE v.segments[i].first_seq > n
      <4>1. i = k + 1
        BY <1>2, <1>4
      <4> QED
        BY <1>2, <1>4, <4>1 DEF Evaluates
    <3> QED
      BY <3>1
  <2> QED
    BY <1>1, <1>4, <1>5, <1>7, <2>1 DEF Prolongs
<1>9. Reach(v, h)
  <2> HIDE DEF h
  <2> QED
    BY <1>8, ReachOn DEF h
<1> HIDE DEF h, g, n, k
<1>10. AtSegment(v, h) /\ v.segments[h.index] = seg
  <2>1. h.index <= Len(v.segments) /\ v.segments[h.index] = seg
    BY <1>2, <1>4
  <2> QED
    BY <1>2, <2>1 DEF AtSegment, Evaluates, n
<1>11. SegmentBars(v, seg) = bars
  BY <1>1 DEF SegmentBars, Evaluates
<1>12. SegmentGives(v, seg, bars, h, g)
  <2>1. RunBars(h.state, bars, v.ctx) = r
    BY <1>1, <1>2 DEF Evaluates
  <2>2. Gives(v, h.seq, r, bars, g.seq)
    BY <1>2, <1>6
  <2>3. g.seq = h.seq + seg.count
    <3>1. seg.count = Len(fresh)
      BY DEF Evaluates, fresh
    <3> QED
      BY <1>2, <1>7, <3>1
  <2>4. g.index = h.index + 1
    BY <1>2, <1>4
  <2>5. SelectedData(SegmentMinutes(seg), bars) = seg.data
    BY DEF Evaluates
  <2> QED
    BY <1>2, <2>1, <2>2, <2>3, <2>4, <2>5 DEF SegmentGives
<1>13. BySegment(v, h, g)
  BY <1>10, <1>11, <1>12 DEF BySegment
<1>14. Follows(v, h, g)
  BY <1>2, <1>13 DEF Follows
<1>15. Reach(v, g)
  BY <1>1, <1>9, <1>14, ReachMore
<1> QED
  BY <1>15 DEF g

(***************************************************************************)
(* A bar that is stored leaves the history where it is.                    *)
(***************************************************************************)
LEMMA StoreReach ==
  ASSUME NEW w, NEW s, Kept(w, s), Reach(w, At(w, s)), NEW bar, bar.batch = Len(w.store) + 1,
         NEW v, v.events = w.events, v.segments = w.segments, v.ctx = w.ctx,
         v.store = Append(w.store, bar), RowsOf(v)
  PROVE  Kept(v, s) /\ Reach(v, At(v, s))
<1>1. /\ RowsOf(w) /\ w.segments \in Seq(Range(w.segments)) /\ w.store \in Seq(Range(w.store))
      /\ w.events \in Seq(Range(w.events))
  BY DEF Kept, RowsOf
<1>2. Len(w.events) \in Nat /\ Len(w.segments) \in Nat /\ Len(w.store) \in Nat
  BY <1>1
<1>3. Begins(w.store, v.store) /\ Len(v.store) = Len(w.store) + 1 /\ v.store[Len(w.store) + 1] = bar
  BY <1>1, AppendBegins
<1>4. Begins(w.events, v.events) /\ Begins(w.segments, v.segments)
  BY <1>2 DEF Begins
<1>5. (Len(w.segments) + 1)..Len(v.segments) = {}
  BY <1>2
<1>6. Prolongs(w, v)
  BY <1>1, <1>3, <1>4, <1>5 DEF Prolongs
<1>7. Reach(v, At(w, s))
  <2> DEFINE h == At(w, s)
  <2> HIDE DEF h
  <2> SUFFICES Reach(v, h)
    BY DEF h
  <2> QED
    BY <1>6, ReachOn DEF h
<1>8. At(v, s) = At(w, s)
  BY DEF At
<1>9. \A i \in DOMAIN v.store : v.store[i].batch = i
  <2>1. DOMAIN w.store = 1..Len(w.store) /\ v.store \in Seq(Range(v.store))
    BY <1>1 DEF RowsOf
  <2>2. DOMAIN v.store = 1..Len(v.store)
    BY <2>1
  <2>3. ASSUME NEW i \in DOMAIN v.store PROVE v.store[i].batch = i
    <3>1. i \in 1..Len(w.store) \/ i = Len(w.store) + 1
      BY <1>2, <1>3, <2>2
    <3>2. CASE i \in 1..Len(w.store)
      BY <1>3, <2>1, <3>2 DEF Begins, Kept
    <3>3. CASE i = Len(w.store) + 1
      BY <1>3, <3>3
    <3> QED
      BY <3>1, <3>2, <3>3
  <2> QED
    BY <2>3
<1>10. Kept(v, s)
  BY <1>9 DEF Kept
<1> QED
  BY <1>7, <1>8, <1>10

-----------------------------------------------------------------------------
(* The road is the regeneration of the order. *)

OrderRows == [events |-> events, segments |-> segments, store |-> store, ctx |-> ctx]

(***************************************************************************)
(* The definitions on rows are those of the ledger.                        *)
(***************************************************************************)
LEMMA OnRows ==
  /\ OrderRows.events = events /\ OrderRows.segments = segments
  /\ OrderRows.store = store /\ OrderRows.ctx = ctx
  /\ \A asOf, minutes : BarsAsOf(asOf, minutes) = BarsIn(store, asOf, minutes)
  /\ \A known, r, bars : IntegrityErrorOf(known, r, bars) = ErrorOn(ctx, known, r, bars)
  /\ \A e, s, bar : CommandOf(e, s, bar) = CommandIn(ctx, e, s, bar)
  /\ \A e : BarOf(e) = BarIn(store, e)
<1>1. \A asOf, minutes : BarsAsOf(asOf, minutes) = BarsIn(store, asOf, minutes)
  BY DEF BarsAsOf, BarsIn, Stored, VersionsAsOf, VersionsIn
<1>2. \A known, r, bars : IntegrityErrorOf(known, r, bars) = ErrorOn(ctx, known, r, bars)
  BY DEF IntegrityErrorOf, ErrorOn, BeforeStart, PreparedOf
<1>3. \A e, s, bar : CommandOf(e, s, bar) = CommandIn(ctx, e, s, bar)
  BY DEF CommandOf, CommandIn
<1>4. \A e : BarOf(e) = BarIn(store, e)
  BY DEF BarOf, BarIn
<1> QED
  BY <1>1, <1>2, <1>3, <1>4 DEF OrderRows

(***************************************************************************)
(* The fields of a history after one result.                               *)
(***************************************************************************)
LEMMA ReplayedForm ==
  ASSUME NEW x, NEW y, NEW z, NEW h, h = [state |-> x, seq |-> y, index |-> z, diverged |-> FALSE],
         NEW known, NEW r, NEW bars, NEW fresh, NEW expected
  PROVE  Replayed(h, known, r, bars, fresh, expected) =
           [state |-> r.state, seq |-> y + Len(fresh), index |-> z,
            diverged |-> FALSE \/ IntegrityErrorOf(known, r, bars) # None
                         \/ fresh # SubSeq(events, h.seq, Lesser(Len(events), h.seq + expected - 1))]
<1> DEFINE error == IntegrityErrorOf(known, r, bars) # None
           differs == fresh # SubSeq(events, h.seq, Lesser(Len(events), h.seq + expected - 1))
           length == Len(fresh)
           state == r.state
<1>1. Replayed(h, known, r, bars, fresh, expected) =
        [h EXCEPT !.state = state, !.seq = @ + length, !.diverged = @ \/ error \/ differs]
  BY DEF Replayed
<1> HIDE DEF error, differs, length, state
<1>2. [h EXCEPT !.state = state, !.seq = @ + length, !.diverged = @ \/ error \/ differs] =
        [state |-> state, seq |-> y + length, index |-> z, diverged |-> FALSE \/ error \/ differs]
  <2> DEFINE d == h.diverged \/ error \/ differs
             k == h.seq + length
  <2>1. h.diverged = FALSE /\ h.seq = y
    OBVIOUS
  <2>2. d = (FALSE \/ error \/ differs) /\ k = y + length
    BY <2>1
  <2>3. [h EXCEPT !.state = state, !.seq = h.seq + length, !.diverged = h.diverged \/ error \/ differs] =
          [h EXCEPT !.state = state, !.seq = k, !.diverged = d]
    OBVIOUS
  <2> HIDE DEF d, k
  <2>4. [h EXCEPT !.state = state, !.seq = k, !.diverged = d] =
          [state |-> state, seq |-> k, index |-> z, diverged |-> d]
    <3>1. h.index = z /\ DOMAIN h = {"state", "seq", "index", "diverged"}
      OBVIOUS
    <3> DEFINE a == [h EXCEPT !.state = state, !.seq = k, !.diverged = d]
    <3>2. DOMAIN a = DOMAIN h /\ a = [f \in DOMAIN a |-> a[f]]
      OBVIOUS
    <3>3. a.state = state /\ a.seq = k /\ a.index = z /\ a.diverged = d
      BY <3>1
    <3> HIDE DEF a
    <3>4. a = [state |-> state, seq |-> k, index |-> z, diverged |-> d]
      BY <3>1, <3>2, <3>3
    <3> QED
      BY <3>4 DEF a
  <2>5. [h EXCEPT !.state = state, !.seq = h.seq + length, !.diverged = h.diverged \/ error \/ differs] =
          [state |-> state, seq |-> k, index |-> z, diverged |-> d]
    BY <2>3, <2>4
  <2> QED
    BY <2>2, <2>5, Zenon
<1>3. Replayed(h, known, r, bars, fresh, expected) =
        [state |-> state, seq |-> y + length, index |-> z, diverged |-> FALSE \/ error \/ differs]
  BY <1>1, <1>2
<1> QED
  BY <1>3 DEF error, differs, length, state

(***************************************************************************)
(* One result of the regenerated history.                                  *)
(***************************************************************************)
LEMMA ReplayedIs ==
  ASSUME RowsOf(OrderRows), NEW h, IsPlace(h), NEW r, NEW bars, NEW expected \in Nat,
         Gives(OrderRows, h.seq, r, bars, h.seq + expected)
  PROVE  Replayed(h, Known(h), r, bars, NewEvents(Known(h), r, bars), expected) =
           [state |-> r.state, seq |-> h.seq + expected, index |-> h.index, diverged |-> FALSE]
<1> DEFINE fresh == NewEvents(Known(h), r, bars)
           n == Len(events)
           m == h.seq + expected
           error == IntegrityErrorOf(Known(h), r, bars)
           cut == SubSeq(events, h.seq, Lesser(n, h.seq + expected - 1))
<1>1. n \in Nat /\ h.seq \in Nat /\ h.seq # 0
  <2>1. events \in Seq(Range(events))
    BY OnRows DEF RowsOf
  <2> QED
    BY <2>1 DEF IsPlace
<1>2. error = None /\ m = h.seq + Len(fresh) /\ m <= n + 1 /\ fresh = SubSeq(events, h.seq, m - 1)
  BY OnRows DEF Gives, Known
<1>3. Lesser(n, h.seq + expected - 1) = m - 1
  <2>2. h.seq + expected - 1 = m - 1
    BY <1>1
  <2>3. ~(n < m - 1)
    BY <1>1, <1>2
  <2> QED
    BY <2>2, <2>3 DEF Lesser
<1>4. fresh = cut
  BY <1>2, <1>3
<1>5. h.diverged = FALSE /\ h.index = h.index
  BY DEF IsPlace
<1> DEFINE x == h.state
           y == h.seq
           z == h.index
<1>6. h = [state |-> x, seq |-> y, index |-> z, diverged |-> FALSE]
  BY DEF IsPlace
<1>7. Replayed(h, Known(h), r, bars, fresh, expected) =
        [state |-> r.state, seq |-> y + Len(fresh), index |-> z,
         diverged |-> FALSE \/ error # None \/ fresh # cut]
  <2> HIDE DEF fresh, x, y, z
  <2>1. Replayed(h, Known(h), r, bars, fresh, expected) =
          [state |-> r.state, seq |-> y + Len(fresh), index |-> z,
           diverged |-> FALSE \/ IntegrityErrorOf(Known(h), r, bars) # None
                        \/ fresh # SubSeq(events, h.seq, Lesser(Len(events), h.seq + expected - 1))]
    BY <1>6, ReplayedForm
  <2> QED
    BY <2>1
<1>8. y + Len(fresh) = h.seq + expected
  BY <1>2
<1> QED
  BY <1>2, <1>4, <1>7, <1>8

Passing(p, fails) == [p EXCEPT !.diverged = @ \/ fails]
PassingOn(p, fails) == [p EXCEPT !.index = @ + 1, !.diverged = @ \/ fails]
Noting(p) == [p EXCEPT !.seq = @ + 1]
PlacedAt(p, x, y, z) == p = [state |-> x, seq |-> y, index |-> z, diverged |-> FALSE]

(***************************************************************************)
(* A history that a check lets pass, and one that a record passes by.      *)
(***************************************************************************)
LEMMA PassedForm ==
  ASSUME NEW x, NEW y, NEW z, NEW p, PlacedAt(p, x, y, z)
  PROVE  /\ PlacedAt(PassingOn(p, FALSE), x, y, z + 1)
         /\ Passing(p, FALSE) = p
         /\ PlacedAt(Noting(p), x, y + 1, z)
<1>0. p = [state |-> x, seq |-> y, index |-> z, diverged |-> FALSE]
  BY DEF PlacedAt
<1> DEFINE fails == FALSE
<1> DEFINE d == p.diverged \/ fails
           k == p.index + 1
           a == [p EXCEPT !.index = k, !.diverged = d]
           b == [p EXCEPT !.diverged = d]
           l == p.seq + 1
           c == [p EXCEPT !.seq = l]
<1>1. /\ p.index = z /\ p.diverged = FALSE /\ p.state = x /\ p.seq = y
      /\ DOMAIN p = {"state", "seq", "index", "diverged"}
  BY <1>0
<1>2. k = z + 1
  BY <1>1
<1>3. d = FALSE
  BY <1>1
<1>4. PassingOn(p, fails) = a /\ Passing(p, fails) = b /\ Noting(p) = c
  BY DEF PassingOn, Passing, Noting
<1>12. l = y + 1
  BY <1>1
<1> HIDE DEF d, k, l
<1>5. /\ DOMAIN a = DOMAIN p /\ a = [f \in DOMAIN a |-> a[f]]
      /\ DOMAIN b = DOMAIN p /\ b = [f \in DOMAIN b |-> b[f]]
  OBVIOUS
<1>6. a.state = x /\ a.seq = y /\ a.index = k /\ a.diverged = d
  BY <1>1
<1>7. b.state = x /\ b.seq = y /\ b.index = z /\ b.diverged = d
  BY <1>1
<1>13. DOMAIN c = DOMAIN p /\ c = [f \in DOMAIN c |-> c[f]]
  OBVIOUS
<1>14. c.state = x /\ c.seq = l /\ c.index = z /\ c.diverged = FALSE
  BY <1>1
<1> HIDE DEF a, b, c
<1>15. c = [state |-> x, seq |-> l, index |-> z, diverged |-> FALSE]
  BY <1>1, <1>13, <1>14
<1>16. c = [state |-> x, seq |-> y + 1, index |-> z, diverged |-> FALSE]
  BY <1>12, <1>15
<1>8. a = [state |-> x, seq |-> y, index |-> k, diverged |-> d]
  BY <1>1, <1>5, <1>6
<1>9. b = [state |-> x, seq |-> y, index |-> z, diverged |-> d]
  BY <1>1, <1>5, <1>7
<1>10. a = [state |-> x, seq |-> y, index |-> z + 1, diverged |-> FALSE]
  BY <1>2, <1>3, <1>8
<1>11. b = p
  BY <1>0, <1>3, <1>9
<1> QED
  BY <1>4, <1>10, <1>11, <1>16, Zenon DEF PlacedAt

(***************************************************************************)
(* The history takes the road's items, and stays at its end.               *)
(***************************************************************************)
LEMMA ItemFollows ==
  ASSUME RowsOf(OrderRows), NEW h, IsPlace(h), NEW g, Follows(OrderRows, h, g), NEW item
  PROVE  ReplayItem(h, item) = g
<1> DEFINE n == Len(events)
<1>1. n \in Nat /\ segments \in Seq(Range(segments)) /\ \A seg \in Range(segments) : seg.count \in Nat
  <2>1. events \in Seq(Range(events)) /\ segments \in Seq(Range(segments))
        /\ \A seg \in Range(segments) : seg.count \in Nat
    BY OnRows DEF RowsOf
  <2> QED
    BY <2>1
<1>2. /\ h.seq \in Nat /\ h.index \in Nat \ {0} /\ h.diverged = FALSE
      /\ g = [state |-> g.state, seq |-> g.seq, index |-> g.index, diverged |-> FALSE]
  BY DEF IsPlace, Follows
<1> DEFINE x == g.state
           y == g.seq
           z == g.index
<1>3. g = [state |-> x, seq |-> y, index |-> z, diverged |-> FALSE]
  BY <1>2
<1>4. AtSegment(OrderRows, h) <=> h.index <= Len(segments) /\ segments[h.index].first_seq = h.seq
  BY OnRows DEF AtSegment
<1>5. CASE BySegment(OrderRows, h, g)
  <2> DEFINE seg == segments[h.index]
             minutes == SegmentMinutes(seg)
             bars == BarsAsOf(seg.asOf, minutes)
             r == RunBars(h.state, bars, ctx)
             fresh == NewEvents(Known(h), r, bars)
             p == Replayed(h, Known(h), r, bars, fresh, seg.count)
             fails == SelectedData(minutes, bars) # seg.data
  <2>1. AtSegment(OrderRows, h)
    BY <1>5 DEF BySegment
  <2>2. ReplayItem(h, item) = ReplaySegment(h, seg)
    BY <1>2, <1>4, <2>1 DEF ReplayItem
  <2>3. bars = SegmentBars(OrderRows, seg)
    BY OnRows DEF SegmentBars
  <2>4. SegmentGives(OrderRows, seg, bars, h, g)
    BY <1>5, <2>3, OnRows DEF BySegment
  <2>5. seg.count \in Nat
    <3>1. seg \in Range(segments)
      BY <1>1, <1>2, <1>4, <2>1 DEF Range
    <3> QED
      BY <1>1, <3>1
  <2>6. ReplaySegment(h, seg) = PassingOn(p, fails)
    BY DEF PassingOn, ReplaySegment, ReplayAsOf, ReplayBars
  <2> HIDE DEF seg, minutes, bars
  <2>7. /\ Gives(OrderRows, h.seq, r, bars, y) /\ y = h.seq + seg.count /\ z = h.index + 1 /\ x = r.state
        /\ fails = FALSE
    BY <2>4, OnRows DEF SegmentGives, minutes
  <2> HIDE DEF r
  <2>8. p = [state |-> r.state, seq |-> h.seq + seg.count, index |-> h.index, diverged |-> FALSE]
    BY <2>5, <2>7, ReplayedIs
  <2> HIDE DEF p, fails
  <2> DEFINE a == r.state
             b == h.seq + seg.count
             c == h.index
  <2>9. PlacedAt(p, a, b, c)
    BY <2>8 DEF PlacedAt
  <2> HIDE DEF a, b, c
  <2>13. PlacedAt(PassingOn(p, FALSE), a, b, c + 1)
    BY <2>9, PassedForm
  <2>14. PassingOn(p, fails) = PassingOn(p, FALSE)
    BY <2>7, Zenon
  <2>10. PassingOn(p, fails) = [state |-> a, seq |-> b, index |-> c + 1, diverged |-> FALSE]
    BY <2>13, <2>14 DEF PlacedAt
  <2>11. a = x /\ b = y /\ c + 1 = z
    BY <2>7 DEF a, b, c
  <2> HIDE DEF x, y, z
  <2>12. PassingOn(p, fails) = g
    BY <1>3, <2>10, <2>11
  <2> QED
    BY <2>2, <2>6, <2>12
<1>6. CASE ~AtSegment(OrderRows, h) /\ ByRecord(OrderRows, h, g)
  <2>1. /\ h.seq <= n /\ events[h.seq].type \in {"DATA_QUALITY", "DATA_GAP"}
        /\ x = h.state /\ y = h.seq + 1 /\ z = h.index
    BY <1>6, OnRows DEF ByRecord, RecordTypes
  <2>2. ReplayItem(h, item) = Noting(h)
    BY <1>1, <1>2, <1>4, <1>6, <2>1 DEF Noting, ReplayItem
  <2> DEFINE a == h.state
             b == h.seq
             c == h.index
  <2>3. h = [state |-> a, seq |-> b, index |-> c, diverged |-> FALSE]
    BY DEF IsPlace
  <2>4. x = a /\ y = b + 1 /\ z = c
    BY <2>1
  <2> HIDE DEF a, b, c, x, y, z
  <2>6. PlacedAt(h, a, b, c)
    BY <2>3 DEF PlacedAt
  <2>7. PlacedAt(Noting(h), a, b + 1, c)
    BY <2>6, PassedForm
  <2>5. Noting(h) = [state |-> a, seq |-> b + 1, index |-> c, diverged |-> FALSE]
    BY <2>7 DEF PlacedAt
  <2> QED
    BY <1>3, <2>2, <2>4, <2>5
<1>7. CASE ~AtSegment(OrderRows, h) /\ ByCommand(OrderRows, h, g)
  <2> DEFINE e == events[h.seq]
             bar == BarOf(e)
             bars == BarsFor(bar)
             r == CommandOf(e, h.state, bar)
             fresh == NewEvents(Known(h), r, bars)
             p == Replayed(h, Known(h), r, bars, fresh, Len(fresh))
             fails == fresh = <<>>
  <2>1. h.seq <= n /\ e.type \notin {"DATA_QUALITY", "DATA_GAP"}
    BY <1>7, OnRows DEF ByCommand, RecordTypes
  <2>2. ReplayItem(h, item) = ReplayCommand(h, e, bar)
    BY <1>1, <1>2, <1>4, <1>7, <2>1 DEF ReplayItem
  <2>3. CommandGives(OrderRows, e, bar, h, g)
    BY <1>7, OnRows DEF ByCommand
  <2>4. ReplayCommand(h, e, bar) = Passing(p, fails)
    BY DEF Passing, ReplayCommand, ReplayResult, ReplayEvents, BarsFor
  <2>5. /\ Gives(OrderRows, h.seq, r, bars, y) /\ y > h.seq /\ z = h.index /\ x = r.state
    BY <2>3, OnRows DEF CommandGives
  <2>6. y = h.seq + Len(fresh) /\ y <= n + 1 /\ y \in Nat
    BY <1>2, <2>5, OnRows DEF Gives, Known, Follows, IsPlace
  <2>7. fresh = SubSeq(events, h.seq, y - 1)
    BY <2>5, OnRows DEF Gives, Known
  <2> HIDE DEF e, bar, bars, r
  <2>8. Len(fresh) \in Nat /\ fresh # <<>>
    <3> DEFINE k == h.seq
    <3>1. k \in Nat /\ k # 0 /\ y \in Nat /\ y > k /\ y - 1 <= n /\ events \in Seq(Range(events))
      BY <1>1, <1>2, <2>5, <2>6, OnRows DEF IsPlace, RowsOf
    <3> HIDE DEF k, y
    <3>2. \A i \in k..(y - 1) : events[i] \in Range(events)
      <4>1. \A i \in k..(y - 1) : i \in DOMAIN events
        BY <1>1, <3>1
      <4> QED
        BY <4>1 DEF Range
    <3>3. k \in Int /\ y - 1 \in Int
      BY <3>1
    <3>4. Len(SubSeq(events, k, y - 1)) = IF k <= y - 1 THEN (y - 1) - k + 1 ELSE 0
      BY <3>1, <3>2, <3>3, SubSeqProperties
    <3>5. fresh = SubSeq(events, k, y - 1)
      BY <2>7 DEF k, y
    <3> HIDE DEF fresh
    <3>6. Len(fresh) = y - k
      BY <3>1, <3>4, <3>5
    <3>7. Len(fresh) \in Nat /\ Len(fresh) # 0
      BY <3>1, <3>6
    <3> QED
      BY <3>7
  <2>9. p = [state |-> r.state, seq |-> h.seq + Len(fresh), index |-> h.index, diverged |-> FALSE]
    <3> DEFINE m == Len(fresh)
    <3>1. Gives(OrderRows, h.seq, r, bars, h.seq + m) /\ m \in Nat
      BY <2>5, <2>6, <2>8
    <3> HIDE DEF m
    <3>2. Replayed(h, Known(h), r, bars, fresh, m) =
            [state |-> r.state, seq |-> h.seq + m, index |-> h.index, diverged |-> FALSE]
      BY <3>1, ReplayedIs
    <3> QED
      BY <3>2 DEF m
  <2>10. fails = FALSE
    BY <2>8
  <2> DEFINE a == r.state
             b == h.seq + Len(fresh)
             c == h.index
  <2>11. p = [state |-> a, seq |-> b, index |-> c, diverged |-> FALSE]
    BY <2>9
  <2>12. a = x /\ b = y /\ c = z
    BY <2>5, <2>6
  <2> HIDE DEF p, fails, a, b, c, x, y, z
  <2>13. Passing(p, fails) = p
    <3>1. PlacedAt(p, a, b, c)
      BY <2>11 DEF PlacedAt
    <3>2. Passing(p, FALSE) = p
      BY <3>1, PassedForm
    <3> QED
      BY <2>10, <3>2, Zenon
  <2>14. p = g
    BY <1>3, <2>11, <2>12
  <2> QED
    BY <2>2, <2>4, <2>13, <2>14
<1> QED
  BY <1>5, <1>6, <1>7 DEF Follows

(***************************************************************************)
(* The history stays at the end of the rows.                               *)
(***************************************************************************)
LEMMA EndFollows ==
  ASSUME RowsOf(OrderRows), NEW s, NEW item
  PROVE  ReplayItem(At(OrderRows, s), item) = At(OrderRows, s)
<1> DEFINE h == At(OrderRows, s)
<1>1. h.seq = Len(events) + 1 /\ h.index = Len(segments) + 1 /\ h.diverged = FALSE
  BY OnRows DEF At
<1>2. Len(events) \in Nat /\ Len(segments) \in Nat
  <2>1. events \in Seq(Range(events)) /\ segments \in Seq(Range(segments))
    BY OnRows DEF RowsOf
  <2> QED
    BY <2>1
<1> HIDE DEF h
<1>3. ~(h.index <= Len(segments)) /\ h.seq > Len(events)
  BY <1>1, <1>2
<1>4. ReplayItem(h, item) = h
  BY <1>1, <1>3 DEF ReplayItem
<1> QED
  BY <1>4 DEF h

RoadReplay(p, n, h) == ReplayItem(h, n)
RoadNumber(p, i) == p.items[i]
RoadPlace(p, n) == p.road[IF n < p.length THEN n + 1 ELSE p.length]
RoadSoFar(p, s, h) == \A n \in Nat : n = Cardinality(s) => h = RoadPlace(p, n)

Following == INSTANCE FoldProofs WITH
  Apply <- RoadReplay, Item <- RoadNumber, Pick <- Greatest, Holds <- RoadSoFar

(***************************************************************************)
(* The first place of the road is the history of the created order.        *)
(***************************************************************************)
LEMMA FirstHistory ==
  ASSUME NEW s, Kept(OrderRows, s)
  PROVE  [state |-> NewOrderState(ctx, None).state,
          seq |-> Len(NewOrderState(ctx, None).events) + 1, index |-> 1,
          diverged |-> NewEvents(<<>>, NewOrderState(ctx, None), <<>>) # SubSeq(events, 1, 1)]
           = First(OrderRows)
<1> DEFINE created == NewOrderState(ctx, None)
           e == Prepared(Event("ORDER_CREATED", None), <<>>)
<1>1. created.events = <<Event("ORDER_CREATED", None)>>
  BY DEF NewOrderState, StepResult
<1>2. events \in Seq(Range(events)) /\ events # <<>> /\ events[1] = e
  BY OnRows DEF Kept, RowsOf
<1>3. NewEvents(<<>>, created, <<>>) = <<e>>
  <2> DEFINE f == Event("ORDER_CREATED", None)
  <2>1. created.events = <<f>>
    BY <1>1
  <2>2. e = Prepared(f, <<>>)
    OBVIOUS
  <2> HIDE DEF f, e, created
  <2>3. NewEvents(<<>>, created, <<>>) = <<Prepared(f, <<>>)>>
    <3>1. Proper(created)
      <4>1. Entry(f)
        BY DEF Entry, f, Event
      <4> DEFINE first == created.state
      <4>2. created = StepResult(first, <<f>>)
        BY DEF created, NewOrderState, StepResult, f
      <4> HIDE DEF first
      <4> QED
        BY <4>1, <4>2, FewEvents
    <3>2. PreparedOf(created, <<>>) = <<Prepared(f, <<>>)>>
      BY <2>1 DEF PreparedOf
    <3> DEFINE x == Prepared(f, <<>>)
    <3> HIDE DEF x
    <3>3. PreparedOf(created, <<>>) = <<x>> /\ x \notin Range(<<>>)
      BY <3>2 DEF x, Range
    <3>4. <<>> \in Seq(Range(<<>>))
      OBVIOUS
    <3>5. NewEvents(<<>>, created, <<>>) = <<x>>
      BY <3>1, <3>3, <3>4, OneNew
    <3> QED
      BY <3>5 DEF x
  <2> QED
    BY <2>2, <2>3
<1>4. SubSeq(events, 1, 1) = <<e>>
  <2> HIDE DEF e
  <2>1. Len(events) \in Nat /\ Len(events) >= 1
    BY <1>2
  <2> QED
    <3>1. events[1] = e /\ 1 \in Int /\ \A i \in 1..1 : events[i] \in {e}
      BY <1>2
    <3>2. SubSeq(events, 1, 1) \in Seq({e}) /\ Len(SubSeq(events, 1, 1)) = 1
      BY <3>1, SubSeqProperties
    <3> DEFINE cut == SubSeq(events, 1, 1)
    <3>3. cut \in Seq({e}) /\ Len(cut) = 1
      BY <3>2
    <3> HIDE DEF cut
    <3>4. cut[1] = e
      BY <3>3
    <3>5. cut = <<e>>
      BY <3>3, <3>4
    <3> QED
      BY <3>5 DEF cut
<1>5. (NewEvents(<<>>, created, <<>>) # SubSeq(events, 1, 1)) = FALSE
  BY <1>3, <1>4
<1>6. Len(created.events) + 1 = 2
  BY <1>1
<1> HIDE DEF created
<1>7. First(OrderRows) = [state |-> created.state, seq |-> 2, index |-> 1, diverged |-> FALSE]
  BY OnRows DEF First, created
<1> QED
  BY <1>5, <1>6, <1>7 DEF created

(***************************************************************************)
(* The regeneration of rows that have a road to their end is the state     *)
(* there, without a divergence.                                            *)
(***************************************************************************)
LEMMA RoadRegenerates ==
  ASSUME NEW s, Kept(OrderRows, s), Reach(OrderRows, At(OrderRows, s))
  PROVE  /\ RegeneratedHistory.diverged = FALSE
         /\ RegeneratedHistory.projection = [state |-> s, next_seq |-> Len(events) + 1]
<1> DEFINE created == NewOrderState(ctx, None)
           first == [state |-> created.state, seq |-> Len(created.events) + 1, index |-> 1,
                     diverged |-> NewEvents(<<>>, created, <<>>) # SubSeq(events, 1, 1)]
           N == Len(events) + Len(segments)
           S == 1..N
           items == [n \in 1..(Len(events) + Len(segments)) |-> n]
           end == At(OrderRows, s)
<1>1. RowsOf(OrderRows)
  BY DEF Kept
<1>2. Len(events) \in Nat /\ Len(segments) \in Nat
  <2>1. events \in Seq(Range(events)) /\ segments \in Seq(Range(segments))
    BY <1>1, OnRows DEF RowsOf
  <2> QED
    BY <2>1
<1>3. PICK k \in Nat \ {0} : \E t : Road(OrderRows, k, t) /\ t[k] = end
  BY DEF Reach
<1>4. PICK t : Road(OrderRows, k, t) /\ t[k] = end
  BY <1>3
<1> DEFINE p == [items |-> items, road |-> t, length |-> k]
           h == Following!Fold(p, first, S)
<1>5. RegeneratedHistory = Regenerated(h)
  <2>1. Replay(created) = FoldLeft(ReplayItem, first, items)
    BY DEF Replay
  <2>2. DOMAIN items = S /\ p.items = items
    OBVIOUS
  <2> HIDE DEF items, S, first, p
  <2>3. FoldLeft(ReplayItem, first, items) = h
    BY <2>2 DEF FoldLeft, Following!Fold, MapThenFoldSet, Following!MapThenFoldSet, RoadReplay,
         RoadNumber, Greatest
  <2> QED
    BY <2>1, <2>3 DEF RegeneratedHistory, created
<1>6. first = First(OrderRows)
  BY FirstHistory
<1>7. p.road = t /\ p.length = k
  OBVIOUS
<1> HIDE DEF first, items, p, created
<1>8. N \in Nat /\ k <= N
  <2>1. end.seq = Len(events) + 1 /\ end.index = Len(segments) + 1
    BY OnRows DEF At
  <2>2. k + 2 <= end.seq + end.index
    BY <1>4 DEF Road
  <2> HIDE DEF end
  <2> QED
    BY <1>2, <2>1, <2>2
<1> HIDE DEF N
<1>9. IsFiniteSet(S) /\ Cardinality(S) = N
  BY <1>8, FS_Interval
<1>10. Following!IsFiniteSet(S)
  BY <1>9 DEF IsFiniteSet, Following!IsFiniteSet
<1>11. ASSUME NEW u \in SUBSET S, u # {} PROVE Max(u) \in u
  <2>1. 1 \in Int /\ N \in Int
    BY <1>8
  <2> QED
    BY <1>11, <2>1, Extremes
<1>12. Following!Picks(p, S)
  BY <1>11 DEF Following!Picks, Greatest
<1>13. RoadSoFar(p, {}, first)
  <2>1. Cardinality({}) = 0
    BY FS_EmptySet
  <2>2. t[1] = first
    BY <1>4, <1>6 DEF Road
  <2>3. RoadPlace(p, 0) = first
    BY <1>7, <2>2 DEF RoadPlace
  <2> QED
    BY <2>1, <2>3 DEF RoadSoFar
<1>14. ASSUME NEW n \in Nat, NEW item
       PROVE  ReplayItem(RoadPlace(p, n), item) = RoadPlace(p, n + 1)
  <2>1. CASE n + 1 < k
    <3>1. RoadPlace(p, n) = t[n + 1] /\ RoadPlace(p, n + 1) = t[(n + 1) + 1]
      BY <1>7, <2>1 DEF RoadPlace
    <3> DEFINE m == n + 1
    <3>2. m \in 1..(k - 1) /\ m \in 1..k
      BY <2>1
    <3> HIDE DEF m
    <3>3. Follows(OrderRows, t[m], t[m + 1]) /\ IsPlace(t[m])
      BY <1>4, <3>2 DEF Road
    <3>4. ReplayItem(t[m], item) = t[m + 1]
      BY <1>1, <3>3, ItemFollows
    <3> QED
      BY <3>1, <3>4 DEF m
  <2>2. CASE n + 1 = k
    <3>1. RoadPlace(p, n) = t[k] /\ RoadPlace(p, n + 1) = t[k]
      BY <1>7, <2>2 DEF RoadPlace
    <3>2. ReplayItem(end, item) = end
      BY <1>1, EndFollows
    <3> QED
      BY <1>4, <3>1, <3>2
  <2>3. CASE n + 1 > k
    <3>1. RoadPlace(p, n) = t[k] /\ RoadPlace(p, n + 1) = t[k]
      BY <1>7, <2>3 DEF RoadPlace
    <3>2. ReplayItem(end, item) = end
      BY <1>1, EndFollows
    <3> QED
      BY <1>4, <3>1, <3>2
  <2> QED
    BY <2>1, <2>2, <2>3
<1>15. ASSUME NEW u \in SUBSET S, u # {}, NEW acc, RoadSoFar(p, u \ {Greatest(p, u)}, acc)
       PROVE  RoadSoFar(p, u, RoadReplay(p, RoadNumber(p, Greatest(p, u)), acc))
  <2> DEFINE m == Greatest(p, u)
             n == Cardinality(u) - 1
  <2>1. m \in u /\ IsFiniteSet(u)
    BY <1>9, <1>11, <1>15, FS_Subset DEF Greatest
  <2>2. Cardinality(u \ {m}) = n /\ Cardinality(u) \in Nat /\ Cardinality(u \ {m}) \in Nat
    BY <2>1, FS_RemoveElement, FS_CardinalityType, FS_Subset
  <2>3. n \in Nat /\ n + 1 = Cardinality(u)
    BY <2>2
  <2>4. acc = RoadPlace(p, n)
    BY <1>15, <2>2 DEF RoadSoFar
  <2> DEFINE item == RoadNumber(p, m)
  <2> HIDE DEF n, item
  <2>5. ReplayItem(acc, item) = RoadPlace(p, n + 1)
    BY <1>14, <2>3, <2>4
  <2> QED
    BY <2>3, <2>5 DEF RoadSoFar, RoadReplay, item
<1>16. RoadSoFar(p, S, h)
  BY <1>10, <1>12, <1>13, <1>15, Following!FoldHolds
<1> HIDE DEF h
<1>17. h = end
  <2>1. h = RoadPlace(p, N)
    BY <1>8, <1>9, <1>16 DEF RoadSoFar
  <2>2. ~(N < k)
    BY <1>8
  <2>3. RoadPlace(p, N) = t[k]
    BY <1>7, <2>2 DEF RoadPlace
  <2> QED
    BY <1>4, <2>1, <2>3
<1>18. /\ end.diverged = FALSE /\ end.index = Len(segments) + 1
       /\ end.state = s /\ end.seq = Len(events) + 1
  BY OnRows DEF At
<1>19. RegeneratedHistory.diverged = (end.diverged \/ end.index <= Len(segments))
       /\ RegeneratedHistory.projection = [state |-> end.state, next_seq |-> end.seq]
  BY <1>5, <1>17 DEF Regenerated
<1>20. ~(Len(segments) + 1 <= Len(segments))
  BY <1>2
<1> HIDE DEF end
<1> QED
  BY <1>18, <1>19, <1>20

-----------------------------------------------------------------------------
(* Every transaction leaves rows that regenerate the order. *)

\* The latest bar that the order has processed is in the store, as of the segment
\* that covers its minute.
ProcessedIn(w, s) ==
  s.last_bar_ts # None =>
    /\ w.ctx.start <= s.last_bar_ts
    /\ \E i \in DOMAIN w.segments :
         /\ w.segments[i].from <= s.last_bar_ts /\ s.last_bar_ts <= w.segments[i].to
         /\ \E k \in 1..w.segments[i].asOf : w.store[k].ts = s.last_bar_ts

\* The order whose rows these are is in the state s.
Regenerates(s) ==
  /\ Kept(OrderRows, s) /\ Reach(OrderRows, At(OrderRows, s)) /\ ProcessedIn(OrderRows, s)
  /\ projection # None => projection = [state |-> s, next_seq |-> Len(events) + 1]

RegenInv == \E s : Regenerates(s)

(***************************************************************************)
(* The rows of the ledger are well formed.                                 *)
(***************************************************************************)
LEMMA RowsForm ==
  ASSUME Rows
  PROVE  RowsOf(OrderRows)
BY OnRows DEF Rows, RowsOf, Segment

(***************************************************************************)
(* Rows that a transaction leaves alone.                                   *)
(***************************************************************************)
LEMMA RowsStand ==
  ASSUME RegenInv, UNCHANGED <<ctx, store, events, segments>>, projection' \in {projection, None}
  PROVE  RegenInv'
<1>1. PICK s : Regenerates(s)
  BY DEF RegenInv
<1>2. OrderRows' = OrderRows
  BY DEF OrderRows
<1>3. Regenerates(s)'
  BY <1>1, <1>2 DEF Regenerates
<1> QED
  BY <1>3 DEF RegenInv

(***************************************************************************)
(* A new event that can only happen once is not in the ledger.             *)
(***************************************************************************)
LEMMA NewIsFresh ==
  ASSUME NEW w, NEW s, Kept(w, s), NEW low, NEW r, Puts(s, r, low), NEW e \in Range(r.events),
         e.type \in OnceTypes \cup ZoneTypes \cup {"FROZEN"}, NEW bars
  PROVE  Prepared(e, bars) \notin Range(w.events)
<1> DEFINE x == Prepared(e, bars)
<1>1. Entry(e) /\ NewIn(s, r.state, e, low)
  BY DEF Puts, Proper, Log
<1>2. x.type = e.type /\ x.ts = e.ts /\ x.reason = e.reason
  BY <1>1, PreparedIs
<1> HIDE DEF x
<1>3. SUFFICES ASSUME KeptEvent(s, x) PROVE FALSE
  BY DEF Kept, x
<1>4. CASE e.type \in OnceTypes \cup ZoneTypes
  <2>1. ~Traced(s, e) /\ Traced(s, x)
    BY <1>1, <1>2, <1>3, <1>4 DEF NewIn, KeptEvent
  <2> QED
    BY <1>2, <2>1 DEF Traced
<1>5. CASE e.type = "FROZEN"
  BY <1>1, <1>2, <1>3, <1>5 DEF NewIn, KeptEvent
<1> QED
  BY <1>4, <1>5

(***************************************************************************)
(* A call raises no integrity error when what it writes is new and in the  *)
(* window.                                                                 *)
(***************************************************************************)
LEMMA NoErrorOn ==
  ASSUME NEW w, NEW s, Kept(w, s), NEW low, NEW r, Puts(s, r, low), NEW bars,
         Apart(w.events, r, bars), NEW c,
         \A e \in Range(r.events) : e.type \in MarketEventTypes => e.ts # None /\ ~(e.ts < c.start)
  PROVE  ErrorOn(c, w.events, r, bars) = None
<1> DEFINE evs == PreparedOf(r, bars)
<1>1. ~Collides(w.events, evs)
  <2> DEFINE known == w.events
  <2>1. known \in Seq(Range(known)) /\ \A e \in Range(known) : KeptEvent(s, e)
    BY DEF Kept, RowsOf
  <2> HIDE DEF known
  <2>2. Apart(known, r, bars)
    BY DEF known
  <2>3. ~Collides(known, PreparedOf(r, bars))
    BY <2>1, <2>2, NoCollision
  <2> QED
    BY <2>3 DEF known
<1>2. ~\E x \in Range(evs) : x.type \in MarketEventTypes /\ (x.ts = None \/ x.ts < c.start)
  <2>1. ASSUME NEW x \in Range(evs)
        PROVE  ~(x.type \in MarketEventTypes /\ (x.ts = None \/ x.ts < c.start))
    <3>1. Proper(r)
      BY DEF Puts
    <3>2. PICK e \in Range(r.events) : x = Prepared(e, bars)
      BY <2>1, <3>1, PreparedAll
    <3>3. Entry(e)
      BY <3>1 DEF Proper, Log
    <3>4. x.type = e.type /\ x.ts = e.ts
      BY <3>2, <3>3, PreparedIs
    <3> QED
      BY <3>4
  <2> QED
    BY <2>1
<1> HIDE DEF evs
<1> QED
  BY <1>1, <1>2 DEF ErrorOn, evs

\* The result r of a call outside of a cycle is new and in the window.
Clean(w, s, r, bars) ==
  /\ r.state.last_bar_ts = s.last_bar_ts /\ Apart(w.events, r, bars)
  /\ \A e \in Range(r.events) : e.type \in MarketEventTypes => e.ts # None /\ ~(e.ts < w.ctx.start)

\* The first event of the result r, from bars, tells the history the call.
Rereads(w, s, r, bars) ==
  \E x : /\ r.events # <<>> /\ x = Prepared(r.events[1], bars)
         /\ x \notin Range(w.events) /\ x.type \notin RecordTypes
         /\ x.batch \in DOMAIN w.store \cup {None}
         /\ bars = BarsFor(BarIn(w.store, x)) /\ CommandIn(w.ctx, x, s, BarIn(w.store, x)) = r

(***************************************************************************)
(* After a transaction too the rows of the ledger are well formed.         *)
(***************************************************************************)
LEMMA RowsFormNext ==
  ASSUME Rows'
  PROVE  RowsOf(OrderRows')
<1> DEFINE v == OrderRows'
<1>1. v.events = events' /\ v.segments = segments' /\ v.store = store' /\ v.ctx = ctx'
  BY DEF OrderRows
<1>2. /\ events' \in Seq(Range(events')) /\ segments' \in Seq(Range(segments'))
      /\ store' \in Seq(Range(store')) /\ \A bar \in Range(store') : "ts" \in DOMAIN bar
      /\ \A seg \in Range(segments') : Segment(seg)'
  BY DEF Rows
<1> HIDE DEF v
<1>3. RowsOf(v)
  BY <1>1, <1>2 DEF RowsOf, Segment
<1> QED
  BY <1>3 DEF v

(***************************************************************************)
(* A projection after a result whose events follow those of the rows.      *)
(***************************************************************************)
LEMMA NextSeq ==
  ASSUME NEW s, Regenerates(s), projection # None, NEW r, Proper(r), NEW bars, Append_(r, bars),
         Books(OrderRows, OrderRows', r, bars)
  PROVE  projection' = [state |-> r.state, next_seq |-> Len(events') + 1]
<1> DEFINE w == OrderRows
           v == OrderRows'
           t == r.state
           fresh == NewEvents(events, r, bars)
<1>1. w.events = events /\ v.events = events' /\ RowsOf(w)
  BY DEF OrderRows, Regenerates, Kept
<1>2. projection' = [state |-> t, next_seq |-> projection.next_seq + Len(fresh)]
      /\ events' = events \o fresh
  BY DEF Append_
<1> HIDE DEF w, v
<1>3. InParts(w.events, NewEvents(w.events, r, bars), v.events)
  BY <1>1, Parts DEF w, v
<1>4. Len(events) \in Nat /\ Len(fresh) \in Nat /\ Len(events') = Len(events) + Len(fresh)
  BY <1>1, <1>3 DEF InParts
<1>5. projection.next_seq = Len(events) + 1
  BY DEF Regenerates
<1> HIDE DEF fresh
<1>6. projection.next_seq + Len(fresh) = Len(events') + 1
  BY <1>4, <1>5
<1> QED
  BY <1>2, <1>6

(***************************************************************************)
(* A result that is written outside of a segment.                          *)
(***************************************************************************)
LEMMA BookedRegenerates ==
  ASSUME Rows', NEW s, Regenerates(s), projection # None, NEW low, NEW r, Puts(s, r, low),
         NEW bars, Clean(OrderRows, s, r, bars), Append_(r, bars), UNCHANGED <<ctx, store, segments>>,
         Marks(s, r) \/ Rereads(OrderRows, s, r, bars)
  PROVE  RegenInv'
<1> DEFINE w == OrderRows
           v == OrderRows'
           t == r.state
<1>1. RowsOf(w) /\ Kept(w, s) /\ Reach(w, At(w, s)) /\ Proper(r)
  BY DEF Regenerates, Kept, Puts
<1>2. /\ w.events = events /\ w.segments = segments /\ w.store = store /\ w.ctx = ctx
      /\ v.events = events' /\ v.segments = segments' /\ v.store = store' /\ v.ctx = ctx'
  BY DEF OrderRows
<1>3. RowsOf(v)
  BY RowsFormNext
<1>4. Books(w, v, r, bars) /\ v.segments = w.segments
  BY <1>2, <1>3 DEF Append_, Books
<1>7. projection' = [state |-> t, next_seq |-> Len(events') + 1]
  BY <1>1, <1>4, NextSeq
<1>9. Clean(w, s, r, bars) /\ ProcessedIn(w, s)
  BY DEF Regenerates
<1> HIDE DEF w, v
<1>5. Kept(v, t)
  <2>1. (\E e \in Range(r.events) : e.type = "DATA_GAP") => bars = <<>>
    BY <1>9 DEF Clean, Apart
  <2> QED
    BY <1>1, <1>4, <2>1, KeptBooks
<1>6. Reach(v, At(v, t))
  <2>1. CASE Marks(s, r)
    <3>1. (\E e \in Range(r.events) : e.type = "DATA_GAP") => bars = <<>>
      BY <1>9 DEF Clean, Apart
    <3> QED
      BY <1>1, <1>4, <2>1, <3>1, MarksReach
  <2>2. CASE Rereads(OrderRows, s, r, bars)
    <3>1. PICK x : /\ r.events # <<>> /\ x = Prepared(r.events[1], bars)
                   /\ x \notin Range(w.events) /\ x.type \notin RecordTypes
                   /\ x.batch \in DOMAIN w.store \cup {None}
                   /\ bars = BarsFor(BarIn(w.store, x))
                   /\ CommandIn(w.ctx, x, s, BarIn(w.store, x)) = r
      BY <2>2 DEF Rereads, w
    <3>2. ErrorOn(w.ctx, w.events, r, bars) = None
      BY <1>1, <1>9, NoErrorOn DEF Clean
    <3> QED
      BY <1>1, <1>4, <3>1, <3>2, CommandReach
  <2> QED
    BY <2>1, <2>2
<1>10. ProcessedIn(v, t)
  <2>1. t.last_bar_ts = s.last_bar_ts
    BY <1>9 DEF Clean
  <2>2. v.segments = w.segments /\ v.store = w.store /\ v.ctx = w.ctx
    BY <1>4 DEF Books
  <2> HIDE DEF t
  <2> QED
    BY <1>9, <2>1, <2>2 DEF ProcessedIn
<1>8. Regenerates(t)'
  <2>1. Kept(OrderRows', t) /\ Reach(OrderRows', At(OrderRows', t)) /\ ProcessedIn(OrderRows', t)
    BY <1>5, <1>6, <1>10 DEF v
  <2> QED
    BY <1>7, <2>1 DEF Regenerates
<1> QED
  BY <1>8 DEF RegenInv

(***************************************************************************)
(* apply_command writes, and raises no integrity error.                    *)
(***************************************************************************)
LEMMA CommandRegenerates ==
  ASSUME Rows', NEW s, Regenerates(s), projection # None, NEW low, NEW r, Puts(s, r, low),
         NEW bars, Clean(OrderRows, s, r, bars), Command(r, bars),
         Marks(s, r) \/ Rereads(OrderRows, s, r, bars)
  PROVE  RegenInv' /\ incidents' = incidents
<1>1. IntegrityErrorOf(events, r, bars) = None
  <2> DEFINE w == OrderRows
  <2>1. w.ctx = ctx /\ w.events = events
    BY DEF OrderRows
  <2>2. Kept(w, s) /\ Clean(w, s, r, bars)
    BY DEF Regenerates
  <2> HIDE DEF w
  <2>3. ErrorOn(w.ctx, w.events, r, bars) = None
    BY <2>2, NoErrorOn DEF Clean
  <2> QED
    BY <2>1, <2>3, OnRows
<1>2. Append_(r, bars) /\ UNCHANGED <<ctx, store, segments, incidents>>
  BY <1>1 DEF Command
<1> QED
  BY <1>2, BookedRegenerates

(***************************************************************************)
(* The calls outside of a cycle leave the latest bar as it is.             *)
(***************************************************************************)
LEMMA KeepsBar ==
  ASSUME NEW s, Stateful(s), NEW c
  PROVE  /\ \A at : Cancel(s, at).state.last_bar_ts = s.last_bar_ts
         /\ \A reason, ref : /\ Freeze(s, reason, ref).state.last_bar_ts = s.last_bar_ts
                            /\ FlagReview(s, reason, ref).state.last_bar_ts = s.last_bar_ts
         /\ \A exDate, amount, validated :
              ApplyDividend(s, c, exDate, amount, validated).state.last_bar_ts = s.last_bar_ts
         /\ \A bar : ApplyValidityEnd(s, c, bar).state.last_bar_ts = s.last_bar_ts
         /\ \A r : Marks(s, r) => r.state.last_bar_ts = s.last_bar_ts
<1>1. Unchanged(s).state.last_bar_ts = s.last_bar_ts
  BY DEF Unchanged, StepResult
<1>2. ASSUME NEW reason, NEW ref, NEW t, "last_bar_ts" \in DOMAIN t
      PROVE  FlagReview(t, reason, ref).state.last_bar_ts = t.last_bar_ts
  BY <1>2 DEF FlagReview, StepResult
<1>3. "last_bar_ts" \in DOMAIN s
  BY DEF Stateful, StateFields
<1>4. ASSUME NEW at PROVE Cancel(s, at).state.last_bar_ts = s.last_bar_ts
  BY <1>1, <1>3 DEF Cancel, StepResult
<1>5. ASSUME NEW reason, NEW ref PROVE Freeze(s, reason, ref).state.last_bar_ts = s.last_bar_ts
  <2> DEFINE t == [s EXCEPT !.frozen_reasons = @ \cup {reason}]
             q == FlagReview(t, reason, ref)
  <2>1. "last_bar_ts" \in DOMAIN t /\ t.last_bar_ts = s.last_bar_ts
    BY <1>3
  <2>2. Freeze(s, reason, ref) = IF IsFinal(s) \/ reason \in s.frozen_reasons THEN Unchanged(s)
          ELSE After(<<[Event("FROZEN", None) EXCEPT !.reason = reason, !.level = ref]>>, q)
    BY DEF Freeze
  <2> HIDE DEF t
  <2>3. q.state.last_bar_ts = s.last_bar_ts
    BY <1>2, <2>1
  <2> HIDE DEF q
  <2>4. \A evs : After(evs, q).state = q.state
    BY DEF After
  <2> QED
    BY <1>1, <2>2, <2>3, <2>4
<1>6. ASSUME NEW exDate, NEW amount, NEW validated
      PROVE  ApplyDividend(s, c, exDate, amount, validated).state.last_bar_ts = s.last_bar_ts
  <2> DEFINE f == FlagReview(s, "DIVIDEND_UNVERIFIED", exDate)
  <2>1. f.state.last_bar_ts = s.last_bar_ts
    BY <1>2, <1>3
  <2> HIDE DEF f
  <2> QED
    BY <1>1, <1>3, <2>1 DEF ApplyDividend, StepResult, f
<1>7. ASSUME NEW bar PROVE ApplyValidityEnd(s, c, bar).state.last_bar_ts = s.last_bar_ts
  <2>1. ASSUME NEW t, "last_bar_ts" \in DOMAIN t, NEW b
        PROVE  LET end == ValidityEnd(t, b, c)
               IN  end.state.last_bar_ts = t.last_bar_ts /\ "last_bar_ts" \in DOMAIN end.state
    BY <2>1 DEF ValidityEnd, Close, StepResult
  <2>2. ASSUME NEW t, "last_bar_ts" \in DOMAIN t
        PROVE  MirrorState(t).last_bar_ts = t.last_bar_ts /\ "last_bar_ts" \in DOMAIN MirrorState(t)
    BY <2>2 DEF MirrorState
  <2> DEFINE own == ValidityEnd(s, bar, c)
             x == MirrorState(s)
             q == ValidityEnd(x, MirrorBar(bar), c)
             short == MirrorResult(q)
             ended == IF c.signal.direction = "LONG" THEN own ELSE short
             f == FlagReview(ended.state, "STALE_EXIT_BAR", c.until)
  <2>3. own.state.last_bar_ts = s.last_bar_ts /\ "last_bar_ts" \in DOMAIN own.state
    BY <1>3, <2>1
  <2>4. x.last_bar_ts = s.last_bar_ts /\ "last_bar_ts" \in DOMAIN x
    BY <1>3, <2>2
  <2>5. q.state.last_bar_ts = s.last_bar_ts /\ "last_bar_ts" \in DOMAIN q.state
    <3> HIDE DEF x
    <3> QED
      BY <2>1, <2>4
  <2>6. short.state = MirrorState(q.state)
    BY DEF MirrorResult, StepResult
  <2>7. short.state.last_bar_ts = s.last_bar_ts /\ "last_bar_ts" \in DOMAIN short.state
    <3> HIDE DEF q, short
    <3> QED
      BY <2>2, <2>5, <2>6
  <2>8. ended.state.last_bar_ts = s.last_bar_ts /\ "last_bar_ts" \in DOMAIN ended.state
    BY <2>3, <2>7
  <2>9. ApplyValidityEnd(s, c, bar)
        = IF IsFinal(s) \/ Frozen(s) THEN Unchanged(s)
          ELSE IF s.status = "PENDING" THEN own
          ELSE IF bar = None THEN FlagReview(s, "NO_EXIT_BAR", c.until)
          ELSE IF IsLastBar(bar, c) THEN ended ELSE After(ended.events, f)
    BY DEF ApplyValidityEnd
  <2>10. f.state.last_bar_ts = s.last_bar_ts
    <3> HIDE DEF ended
    <3> QED
      BY <1>2, <2>8
  <2>11. FlagReview(s, "NO_EXIT_BAR", c.until).state.last_bar_ts = s.last_bar_ts
    BY <1>2, <1>3
  <2> HIDE DEF own, ended, f
  <2>12. \A evs : After(evs, f).state = f.state
    BY DEF After
  <2> QED
    BY <1>1, <2>3, <2>8, <2>9, <2>10, <2>11, <2>12
<1>8. ASSUME NEW r, Marks(s, r) PROVE r.state.last_bar_ts = s.last_bar_ts
  BY <1>3, <1>8 DEF Marks
<1>9. ASSUME NEW reason, NEW ref PROVE FlagReview(s, reason, ref).state.last_bar_ts = s.last_bar_ts
  BY <1>2, <1>3
<1> QED
  BY <1>4, <1>5, <1>6, <1>7, <1>8, <1>9

(***************************************************************************)
(* A call of no bar is new, if its dividend or its record is.              *)
(***************************************************************************)
LEMMA CleanCall ==
  ASSUME NEW w, NEW s, NEW r, r.state.last_bar_ts = s.last_bar_ts,
         Writes(r, QualityTypes \cup {"CANCELED", "FROZEN", "DIVIDEND", "EXPIRED"}),
         NEW bars, Has(r, "DATA_GAP") => bars = <<>>,
         Has(r, "DIVIDEND") => \A f \in Range(w.events) : f.type # "DIVIDEND",
         \A e \in Range(r.events) : e.type = "DATA_QUALITY" =>
           \A f \in Range(w.events) : f.type = "DATA_QUALITY" => f.level # e.level
  PROVE  Clean(w, s, r, bars)
<1>1. Apart(w.events, r, bars)
  BY DEF Apart, Has
<1>2. \A e \in Range(r.events) : e.type \notin MarketEventTypes
  BY DEF Writes, QualityTypes, MarketEventTypes
<1> QED
  BY <1>1, <1>2 DEF Clean

\* The result r in the state s can be regenerated from the rows w.
Regenerable(w, s, r, bars) == Marks(s, r) \/ Rereads(w, s, r, bars)

(***************************************************************************)
(* No change is no mark.                                                   *)
(***************************************************************************)
LEMMA NothingMarks ==
  ASSUME NEW s, Stateful(s)
  PROVE  Marks(s, Unchanged(s))
<1>1. Unchanged(s).state = s /\ Unchanged(s).events = <<>> /\ Range(Unchanged(s).events) = {}
  BY DEF Unchanged, StepResult, Range
<1>2. ReasonsOf(<<>>) = {}
  BY <1>1 DEF ReasonsOf, Range
<1>3. s.review_reasons \cup {} = s.review_reasons
  OBVIOUS
<1>4. [s EXCEPT !.review_reasons = s.review_reasons] = s
  BY DEF Stateful, StateFields
<1>5. [s EXCEPT !.review_reasons = @ \cup {}] = s
  BY <1>3, <1>4
<1> QED
  BY <1>1, <1>2, <1>5 DEF Marks

(***************************************************************************)
(* The first event of a call, where it is not a bar's.                     *)
(***************************************************************************)
LEMMA FirstRereads ==
  ASSUME NEW w, NEW s, Kept(w, s), NEW low, NEW r, Puts(s, r, low), NEW e, r.events # <<>>,
         e = r.events[1], e.ts = None,
         \/ e.type \in OnceTypes \cup ZoneTypes \cup {"FROZEN"}
         \/ e.type = "DIVIDEND" /\ \A f \in Range(w.events) : f.type # "DIVIDEND",
         NEW x, x = Prepared(e, <<>>), CommandIn(w.ctx, x, s, None) = r
  PROVE  Rereads(w, s, r, <<>>)
<1>1. Proper(r) /\ e \in Range(r.events) /\ Entry(e)
  BY DEF Puts, Proper, Log, Range
<1>2. x.type = e.type /\ x.batch = None
  BY <1>1, PreparedIs
<1>3. x \notin Range(w.events)
  <2>1. CASE e.type \in OnceTypes \cup ZoneTypes \cup {"FROZEN"}
    BY <1>1, <2>1, NewIsFresh
  <2>2. CASE e.type = "DIVIDEND" /\ \A f \in Range(w.events) : f.type # "DIVIDEND"
    BY <1>2, <2>2
  <2> QED
    BY <2>1, <2>2
<1>4. x.type \notin RecordTypes
  BY <1>2 DEF RecordTypes, OnceTypes, EndTypes, ZoneTypes
<1>5. BarIn(w.store, x) = None /\ BarsFor(None) = <<>>
  BY <1>2 DEF BarIn, BarsFor
<1> QED
  BY <1>2, <1>3, <1>4, <1>5 DEF Rereads

(***************************************************************************)
(* A cancel.                                                               *)
(***************************************************************************)
LEMMA CancelRereads ==
  ASSUME NEW w, NEW s, Kept(w, s), NEW at
  PROVE  Regenerable(w, s, Cancel(s, at), <<>>)
<1> DEFINE r == Cancel(s, at)
           e == [Event("CANCELED", None) EXCEPT !.level = at]
           x == Prepared(e, <<>>)
<1>1. CASE IsFinal(s)
  <2>1. r = Unchanged(s)
    BY <1>1 DEF Cancel
  <2> QED
    BY <2>1, NothingMarks DEF Kept, Regenerable
<1>2. CASE ~IsFinal(s)
  <2>1. r.events = <<e>>
    BY <1>2 DEF Cancel, StepResult
  <2>2. Entry(e) /\ e.type = "CANCELED" /\ e.ts = None /\ e.level = at
    BY DEF Entry, Event
  <2> DEFINE low == None
  <2>3. Puts(s, r, low)
    BY CancelPuts DEF Kept
  <2> HIDE DEF e, low
  <2>4. r.events # <<>> /\ e = r.events[1]
    BY <2>1
  <2>5. x.type = "CANCELED" /\ x.level = at
    BY <2>2, PreparedIs
  <2> HIDE DEF x
  <2>6. CommandIn(w.ctx, x, s, None) = r
    BY <2>5 DEF CommandIn
  <2> HIDE DEF r
  <2>7. e.type \in OnceTypes
    BY <2>2 DEF OnceTypes, EndTypes
  <2>8. Rereads(w, s, r, <<>>)
    BY <2>2, <2>3, <2>4, <2>6, <2>7, FirstRereads DEF x
  <2> QED
    BY <2>8 DEF Regenerable, r
<1> QED
  BY <1>1, <1>2

(***************************************************************************)
(* A freeze.                                                               *)
(***************************************************************************)
LEMMA FreezeRereads ==
  ASSUME NEW w, NEW s, Kept(w, s), NEW reason, NEW ref
  PROVE  Regenerable(w, s, Freeze(s, reason, ref), <<>>)
<1> DEFINE r == Freeze(s, reason, ref)
           e == [Event("FROZEN", None) EXCEPT !.reason = reason, !.level = ref]
           x == Prepared(e, <<>>)
<1>1. CASE IsFinal(s) \/ reason \in s.frozen_reasons
  <2>1. r = Unchanged(s)
    BY <1>1 DEF Freeze
  <2> QED
    BY <2>1, NothingMarks DEF Kept, Regenerable
<1>2. CASE ~(IsFinal(s) \/ reason \in s.frozen_reasons)
  <2> DEFINE f == [Event("NEEDS_REVIEW", None) EXCEPT !.reason = reason, !.level = ref]
  <2>1. r.events = <<e>> \o <<f>>
    BY <1>2 DEF Freeze, After, FlagReview, StepResult
  <2>2. Entry(e) /\ e.type = "FROZEN" /\ e.ts = None /\ e.level = ref /\ e.reason = reason
    BY DEF Entry, Event
  <2> DEFINE low == None
  <2>3. Puts(s, r, low)
    BY FreezePuts DEF Kept
  <2> HIDE DEF e, f, low
  <2>4. r.events # <<>> /\ e = r.events[1]
    BY <2>1
  <2>5. x.type = "FROZEN" /\ x.level = ref /\ x.reason = reason
    BY <2>2, PreparedIs
  <2> HIDE DEF x
  <2>6. CommandIn(w.ctx, x, s, None) = r
    BY <2>5 DEF CommandIn
  <2> HIDE DEF r
  <2>8. Rereads(w, s, r, <<>>)
    BY <2>2, <2>3, <2>4, <2>6, FirstRereads DEF x
  <2> QED
    BY <2>8 DEF Regenerable, r
<1> QED
  BY <1>1, <1>2

(***************************************************************************)
(* The order's one dividend.                                               *)
(***************************************************************************)
LEMMA DividendRereads ==
  ASSUME NEW w, NEW s, Kept(w, s), \A f \in Range(w.events) : f.type # "DIVIDEND",
         NEW amount, NEW validated
  PROVE  Regenerable(w, s, ApplyDividend(s, w.ctx, ExSession, amount, validated), <<>>)
<1> DEFINE r == ApplyDividend(s, w.ctx, ExSession, amount, validated)
           cash == (IF w.ctx.signal.direction = "LONG" THEN amount ELSE -amount) * s.qty_open
           e == [Event("DIVIDEND", None) EXCEPT !.level = amount, !.qty = s.qty_open, !.pnl = cash]
           x == Prepared(e, <<>>)
           none == IsFinal(s) \/ Frozen(s) \/ s.qty_open <= 0
<1>0. Stateful(s) /\ s.last_bar_ts \in Int \cup {None}
  BY DEF Kept
<1>1. CASE none
  <2>1. r = Unchanged(s)
    BY <1>1 DEF ApplyDividend
  <2> QED
    BY <1>0, <2>1, NothingMarks DEF Regenerable
<1>2. CASE ~none /\ ~validated
  <2>1. r = FlagReview(s, "DIVIDEND_UNVERIFIED", ExSession)
    BY <1>2 DEF ApplyDividend
  <2>2. Marks(s, FlagReview(s, "DIVIDEND_UNVERIFIED", ExSession))
    BY <1>0, FlagPuts
  <2> QED
    BY <2>1, <2>2 DEF Regenerable
<1>3. CASE ~none /\ ~(~validated)
  <2>1. r = StepResult([s EXCEPT !.dividends = @ + cash], <<e>>)
    BY <1>3 DEF ApplyDividend
  <2>7. r = ApplyDividend(s, w.ctx, ExSession, amount, TRUE)
    BY <1>3, <2>1 DEF ApplyDividend
  <2>2. Entry(e) /\ e.type = "DIVIDEND" /\ e.ts = None /\ e.level = amount
    BY DEF Entry, Event
  <2> DEFINE low == None
  <2>3. Puts(s, r, low)
    BY <1>0, DividendPuts
  <2>4. r.events = <<e>>
    BY <2>1 DEF StepResult
  <2> HIDE DEF e, low, r
  <2>5. r.events # <<>> /\ e = r.events[1]
    BY <2>4
  <2>6. x.type = "DIVIDEND" /\ x.level = amount
    BY <2>2, PreparedIs
  <2> HIDE DEF x
  <2>8. CommandIn(w.ctx, x, s, None) = r
    BY <2>6, <2>7 DEF CommandIn
  <2>9. Rereads(w, s, r, <<>>)
    BY <2>2, <2>3, <2>5, <2>8, FirstRereads DEF x
  <2> QED
    BY <2>9 DEF Regenerable, r
<1> QED
  BY <1>1, <1>2, <1>3

(***************************************************************************)
(* The end of the validity: of a pending order, or of a position at the    *)
(* processed bar.                                                          *)
(***************************************************************************)
LEMMA EndRereads ==
  ASSUME NEW w, NEW s, Kept(w, s), NEW bar, NEW bars,
         \/ bar = None /\ bars = <<>>
         \/ /\ bars = <<bar>> /\ s.status # "PENDING" /\ bar.ts \in Int
            /\ \E k \in DOMAIN w.store : bar = w.store[k]
  PROVE  Regenerable(w, s, ApplyValidityEnd(s, w.ctx, bar), bars)
<1> DEFINE r == ApplyValidityEnd(s, w.ctx, bar)
           low == None
<1>0. Stateful(s) /\ s.last_bar_ts \in Int \cup {None} /\ RowsOf(w)
  BY DEF Kept
<1>1. bar = None \/ "ts" \in DOMAIN bar
  <2>1. ASSUME NEW k \in DOMAIN w.store PROVE "ts" \in DOMAIN w.store[k]
    <3>1. w.store[k] \in Range(w.store)
      BY <1>0 DEF RowsOf, Range
    <3> QED
      BY <1>0, <3>1 DEF RowsOf
  <2> QED
    BY <2>1
<1>2. EndStarts(s, w.ctx, bar, r)
  BY <1>1, EndForm
<1>3. Puts(s, r, low)
  BY <1>0, EndPuts
<1> HIDE DEF low
<1>4. CASE r = Unchanged(s)
  BY <1>0, <1>4, NothingMarks DEF Regenerable
<1>5. CASE r = FlagReview(s, "NO_EXIT_BAR", w.ctx.until)
  <2>1. Marks(s, FlagReview(s, "NO_EXIT_BAR", w.ctx.until))
    BY <1>0, FlagPuts
  <2> QED
    BY <1>5, <2>1 DEF Regenerable
<1>6. CASE s.status = "PENDING" /\ r.events = <<Event("EXPIRED", None)>>
  <2> DEFINE e == Event("EXPIRED", None)
             x == Prepared(e, <<>>)
  <2>1. Entry(e) /\ e.type = "EXPIRED" /\ e.ts = None
    BY DEF Entry, Event
  <2>2. bar = None /\ bars = <<>> /\ r.events = <<e>>
    BY <1>6
  <2> HIDE DEF e
  <2>3. r.events # <<>> /\ e = r.events[1]
    BY <2>2
  <2>4. x.type = "EXPIRED"
    BY <2>1, PreparedIs
  <2> HIDE DEF x
  <2>5. CommandIn(w.ctx, x, s, None) = r
    BY <2>2, <2>4 DEF CommandIn
  <2>6. e.type \in OnceTypes
    BY <2>1 DEF OnceTypes, EndTypes
  <2> HIDE DEF r
  <2>7. Rereads(w, s, r, <<>>)
    BY <1>3, <2>1, <2>3, <2>5, <2>6, FirstRereads DEF x
  <2> QED
    BY <2>2, <2>7 DEF Regenerable, r
<1>7. CASE bar # None /\ r.events # <<>> /\ r.events[1].type = "TIME_EXIT" /\ r.events[1].ts = bar.ts
  <2> DEFINE e == r.events[1]
             x == Prepared(e, bars)
  <2>1. PICK k \in DOMAIN w.store : bar = w.store[k]
    BY <1>7
  <2>2. bars = <<bar>> /\ bar.batch = k
    BY <1>7, <2>1 DEF Kept
  <2> HIDE DEF r
  <2>3. Proper(r) /\ e \in Range(r.events) /\ Entry(e)
    BY <1>3, <1>7 DEF Puts, Proper, Log, Range
  <2>4. e.type = "TIME_EXIT" /\ e.ts = bar.ts
    BY <1>7
  <2> HIDE DEF e
  <2>5. x.type = "TIME_EXIT"
    BY <2>3, <2>4, PreparedIs
  <2>6. bar.ts # None /\ k # None /\ s.status # "PENDING"
    <3>1. k \in Nat
      BY <1>0 DEF RowsOf
    <3> QED
      BY <1>7, <3>1, NoneAssumption
  <2>7. x.batch = k
    <3>1. x.batch = IF e.ts # None /\ \E i \in DOMAIN bars : bars[i].ts = e.ts
                    THEN (CHOOSE b \in Range(bars) : b.ts = e.ts).batch ELSE None
      BY DEF Prepared
    <3>2. Range(bars) = {bar}
      BY <2>2 DEF Range
    <3>3. (CHOOSE b \in Range(bars) : b.ts = e.ts) = bar
      BY <2>4, <3>2
    <3>4. 1 \in DOMAIN bars /\ bars[1] = bar
      BY <2>2
    <3> QED
      BY <2>2, <2>4, <2>6, <3>1, <3>3, <3>4
  <2>8. x \notin Range(w.events)
    <3>1. e.type \in OnceTypes
      BY <2>4 DEF OnceTypes, EndTypes
    <3> QED
      BY <1>3, <2>3, <3>1, NewIsFresh
  <2> HIDE DEF x
  <2>9. BarIn(w.store, x) = bar /\ BarsFor(bar) = bars
    BY <1>7, <2>1, <2>2, <2>6, <2>7 DEF BarIn, BarsFor
  <2>10. CommandIn(w.ctx, x, s, bar) = r
    BY <1>7, <2>5 DEF CommandIn, r
  <2>11. Rereads(w, s, r, bars)
    BY <1>7, <2>1, <2>5, <2>7, <2>8, <2>9, <2>10 DEF Rereads, RecordTypes, x, e
  <2> QED
    BY <2>11 DEF Regenerable, r
<1> QED
  BY <1>2, <1>4, <1>5, <1>6, <1>7 DEF EndStarts

(***************************************************************************)
(* The end of the validity of an order is new, and not before its start.   *)
(***************************************************************************)
LEMMA EndClean ==
  ASSUME NEW w, w.ctx.start \in Int, NEW s, Kept(w, s), ProcessedIn(w, s), NEW bar, NEW bars,
         bar = None \/ ("ts" \in DOMAIN bar /\ bar.ts \in Int /\ bar.ts = s.last_bar_ts)
  PROVE  Clean(w, s, ApplyValidityEnd(s, w.ctx, bar), bars)
<1> DEFINE r == ApplyValidityEnd(s, w.ctx, bar)
<1>1. Stateful(s) /\ Fielded(s)
  BY DEF Kept, Stateful, StateFields, Fielded
<1>2. EndStarts(s, w.ctx, bar, r)
  BY EndForm
<1>3. Writes(r, {"EXPIRED", "TIME_EXIT", "NEEDS_REVIEW"})
  BY <1>1, EndCalm
<1>4. r.state.last_bar_ts = s.last_bar_ts
  BY <1>1, KeepsBar
<1>5. bar # None => bar.ts # None /\ ~(bar.ts < w.ctx.start)
  <2>1. ASSUME bar # None PROVE bar.ts # None /\ ~(bar.ts < w.ctx.start)
    <3>1. bar.ts \in Int /\ bar.ts # None /\ bar.ts = s.last_bar_ts
      BY <2>1, NoneAssumption
    <3>2. w.ctx.start <= bar.ts
      BY <3>1 DEF ProcessedIn
    <3> QED
      BY <3>1, <3>2
  <2> QED
    BY <2>1
<1> DEFINE flag == FlagReview(s, "NO_EXIT_BAR", w.ctx.until)
<1>6. Writes(flag, {"NEEDS_REVIEW"})
  BY <1>1, FlagCalm
<1>7. Range(Unchanged(s).events) = {} /\ Range(<<Event("EXPIRED", None)>>) = {Event("EXPIRED", None)}
  BY DEF Unchanged, StepResult, Range
<1>8. Event("EXPIRED", None).type = "EXPIRED"
  BY DEF Event
<1> HIDE DEF r, flag
<1>9. ASSUME NEW e \in Range(r.events), e.type \in MarketEventTypes
      PROVE  e.ts # None /\ ~(e.ts < w.ctx.start)
  <2>1. e.type = "TIME_EXIT"
    BY <1>3, <1>9 DEF Writes, MarketEventTypes
  <2>2. CASE r = Unchanged(s)
    BY <1>7, <2>2
  <2>3. CASE r = flag
    BY <1>6, <2>1, <2>3 DEF Writes
  <2>4. CASE r.events = <<Event("EXPIRED", None)>>
    BY <1>7, <1>8, <2>1, <2>4
  <2>5. CASE bar # None /\ \A f \in Range(r.events) : f.type \in MarketEventTypes => f.ts = bar.ts
    BY <1>5, <1>9, <2>5
  <2> QED
    BY <1>2, <2>2, <2>3, <2>4, <2>5 DEF EndStarts, flag
<1>10. Apart(w.events, r, bars)
  BY <1>3 DEF Writes, Apart
<1> QED
  BY <1>4, <1>9, <1>10 DEF Clean, r

(***************************************************************************)
(* One minute in order, and none.                                          *)
(***************************************************************************)
LEMMA AscendingFew ==
  ASSUME NEW m \in Int
  PROVE  Ascending({}) = <<>> /\ Ascending({m}) = <<m>>
<1>1. ASSUME NEW S \in SUBSET {m}
      PROVE  Ordering!IsFiniteSet(S) /\ Ordering!Picks(S, S)
             /\ Ascending(S) = Ordering!Fold(S, <<>>, S)
  <2>1. S \in SUBSET (m..m)
    OBVIOUS
  <2> HIDE DEF Ordering!Picks
  <2>2. IsFiniteSet(S)
    BY <2>1, FS_Interval, FS_Subset
  <2>3. Ordering!IsFiniteSet(S)
    BY <2>2 DEF IsFiniteSet, Ordering!IsFiniteSet
  <2>4. \A s \in SUBSET S : s # {} => Max(s) \in s
    BY <2>1, Extremes
  <2>5. Ordering!Picks(S, S)
    BY <2>4 DEF Ordering!Picks, Greatest
  <2>6. Ascending(S) = Ordering!Fold(S, <<>>, S)
    BY DEF Ascending, Ordering!Fold, MapThenFoldSet, Ordering!MapThenFoldSet, Later, Itself, Greatest
  <2> QED
    BY <2>3, <2>5, <2>6
<1> DEFINE none == {}
           one == {m}
<1>2. none \in SUBSET {m} /\ one \in SUBSET {m}
  OBVIOUS
<1>3. Ordering!Fold(none, <<>>, none) = <<>>
  <2>1. Ordering!IsFiniteSet(none) /\ Ordering!Picks(none, none)
    BY <1>1, <1>2
  <2> QED
    BY <2>1, Ordering!FoldStep
<1>4. Ordering!Fold(one, <<>>, none) = <<>>
  <2>1. Ordering!IsFiniteSet(none) /\ Ordering!Picks(one, none)
    <3>1. \A s \in SUBSET none : s = {}
      OBVIOUS
    <3> QED
      BY <1>1, <1>2, <3>1 DEF Ordering!Picks
  <2> QED
    BY <2>1, Ordering!FoldStep
<1>5. Greatest(one, one) = m
  <2>1. Greatest(one, one) \in one
    BY <1>1, <1>2 DEF Ordering!Picks
  <2> QED
    BY <2>1
<1>6. one \ {m} = none /\ one # {}
  OBVIOUS
<1>7. Ordering!Fold(one, <<>>, one) = <<m>>
  <2>1. Ordering!IsFiniteSet(one) /\ Ordering!Picks(one, one)
    BY <1>1, <1>2
  <2> HIDE DEF one, none
  <2>2. Ordering!Fold(one, <<>>, one) =
          Later(one, Itself(one, Greatest(one, one)), Ordering!Fold(one, <<>>, one \ {Greatest(one, one)}))
    BY <1>6, <2>1, Ordering!FoldStep
  <2>3. Ordering!Fold(one, <<>>, one) = Later(one, m, <<>>)
    BY <1>4, <1>5, <1>6, <2>2 DEF Itself
  <2> QED
    BY <2>3 DEF Later
<1> QED
  BY <1>1, <1>2, <1>3, <1>7

(***************************************************************************)
(* A processed bar is a version in the store.                              *)
(***************************************************************************)
LEMMA ProcessedIs ==
  ASSUME Rows, NEW ts \in Int, ProcessedBar(ts) # <<>>
  PROVE  \E k \in DOMAIN store : ProcessedBar(ts) = <<store[k]>> /\ store[k].ts = ts
<1> DEFINE covering == {i \in DOMAIN segments : segments[i].from <= ts /\ ts <= segments[i].to}
           i == CHOOSE i \in covering : TRUE
           asOf == segments[i].asOf
           S == Stored(asOf, {ts})
           V == VersionsAsOf(asOf, ts)
<1>1. covering # {} /\ ProcessedBar(ts) = BarsAsOf(asOf, {ts})
  BY DEF ProcessedBar
<1>2. i \in DOMAIN segments
  BY <1>1
<1>3. asOf \in 0..Len(store) /\ Len(store) \in Nat /\ DOMAIN store = 1..Len(store)
  <2> HIDE DEF i
  <2>1. segments[i] \in Range(segments) /\ store \in Seq(Range(store))
    BY <1>2 DEF Rows, Range
  <2> QED
    BY <2>1 DEF Rows, Segment
<1> HIDE DEF covering, i, asOf
<1>4. S = {} \/ S = {ts}
  BY DEF Stored
<1>5. S # {}
  <2>1. ASSUME S = {} PROVE BarsAsOf(asOf, {ts}) = <<>>
    <3>1. Ascending(S) = <<>>
      BY <2>1, AscendingFew
    <3> QED
      BY <3>1 DEF BarsAsOf
  <2> QED
    BY <1>1, <2>1
<1>6. Ascending(S) = <<ts>> /\ V # {}
  BY <1>4, <1>5, AscendingFew DEF Stored
<1>7. V \in SUBSET (1..asOf) /\ 1 \in Int /\ asOf \in Int
  BY <1>3 DEF VersionsAsOf
<1>8. Max(V) \in V
  <2> HIDE DEF V
  <2> QED
    BY <1>6, <1>7, Extremes
<1> DEFINE k == Max(V)
<1>9. k \in 1..asOf /\ store[k].ts = ts
  BY <1>8 DEF VersionsAsOf
<1>10. BarsAsOf(asOf, {ts}) = <<store[k]>>
  <2> DEFINE stored == Ascending(S)
  <2>1. BarsAsOf(asOf, {ts}) = [j \in DOMAIN stored |-> store[Max(VersionsAsOf(asOf, stored[j]))]]
    BY DEF BarsAsOf
  <2>2. stored = <<ts>>
    BY <1>6
  <2> HIDE DEF stored
  <2>3. DOMAIN stored = {1} /\ stored[1] = ts
    BY <2>2
  <2>4. BarsAsOf(asOf, {ts}) = [j \in {1} |-> store[k]]
    BY <2>1, <2>3
  <2> HIDE DEF k
  <2>5. [j \in {1} |-> store[k]] = <<store[k]>>
    OBVIOUS
  <2> QED
    BY <2>4, <2>5
<1> HIDE DEF k
<1>11. k \in DOMAIN store
  BY <1>3, <1>9
<1> QED
  BY <1>1, <1>9, <1>10, <1>11

(***************************************************************************)
(* The segments do not overlap.                                            *)
(***************************************************************************)
LEMMA SegmentsApart ==
  ASSUME LedgerInv, NEW i \in DOMAIN segments, NEW j \in DOMAIN segments, i < j
  PROVE  segments[i].to < segments[j].from
<1> DEFINE last == segments[j - 1].to
<1>1. /\ Len(segments) \in Nat /\ DOMAIN segments = 1..Len(segments)
      /\ \A n \in DOMAIN segments : segments[n].to \in Nat
  BY DEF LedgerInv, Rows, Segment, Range
<1>2. j - 1 \in DOMAIN segments /\ i \in 1..(j - 1) /\ j \in Nat /\ j # 1 /\ i \in Nat
  BY <1>1
<1>3. segments[i].to <= last /\ IsExpectedMinute(last) /\ last < Until
  BY <1>2 DEF LedgerInv, Rows, Tiled, SegmentsTile
<1>4. segments[j].from = NextExpectedMinute(last)
  BY <1>2 DEF LedgerInv, Tiled, SegmentsTile
<1>5. last \in Int /\ segments[i].to \in Int
  BY <1>1, <1>2
<1> HIDE DEF last
<1>6. PICK k \in DOMAIN Sessions : Until < Sessions[k].open
  BY WindowAssumption
<1>7. last < Sessions[k].open
  <2>1. 0 \in Int /\ Until \in Nat
    BY WindowAssumption
  <2>2. Sessions[k] \in Window
    BY <1>6, <2>1, Counted
  <2>3. Sessions[k].open \in Nat
    BY <2>2 DEF Window
  <2> QED
    BY <1>3, <1>5, <1>6, <2>1, <2>3
<1>8. NextExpectedMinute(last) \in Nat /\ last < NextExpectedMinute(last)
  BY <1>3, <1>5, <1>7, NextIsExpected
<1> QED
  BY <1>3, <1>4, <1>5, <1>8

(***************************************************************************)
(* The bar that an order has processed last is found again.                *)
(***************************************************************************)
LEMMA ProcessedFound ==
  ASSUME LedgerInv, NEW s, s.last_bar_ts \in Int, ProcessedIn(OrderRows, s)
  PROVE  ProcessedBar(s.last_bar_ts) # <<>>
<1> DEFINE ts == s.last_bar_ts
           covering == {i \in DOMAIN segments : segments[i].from <= ts /\ ts <= segments[i].to}
<1>1. ts \in Int /\ ts # None
  BY NoneAssumption
<1>2. PICK i \in DOMAIN segments :
        /\ segments[i].from <= ts /\ ts <= segments[i].to
        /\ \E k \in 1..segments[i].asOf : store[k].ts = ts
  BY <1>1 DEF ProcessedIn, OrderRows
<1>3. ASSUME NEW j \in covering PROVE j = i
  <2>1. /\ Len(segments) \in Nat /\ DOMAIN segments = 1..Len(segments)
        /\ \A n \in DOMAIN segments : segments[n].to \in Nat /\ segments[n].from \in Nat
    BY DEF LedgerInv, Rows, Segment, Range
  <2>2. j \in DOMAIN segments /\ segments[j].from <= ts /\ ts <= segments[j].to
    BY <1>3
  <2>3. i \in Int /\ j \in Int
    BY <2>1, <2>2
  <2>4. ~(i < j)
    <3>1. i < j => segments[i].to < segments[j].from
      BY <2>2, SegmentsApart
    <3> QED
      BY <1>1, <1>2, <2>1, <2>2, <3>1
  <2>5. ~(j < i)
    <3>1. j < i => segments[j].to < segments[i].from
      BY <2>2, SegmentsApart
    <3> QED
      BY <1>1, <1>2, <2>1, <2>2, <3>1
  <2> QED
    BY <2>3, <2>4, <2>5
<1>4. covering = {i}
  BY <1>2, <1>3
<1>5. ProcessedBar(ts) = BarsAsOf(segments[i].asOf, {ts})
  BY <1>4 DEF ProcessedBar
<1> DEFINE asOf == segments[i].asOf
           S == Stored(asOf, {ts})
<1>6. S = {ts}
  BY <1>2 DEF Stored, VersionsAsOf
<1> HIDE DEF covering, asOf
<1>7. Ascending(S) = <<ts>>
  BY <1>1, <1>6, AscendingFew
<1>8. BarsAsOf(asOf, {ts}) # <<>>
  <2> DEFINE stored == Ascending(S)
             bars == [m \in DOMAIN stored |-> store[Max(VersionsAsOf(asOf, stored[m]))]]
  <2>1. DOMAIN stored = {1}
    BY <1>7
  <2> HIDE DEF stored
  <2>2. DOMAIN bars = {1}
    BY <2>1
  <2> HIDE DEF bars
  <2>3. bars # <<>>
    BY <2>2
  <2> QED
    BY <2>3 DEF BarsAsOf, bars, stored
<1> QED
  BY <1>5, <1>8 DEF asOf

(***************************************************************************)
(* What a projection says of the order whose rows these are.               *)
(***************************************************************************)
LEMMA StateIs ==
  ASSUME RegenInv, projection # None
  PROVE  \E s : /\ Regenerates(s) /\ projection.state = s /\ Kept(OrderRows, s)
                /\ Stateful(s) /\ s.last_bar_ts \in Int \cup {None} /\ Fielded(s)
<1>1. PICK s : Regenerates(s)
  BY DEF RegenInv
<1>2. Kept(OrderRows, s) /\ projection.state = s
  BY <1>1 DEF Regenerates
<1>3. Stateful(s) /\ s.last_bar_ts \in Int \cup {None} /\ Fielded(s)
  BY <1>2 DEF Kept, Stateful, StateFields, Fielded
<1> QED
  BY <1>1, <1>2, <1>3

(***************************************************************************)
(* A review is new in any ledger.                                          *)
(***************************************************************************)
LEMMA FlagClean ==
  ASSUME NEW w, NEW s, Stateful(s), Fielded(s), NEW reason, NEW ref
  PROVE  Clean(w, s, FlagReview(s, reason, ref), <<>>)
<1> DEFINE r == FlagReview(s, reason, ref)
<1>1. Writes(r, {"NEEDS_REVIEW"})
  BY FlagCalm
<1>2. r.state.last_bar_ts = s.last_bar_ts
  BY KeepsBar
<1> HIDE DEF r
<1>3. Clean(w, s, r, <<>>)
  BY <1>1, <1>2, CleanCall DEF Writes, QualityTypes, Has
<1> QED
  BY <1>3 DEF r

(***************************************************************************)
(* So is a freeze.                                                         *)
(***************************************************************************)
LEMMA FreezeClean ==
  ASSUME NEW w, NEW s, Stateful(s), Fielded(s), NEW reason, NEW ref
  PROVE  Clean(w, s, Freeze(s, reason, ref), <<>>)
<1> DEFINE r == Freeze(s, reason, ref)
<1>1. Writes(r, {"FROZEN", "NEEDS_REVIEW"})
  BY FreezeCalm
<1>2. r.state.last_bar_ts = s.last_bar_ts
  BY KeepsBar
<1> HIDE DEF r
<1>3. Clean(w, s, r, <<>>)
  BY <1>1, <1>2, CleanCall DEF Writes, QualityTypes, Has
<1> QED
  BY <1>3 DEF r

(***************************************************************************)
(* The operator's commands.                                                *)
(***************************************************************************)
LEMMA OperatorRegenerates ==
  ASSUME LedgerInv', RegenInv, Operator
  PROVE  RegenInv' /\ incidents' = incidents
<1>0. Rows' /\ projection # None
  BY DEF LedgerInv, Operator, CancelOrder, FreezeOrder, FlagOrderReview
<1>1. PICK s : /\ Regenerates(s) /\ projection.state = s /\ Kept(OrderRows, s)
               /\ Stateful(s) /\ s.last_bar_ts \in Int \cup {None} /\ Fielded(s)
  BY <1>0, StateIs
<1> DEFINE low == None
<1>2. CASE CancelOrder
  <2> DEFINE r == Cancel(s, now)
  <2>1. Command(r, <<>>)
    BY <1>1, <1>2 DEF CancelOrder
  <2>2. Puts(s, r, low)
    BY <1>1, CancelPuts
  <2>3. Marks(s, r) \/ Rereads(OrderRows, s, r, <<>>)
    BY <1>1, CancelRereads DEF Regenerable
  <2>4. Clean(OrderRows, s, r, <<>>)
    <3>1. Writes(r, {"CANCELED"}) /\ r.state.last_bar_ts = s.last_bar_ts
      BY <1>1, CancelCalm, KeepsBar
    <3> QED
      BY <3>1, CleanCall DEF Writes, QualityTypes, Has
  <2> HIDE DEF r, low
  <2> QED
    BY <1>0, <1>1, <2>1, <2>2, <2>3, <2>4, CommandRegenerates
<1>3. CASE FreezeOrder
  <2> DEFINE r == Freeze(s, "SPLIT", None)
  <2>1. Command(r, <<>>)
    BY <1>1, <1>3 DEF FreezeOrder
  <2>2. Puts(s, r, low)
    BY <1>1, FreezePuts
  <2>3. Marks(s, r) \/ Rereads(OrderRows, s, r, <<>>)
    BY <1>1, FreezeRereads DEF Regenerable
  <2>4. Clean(OrderRows, s, r, <<>>)
    BY <1>1, FreezeClean
  <2> HIDE DEF r, low
  <2> QED
    BY <1>0, <1>1, <2>1, <2>2, <2>3, <2>4, CommandRegenerates
<1>4. CASE FlagOrderReview
  <2> DEFINE r == FlagReview(s, "RECHECK", None)
  <2>1. Command(r, <<>>)
    BY <1>1, <1>4 DEF FlagOrderReview
  <2>2. Puts(s, r, low) /\ Marks(s, r)
    BY <1>1, FlagPuts
  <2>3. Clean(OrderRows, s, r, <<>>)
    BY <1>1, FlagClean
  <2> HIDE DEF r, low
  <2> QED
    BY <1>0, <1>1, <2>1, <2>2, <2>3, CommandRegenerates
<1> QED
  BY <1>2, <1>3, <1>4 DEF Operator

(***************************************************************************)
(* The end of the validity.                                                *)
(***************************************************************************)
LEMMA FinalizeRegenerates ==
  ASSUME LedgerInv, LedgerInv', RegenInv, FinalizeValidity
  PROVE  RegenInv' /\ incidents' = incidents
<1>0. Rows' /\ Rows /\ projection # None
  BY DEF LedgerInv, FinalizeValidity
<1>1. PICK s : /\ Regenerates(s) /\ projection.state = s /\ Kept(OrderRows, s)
               /\ Stateful(s) /\ s.last_bar_ts \in Int \cup {None} /\ Fielded(s)
  BY <1>0, StateIs
<1> DEFINE low == None
           held == s.status \in {"OPEN", "PARTIAL"} /\ s.last_bar_ts # None
           bars == ProcessedBar(s.last_bar_ts)
<1>2. IF held /\ bars = <<>> THEN Raise("PROCESSED_BAR_MISSING")
      ELSE IF held THEN Command(ApplyValidityEnd(s, ctx, Head(bars)), bars)
      ELSE Command(ApplyValidityEnd(s, ctx, None), <<>>)
  BY <1>1 DEF FinalizeValidity
<1>3. OrderRows.ctx = ctx /\ OrderRows.store = store
  BY DEF OrderRows
<1>4. ProcessedIn(OrderRows, s) /\ OrderRows.ctx.start \in Int
  BY <1>0, <1>1, <1>3, WindowAssumption DEF Regenerates, Rows
<1>5. ASSUME NEW bar, NEW r, r = ApplyValidityEnd(s, ctx, bar) PROVE Puts(s, r, low)
  BY <1>1, <1>5, EndPuts
<1>6. CASE held
  <2>1. s.last_bar_ts \in Int
    BY <1>1, <1>6
  <2>2. bars # <<>>
    BY <1>4, <2>1, ProcessedFound
  <2>3. PICK k \in DOMAIN store : bars = <<store[k]>> /\ store[k].ts = s.last_bar_ts
    BY <1>0, <2>1, <2>2, ProcessedIs
  <2> DEFINE bar == store[k]
             r == ApplyValidityEnd(s, ctx, bar)
  <2>4. Head(bars) = bar
    BY <2>3
  <2>5. Command(r, bars)
    BY <1>2, <1>6, <2>2, <2>4
  <2>6. /\ bars = <<bar>> /\ s.status # "PENDING" /\ bar.ts \in Int /\ bar.ts = s.last_bar_ts
        /\ \E j \in DOMAIN store : bar = store[j]
    BY <1>6, <2>1, <2>3
  <2>7. "ts" \in DOMAIN bar
    <3>1. store[k] \in Range(store)
      BY DEF Range
    <3> QED
      BY <1>0, <3>1 DEF Rows
  <2> HIDE DEF bars, bar
  <2>8. Marks(s, r) \/ Rereads(OrderRows, s, r, bars)
    BY <1>1, <1>3, <2>6, EndRereads DEF Regenerable
  <2>9. Clean(OrderRows, s, r, bars)
    BY <1>1, <1>3, <1>4, <2>6, <2>7, EndClean
  <2>10. Puts(s, r, low)
    BY <1>5
  <2> HIDE DEF r, low
  <2> QED
    BY <1>0, <1>1, <2>5, <2>8, <2>9, <2>10, CommandRegenerates
<1>7. CASE ~held
  <2> DEFINE r == ApplyValidityEnd(s, ctx, None)
  <2>1. Command(r, <<>>)
    BY <1>2, <1>7
  <2>2. Marks(s, r) \/ Rereads(OrderRows, s, r, <<>>)
    BY <1>1, <1>3, EndRereads DEF Regenerable
  <2>3. Puts(s, r, low)
    BY <1>5
  <2>4. Clean(OrderRows, s, r, <<>>)
    BY <1>1, <1>3, <1>4, EndClean
  <2> HIDE DEF r, low
  <2> QED
    BY <1>0, <1>1, <2>1, <2>2, <2>3, <2>4, CommandRegenerates
<1> QED
  BY <1>6, <1>7

(***************************************************************************)
(* The opening's commands.                                                 *)
(***************************************************************************)
LEMMA OpeningRegenerates ==
  ASSUME LedgerInv', RegenInv, Opening
  PROVE  RegenInv' /\ incidents' = incidents
<1> DEFINE low == None
<1>1. ASSUME NEW agree, CheckDividend(agree) PROVE RegenInv' /\ incidents' = incidents
  <2>1. UNCHANGED <<ctx, store, events, projection, segments, incidents>>
    BY <1>1 DEF CheckDividend
  <2> QED
    BY <2>1, RowsStand
<1>2. ASSUME projection # None, NEW reason, NEW ref, Command(FlagReview(projection.state, reason, ref), <<>>)
      PROVE  RegenInv' /\ incidents' = incidents
  <2>1. PICK s : /\ Regenerates(s) /\ projection.state = s /\ Kept(OrderRows, s)
                 /\ Stateful(s) /\ s.last_bar_ts \in Int \cup {None} /\ Fielded(s)
    BY <1>2, StateIs
  <2> DEFINE r == FlagReview(s, reason, ref)
  <2>2. Command(r, <<>>)
    BY <1>2, <2>1
  <2>3. Puts(s, r, low) /\ Marks(s, r)
    BY <2>1, FlagPuts
  <2>4. Rows'
    BY DEF LedgerInv
  <2>5. Clean(OrderRows, s, r, <<>>)
    BY <2>1, FlagClean
  <2> HIDE DEF r, low
  <2> QED
    BY <1>2, <2>1, <2>2, <2>3, <2>4, <2>5, CommandRegenerates
<1>3. CASE Dividend
  <2>1. DividendPending /\ projection # None
    BY <1>3 DEF Dividend, DividendPending
  <2>2. CASE ~Confirmed
    <3>1. Command(FlagReview(projection.state, "DIVIDEND_POSITION_UNCONFIRMED", ExSession), <<>>)
      BY <1>3, <2>2 DEF Dividend
    <3> QED
      BY <1>2, <2>1, <3>1
  <2>3. CASE Confirmed
    <3>1. PICK s : /\ Regenerates(s) /\ projection.state = s /\ Kept(OrderRows, s)
                   /\ Stateful(s) /\ s.last_bar_ts \in Int \cup {None} /\ Fielded(s)
      BY <2>1, StateIs
    <3> DEFINE r == ApplyDividend(s, ctx, ExSession, Amount, dividend)
    <3>2. Command(r, <<>>)
      BY <1>3, <2>3, <3>1 DEF Dividend
    <3>3. Puts(s, r, low)
      BY <3>1, DividendPuts
    <3>4. OrderRows.ctx = ctx /\ OrderRows.events = events
      BY DEF OrderRows
    <3>5. Marks(s, r) \/ Rereads(OrderRows, s, r, <<>>)
      <4>1. \A f \in Range(OrderRows.events) : f.type # "DIVIDEND"
        BY <2>1, <3>4 DEF DividendPending
      <4>2. Regenerable(OrderRows, s, ApplyDividend(s, OrderRows.ctx, ExSession, Amount, dividend), <<>>)
        BY <3>1, <4>1, DividendRereads
      <4> QED
        BY <3>4, <4>2 DEF Regenerable
    <3>6. Rows'
      BY DEF LedgerInv
    <3>7. Clean(OrderRows, s, r, <<>>)
      <4>1. Writes(r, {"DIVIDEND", "NEEDS_REVIEW"}) /\ r.state.last_bar_ts = s.last_bar_ts
        BY <3>1, DividendCalm, KeepsBar
      <4>2. \A f \in Range(OrderRows.events) : f.type # "DIVIDEND"
        BY <2>1, <3>4 DEF DividendPending
      <4> HIDE DEF r
      <4> QED
        BY <4>1, <4>2, CleanCall DEF Writes, QualityTypes, Has
    <3> HIDE DEF r, low
    <3> QED
      BY <2>1, <3>1, <3>2, <3>3, <3>5, <3>6, <3>7, CommandRegenerates
  <2> QED
    BY <2>2, <2>3
<1>4. CASE DividendUnverifiable
  BY <1>2, <1>4 DEF DividendUnverifiable, DividendPending
<1> QED
  BY <1>1, <1>3, <1>4 DEF Opening

(***************************************************************************)
(* A session's data quality.                                               *)
(***************************************************************************)
LEMMA QualityRegenerates ==
  ASSUME Rows, Rows', RegenInv, NEW i \in 1..ValidSessions, Quality(i)
  PROVE  RegenInv' /\ incidents' = incidents
<1>1. projection # None /\ \A e \in Range(events) : e.type = "DATA_QUALITY" => e.level # i
  BY DEF Quality
<1>2. PICK s : /\ Regenerates(s) /\ projection.state = s /\ Kept(OrderRows, s)
               /\ Stateful(s) /\ s.last_bar_ts \in Int \cup {None} /\ Fielded(s)
  BY <1>1, StateIs
<1>3. PICK a, b \in Int : \E missing \in SUBSET (a..b) : \E doubtful \in SUBSET missing :
        Command(QualityResult(s, i, missing, doubtful), <<>>)
  BY <1>1, <1>2, QualityCommands
<1>4. PICK missing \in SUBSET (a..b) : \E doubtful \in SUBSET missing :
        Command(QualityResult(s, i, missing, doubtful), <<>>)
  BY <1>3
<1>5. PICK doubtful \in SUBSET missing : Command(QualityResult(s, i, missing, doubtful), <<>>)
  BY <1>4
<1> DEFINE low == None
           r == QualityResult(s, i, missing, doubtful)
<1>6. QualityWrites(s, r, low, i)
  BY <1>2, QualityPuts
<1>7. Command(r, <<>>)
  BY <1>5
<1> HIDE DEF low, r
<1>8. Puts(s, r, low) /\ Marks(s, r)
  BY <1>6 DEF QualityWrites
<1>9. Clean(OrderRows, s, r, <<>>)
  <2>1. r.state.last_bar_ts = s.last_bar_ts /\ Writes(r, QualityTypes)
    BY <1>2, <1>8, KeepsBar DEF Marks, Writes
  <2>2. \A e \in Range(r.events) : e.type = "DATA_QUALITY" => e.level = i
    BY <1>6 DEF QualityWrites
  <2>3. OrderRows.events = events
    BY DEF OrderRows
  <2> QED
    BY <1>1, <2>1, <2>2, <2>3, CleanCall DEF Writes, QualityTypes, Has
<1> QED
  BY <1>1, <1>2, <1>7, <1>8, <1>9, CommandRegenerates

(***************************************************************************)
(* The freeze of a quarantine.                                             *)
(***************************************************************************)
LEMMA QuarantineRegenerates ==
  ASSUME Rows, Rows', RegenInv, Quarantine
  PROVE  RegenInv' /\ incidents' = incidents
<1>1. CASE projection = None \/ QuarantineLost
  <2>1. UNCHANGED <<ctx, store, events, projection, segments, incidents>>
    BY <1>1 DEF Quarantine, QuarantineFreeze, QuarantineLost
  <2> QED
    BY <2>1, RowsStand
<1>2. CASE projection # None /\ QuarantineFreeze
  <2>1. PICK s : /\ Regenerates(s) /\ projection.state = s /\ Kept(OrderRows, s)
                 /\ Stateful(s) /\ s.last_bar_ts \in Int \cup {None} /\ Fielded(s)
    BY <1>2, StateIs
  <2> DEFINE low == None
             r == Freeze(s, "INTEGRITY", None)
  <2>2. Append_(r, <<>>) /\ UNCHANGED <<ctx, store, segments, incidents>>
    BY <1>2, <2>1 DEF QuarantineFreeze
  <2>3. Puts(s, r, low)
    BY <2>1, FreezePuts
  <2>4. Marks(s, r) \/ Rereads(OrderRows, s, r, <<>>)
    BY <2>1, FreezeRereads DEF Regenerable
  <2>5. Clean(OrderRows, s, r, <<>>)
    BY <2>1, FreezeClean
  <2> HIDE DEF r, low
  <2> QED
    BY <1>2, <2>1, <2>2, <2>3, <2>4, <2>5, BookedRegenerates
<1> QED
  BY <1>1, <1>2 DEF Quarantine

\* What is not the ledger's own doing.
Foreign == {"PROJECTION_MISSING", "CALENDAR_MISMATCH"}

(***************************************************************************)
(* A projection that is dropped, and one that is regenerated, without an   *)
(* integrity error.                                                        *)
(***************************************************************************)
LEMMA IntegrityRegenerates ==
  ASSUME RegenInv, Integrity
  PROVE  RegenInv' /\ incidents' \subseteq incidents \cup Foreign
<1>1. ASSUME UNCHANGED <<ctx, store, events, projection, segments>> PROVE RegenInv'
  BY <1>1, RowsStand
<1>2. CASE ProjectionMissing \/ CalendarMismatch
  BY <1>1, <1>2 DEF ProjectionMissing, CalendarMismatch, Raise, Foreign
<1>3. CASE DropProjection
  BY <1>3, RowsStand DEF DropProjection
<1>4. CASE Rebuild
  <2> DEFINE h == RegeneratedHistory
  <2>1. RebuildFrom(h)
    BY <1>4 DEF Rebuild
  <2>2. PICK s : Regenerates(s)
    BY DEF RegenInv
  <2>3. h.diverged = FALSE /\ h.projection = [state |-> s, next_seq |-> Len(events) + 1]
    BY <2>2, RoadRegenerates DEF Regenerates
  <2> HIDE DEF h
  <2>4. projection' = h.projection /\ UNCHANGED <<ctx, store, events, segments, incidents>>
    <3>1. ~(h.diverged \/ (projection # None /\ projection # h.projection))
      BY <2>2, <2>3 DEF Regenerates
    <3> QED
      BY <2>1, <3>1 DEF RebuildFrom
  <2>5. OrderRows' = OrderRows
    BY <2>4 DEF OrderRows
  <2>6. Regenerates(s)'
    BY <2>2, <2>3, <2>4, <2>5 DEF Regenerates
  <2> QED
    BY <2>4, <2>6 DEF RegenInv
<1> QED
  BY <1>2, <1>3, <1>4 DEF Integrity

(***************************************************************************)
(* A batch of one bar.                                                     *)
(***************************************************************************)
LEMMA IngestRegenerates ==
  ASSUME Rows, Rows', RegenInv, NEW candle, NEW ts, Ingest(candle, ts)
  PROVE  RegenInv' /\ incidents' = incidents
<1>1. PICK s : Regenerates(s)
  BY DEF RegenInv
<1> DEFINE w == OrderRows
           v == OrderRows'
           bar == [ts |-> ts, open |-> candle.open, high |-> candle.high, low |-> candle.low,
                   close |-> candle.close, batch |-> Len(store) + 1]
<1>2. store' = Append(store, bar) /\ UNCHANGED <<ctx, events, projection, segments, incidents>>
  BY DEF Ingest
<1>3. bar.batch = Len(store) + 1
  OBVIOUS
<1> HIDE DEF bar
<1>4. v.events = w.events /\ v.segments = w.segments /\ v.ctx = w.ctx
      /\ v.store = Append(w.store, bar) /\ w.store = store
  BY <1>2 DEF OrderRows
<1>5. RowsOf(v)
  BY RowsFormNext
<1>6. Kept(w, s) /\ Reach(w, At(w, s))
  BY <1>1 DEF Regenerates
<1> HIDE DEF w, v
<1>7. Kept(v, s) /\ Reach(v, At(v, s))
  BY <1>3, <1>4, <1>5, <1>6, StoreReach
<1>9. ProcessedIn(v, s)
  <2> DEFINE ts_ == s.last_bar_ts
  <2>1. ProcessedIn(w, s)
    BY <1>1 DEF Regenerates, w
  <2>2. ASSUME ts_ # None
        PROVE  /\ v.ctx.start <= ts_
               /\ \E i \in DOMAIN v.segments :
                    /\ v.segments[i].from <= ts_ /\ ts_ <= v.segments[i].to
                    /\ \E k \in 1..v.segments[i].asOf : v.store[k].ts = ts_
    <3>1. w.ctx.start <= ts_
      BY <2>1, <2>2 DEF ProcessedIn
    <3>2. PICK i \in DOMAIN w.segments :
            /\ w.segments[i].from <= ts_ /\ ts_ <= w.segments[i].to
            /\ \E k \in 1..w.segments[i].asOf : w.store[k].ts = ts_
      BY <2>1, <2>2 DEF ProcessedIn
    <3>3. PICK k \in 1..w.segments[i].asOf : w.store[k].ts = ts_
      BY <3>2
    <3>4. w.segments[i].asOf \in 0..Len(w.store) /\ w.store \in Seq(Range(w.store))
      BY <1>6 DEF Kept, RowsOf, Range
    <3>5. k \in 1..Len(w.store)
      BY <3>4
    <3> DEFINE seq == w.store
               n == Len(seq)
               longer == Append(seq, bar)
    <3>6. longer[k] = seq[k]
      <4>1. seq \in Seq(Range(seq)) /\ k \in 1..Len(seq)
        BY <3>4, <3>5
      <4> HIDE DEF seq
      <4> QED
        BY <4>1
    <3> HIDE DEF longer
    <3>7. v.store[k].ts = ts_
      BY <1>4, <3>3, <3>6 DEF longer
    <3> HIDE DEF ts_
    <3> QED
      BY <1>4, <3>1, <3>2, <3>7
  <2> QED
    BY <2>2 DEF ProcessedIn
<1>8. Regenerates(s)'
  <2>1. Kept(OrderRows', s) /\ Reach(OrderRows', At(OrderRows', s)) /\ ProcessedIn(OrderRows', s)
    BY <1>7, <1>9 DEF v
  <2>2. projection' # None => projection' = [state |-> s, next_seq |-> Len(events') + 1]
    BY <1>1, <1>2 DEF Regenerates
  <2> QED
    BY <2>1, <2>2 DEF Regenerates
<1> QED
  BY <1>2, <1>8 DEF RegenInv

(***************************************************************************)
(* The latest bar after an evaluation is one of its window, or the one     *)
(* before.                                                                 *)
(***************************************************************************)
LEMMA EvaluationProcesses ==
  ASSUME NEW w, RowsOf(w), NEW s, ProcessedIn(w, s), NEW used, NEW r, Went(s, used, w.ctx, r),
         NEW seg, seg.from \in Int, seg.to \in Int,
         \A bar \in Range(used) : /\ bar.ts \in Int /\ seg.from <= bar.ts /\ bar.ts <= seg.to
                                 /\ \E k \in 1..seg.asOf : bar = w.store[k],
         NEW v, v.ctx = w.ctx, v.store = w.store, v.segments = Append(w.segments, seg)
  PROVE  ProcessedIn(v, r.state)
<1> DEFINE seq == w.segments
           n == Len(seq)
           ts == r.state.last_bar_ts
<1>1. seq \in Seq(Range(seq))
  BY DEF RowsOf
<1>2. v.segments = Append(seq, seg)
  OBVIOUS
<1> HIDE DEF seq
<1>3. /\ n \in Nat /\ DOMAIN v.segments = 1..(n + 1) /\ DOMAIN seq = 1..n
      /\ v.segments[n + 1] = seg /\ \A i \in 1..n : v.segments[i] = seq[i]
  BY <1>1, <1>2
<1> HIDE DEF n
<1>4. SUFFICES ASSUME ts # None
               PROVE  /\ w.ctx.start <= ts
                      /\ \E i \in DOMAIN v.segments :
                           /\ v.segments[i].from <= ts /\ ts <= v.segments[i].to
                           /\ \E k \in 1..v.segments[i].asOf : w.store[k].ts = ts
  BY DEF ProcessedIn
<1>5. CASE ts = s.last_bar_ts
  <2>1. PICK i \in DOMAIN seq :
          /\ w.ctx.start <= ts
          /\ seq[i].from <= ts /\ ts <= seq[i].to /\ \E k \in 1..seq[i].asOf : w.store[k].ts = ts
    BY <1>4, <1>5 DEF ProcessedIn, seq
  <2>2. i \in DOMAIN v.segments /\ v.segments[i] = seq[i]
    BY <1>3
  <2> HIDE DEF ts
  <2> QED
    BY <2>1, <2>2
<1>6. CASE \E bar \in Range(used) : ts = bar.ts /\ w.ctx.start <= bar.ts
  <2>1. PICK bar \in Range(used) : ts = bar.ts /\ w.ctx.start <= bar.ts
    BY <1>6
  <2>2. PICK k \in 1..seg.asOf : bar = w.store[k]
    OBVIOUS
  <2>3. n + 1 \in DOMAIN v.segments
    BY <1>3
  <2> HIDE DEF ts
  <2> QED
    BY <1>3, <2>1, <2>2, <2>3
<1> QED
  BY <1>5, <1>6 DEF Went

(***************************************************************************)
(* evaluate_order.                                                         *)
(***************************************************************************)
LEMMA EvaluateRegenerates ==
  ASSUME LedgerInv, LedgerInv', RegenInv, Evaluate
  PROVE  RegenInv' /\ incidents' = incidents
<1>1. PICK window, used, r : Evaluated(window, used, r) /\ Windowed(window, used)
  BY EvaluatesWindow
<1> DEFINE seg == SegmentOf(window, used, r)
           error == IntegrityErrorOf(events, r, used)
           w == OrderRows
           v == OrderRows'
           low == LowOf(ctx)
<1>2. run # None /\ projection # None /\ Rows /\ Rows'
  BY <1>1 DEF Evaluated, LedgerInv
<1>3. PICK s : /\ Regenerates(s) /\ projection.state = s /\ Kept(OrderRows, s)
               /\ Stateful(s) /\ s.last_bar_ts \in Int \cup {None} /\ Fielded(s)
  BY <1>2, StateIs
<1>4. r = RunBars(s, used, ctx) /\ used = BarsAsOf(run.asOf, window)
  BY <1>1, <1>3 DEF Evaluated
<1>5. /\ ResumeFrom \in Int /\ ctx.until - 1 \in Int /\ window \in SUBSET (ResumeFrom..(ctx.until - 1))
      /\ window # {}
  BY <1>1, Resumes DEF Windowed
<1>6. used \in Seq(Range(used)) /\ \A bar \in Range(used) : "ts" \in DOMAIN bar /\ bar.ts \in Int
  <2>1. window \in SUBSET Int
    BY <1>5
  <2> QED
    BY <1>1, <2>1 DEF Windowed
<1>7. ctx.start \in Int
  BY <1>2, WindowAssumption DEF Rows
<1>8. Went(s, used, ctx, r)
  <2>1. Went(s, used, ctx, RunBars(s, used, ctx))
    BY <1>3, <1>6, <1>7, RunBarsWent
  <2> QED
    BY <1>4, <2>1
<1>9. Puts(s, r, low) /\ \A e \in Range(r.events) : e.type \in BarTypes
  BY <1>8, WentPuts DEF Went, Written
<1>10. \A e \in Range(r.events) : e.type \notin {"DATA_GAP", "DIVIDEND", "DATA_QUALITY"}
  BY <1>9 DEF BarTypes, MarketEventTypes
<1>11. error = None
  <2>1. Apart(w.events, r, used)
    BY <1>10 DEF Apart
  <2>2. ASSUME NEW e \in Range(r.events), e.type \in MarketEventTypes
        PROVE  e.ts # None /\ ~(e.ts < ctx.start)
    <3>1. e.type # "EXPIRED"
      BY <2>2 DEF MarketEventTypes
    <3>2. e.ts \in Int /\ ctx.start <= e.ts
      BY <1>8, <3>1 DEF Went, Written
    <3> QED
      BY <1>7, <3>2, NoneAssumption
  <2> HIDE DEF low
  <2>3. ErrorOn(ctx, w.events, r, used) = None
    BY <1>3, <1>9, <2>1, <2>2, NoErrorOn
  <2>4. w.events = events
    BY DEF OrderRows
  <2> QED
    BY <2>3, <2>4, OnRows
<1>12. Append_(r, used) /\ segments' = Append(segments, seg) /\ UNCHANGED <<ctx, store, incidents>>
  BY <1>1, <1>11 DEF Evaluated
<1>13. /\ w.events = events /\ w.segments = segments /\ w.store = store /\ w.ctx = ctx
       /\ v.events = events' /\ v.segments = segments' /\ v.store = store' /\ v.ctx = ctx'
  BY DEF OrderRows
<1>14. RowsOf(w) /\ RowsOf(v) /\ Kept(w, s) /\ Reach(w, At(w, s)) /\ ProcessedIn(w, s)
  BY <1>2, <1>3, RowsFormNext DEF Regenerates, Kept
<1>15. seg.first_seq = Len(events) + 1 /\ seg.count = Len(NewEvents(events, r, used))
       /\ seg.asOf = run.asOf /\ seg.from = Min(window) /\ seg.to = Max(window)
       /\ seg.data = SelectedData(window, used)
  BY <1>2, <1>3 DEF SegmentOf, Regenerates
<1>16. Evaluates(w, s, seg, used, r)
  <2>1. SegmentMinutes(seg) = window
    BY <1>1, <1>15 DEF SegmentMinutes, Windowed
  <2>2. used = SegmentBars(w, seg)
    BY <1>4, <1>13, <1>15, <2>1, OnRows DEF SegmentBars
  <2>3. ErrorOn(w.ctx, w.events, r, used) = None
    BY <1>11, <1>13, OnRows
  <2> HIDE DEF seg, w
  <2> QED
    BY <1>4, <1>13, <1>15, <2>1, <2>2, <2>3 DEF Evaluates
<1>17. Books(w, v, r, used) /\ v.segments = Append(w.segments, seg)
  BY <1>12, <1>13, <1>14 DEF Append_, Books
<1>18. Proper(r)
  BY <1>9 DEF Puts
<1>19. projection' = [state |-> r.state, next_seq |-> Len(events') + 1]
  BY <1>2, <1>3, <1>12, <1>17, <1>18, NextSeq
<1>20. seg.from \in Int /\ seg.to \in Int
       /\ \A bar \in Range(used) : /\ bar.ts \in Int /\ seg.from <= bar.ts /\ bar.ts <= seg.to
                                   /\ \E k \in 1..seg.asOf : bar = w.store[k]
  <2>1. Min(window) \in window /\ Max(window) \in window
        /\ \A m \in window : Min(window) <= m /\ m <= Max(window)
    <3> DEFINE a == ResumeFrom
               b == ctx.until - 1
    <3>1. a \in Int /\ b \in Int /\ window \in SUBSET (a..b) /\ window # {}
      BY <1>5
    <3> HIDE DEF a, b
    <3> QED
      BY <3>1, Extremes
  <2>2. \A bar \in Range(used) : \E k \in 1..run.asOf : bar = store[k]
    <3> DEFINE a == ResumeFrom
               b == ctx.until - 1
               asOf == run.asOf
    <3>1. /\ asOf \in 0..Len(store) /\ store \in Seq(Range(store))
          /\ \A bar \in Range(store) : "ts" \in DOMAIN bar
      BY <1>2 DEF Rows
    <3>2. \A i \in 1..asOf : store[i] \in Range(store)
      BY <3>1 DEF Range
    <3>3. /\ a \in Int /\ b \in Int /\ window \in SUBSET (a..b) /\ asOf \in Nat
          /\ \A i \in 1..asOf : "ts" \in DOMAIN store[i]
      BY <1>5, <3>1, <3>2
    <3> HIDE DEF a, b, asOf
    <3>4. \A bar \in Range(BarsAsOf(asOf, window)) : \E k \in 1..asOf : bar = store[k]
      BY <3>3, BarsType
    <3> QED
      BY <1>4, <3>4 DEF asOf
  <2>3. \A bar \in Range(used) : bar.ts \in window
    BY <1>1 DEF Windowed
  <2>4. window \in SUBSET Int
    BY <1>5
  <2> HIDE DEF seg, w
  <2> QED
    BY <1>6, <1>13, <1>15, <2>1, <2>2, <2>3, <2>4
<1> HIDE DEF seg, low
<1>21. ProcessedIn(v, r.state)
  <2>1. Went(s, used, w.ctx, r) /\ v.ctx = w.ctx /\ v.store = w.store
    BY <1>8, <1>12, <1>13
  <2> HIDE DEF w, v
  <2> QED
    BY <1>14, <1>17, <1>20, <2>1, EvaluationProcesses
<1> HIDE DEF w, v
<1>22. Kept(v, r.state)
  BY <1>9, <1>10, <1>14, <1>17, KeptBooks
<1>23. Reach(v, At(v, r.state))
  BY <1>14, <1>16, <1>17, <1>18, SegmentReach
<1> DEFINE t == r.state
<1>24. Regenerates(t)'
  <2>1. Kept(OrderRows', t) /\ Reach(OrderRows', At(OrderRows', t)) /\ ProcessedIn(OrderRows', t)
    BY <1>21, <1>22, <1>23 DEF v
  <2> QED
    BY <1>19, <2>1 DEF Regenerates
<1> QED
  BY <1>12, <1>24 DEF RegenInv

(***************************************************************************)
(* The row of a created order regenerates it.                              *)
(***************************************************************************)
LEMMA InitRegenerates ==
  ASSUME Init
  PROVE  RegenInv
<1> DEFINE created == NewOrderState(ctx, None)
           e == Event("ORDER_CREATED", None)
           x == Prepared(e, <<>>)
           s == created.state
           w == OrderRows
<1>1. /\ store = <<>> /\ segments = <<>> /\ Rows
      /\ events = [i \in DOMAIN created.events |-> Prepared(created.events[i], <<>>)]
      /\ projection = [state |-> s, next_seq |-> 2]
  BY InitLedger DEF Init, LedgerInv
<1>2. created.events = <<e>> /\ Entry(e) /\ e.type = "ORDER_CREATED"
  BY DEF NewOrderState, StepResult, Entry, Event
<1>3. Stateful(s) /\ s.last_bar_ts = None
  BY DEF NewOrderState, StepResult, Stateful, StateFields
<1> HIDE DEF created, e
<1>4. events = <<x>>
  BY <1>1, <1>2
<1>5. x.type = "ORDER_CREATED"
  BY <1>2, PreparedIs
<1>6. x = Prepared(Event("ORDER_CREATED", None), <<>>)
  BY DEF e
<1> HIDE DEF x
<1>7. Len(events) = 1 /\ events # <<>> /\ events[1] = x /\ Range(events) = {x}
  BY <1>4 DEF Range
<1>8. KeptEvent(s, x)
  BY <1>5 DEF KeptEvent, OnceTypes, EndTypes, ZoneTypes
<1>9. RowsOf(w) /\ w.events = events /\ w.segments = segments /\ w.store = store /\ w.ctx = ctx
  BY <1>1, RowsForm, OnRows
<1>10. DOMAIN store = {} /\ Len(segments) = 0
  BY <1>1
<1> HIDE DEF w
<1>11. Kept(w, s)
  BY <1>3, <1>6, <1>7, <1>8, <1>9, <1>10 DEF Kept
<1>12. At(w, s) = First(w)
  <2> DEFINE n == Len(w.events) + 1
             i == Len(w.segments) + 1
  <2>1. n = 2 /\ i = 1
    <3>1. Len(w.events) = 1 /\ Len(w.segments) = 0
      BY <1>7, <1>9, <1>10, Zenon
    <3> QED
      BY <3>1
  <2>3. At(w, s) = [state |-> s, seq |-> n, index |-> i, diverged |-> FALSE]
    BY DEF At
  <2> HIDE DEF n, i
  <2>4. At(w, s) = [state |-> s, seq |-> 2, index |-> 1, diverged |-> FALSE]
    BY <2>1, <2>3
  <2> QED
    BY <1>9, <2>4 DEF First, created
<1>13. Reach(w, At(w, s))
  <2> DEFINE t == [i \in {1} |-> At(w, s)]
  <2>1. t[1] = At(w, s)
    OBVIOUS
  <2> HIDE DEF t
  <2>2. IsPlace(At(w, s)) /\ At(w, s).seq + At(w, s).index = 3
    <3>1. IsPlace(At(w, s))
      BY <1>9, AtIsPlace
    <3>2. At(w, s).seq = 2 /\ At(w, s).index = 1
      BY <1>12 DEF First
    <3> QED
      BY <3>1, <3>2
  <2>3. 1..(1 - 1) = {} /\ 1..1 = {1} /\ 1 \in Nat \ {0}
    OBVIOUS
  <2>4. Road(w, 1, t)
    BY <1>12, <2>1, <2>2, <2>3 DEF Road
  <2> QED
    BY <2>1, <2>3, <2>4 DEF Reach
<1>14. Regenerates(s)
  <2>1. projection = [state |-> s, next_seq |-> Len(events) + 1]
    <3> DEFINE n == Len(events) + 1
    <3>1. n = 2
      BY <1>7
    <3> HIDE DEF n
    <3>2. projection = [state |-> s, next_seq |-> n]
      BY <1>1, <3>1
    <3> QED
      BY <3>2 DEF n
  <2>2. ProcessedIn(w, s)
    BY <1>3 DEF ProcessedIn
  <2> QED
    BY <1>11, <1>13, <2>1, <2>2 DEF Regenerates, w
<1> QED
  BY <1>14 DEF RegenInv

(***************************************************************************)
(* Every step, which raises no integrity error of the ledger's own.        *)
(***************************************************************************)
LEMMA StepRegenerates ==
  ASSUME LedgerInv, LedgerInv', RegenInv, [Next]_vars
  PROVE  RegenInv' /\ incidents' \subseteq incidents \cup Foreign
<1> DEFINE Alone == UNCHANGED <<ctx, store, events, projection, segments, incidents>>
<1>1. Alone => RegenInv' /\ incidents' = incidents
  BY RowsStand
<1>2. Rows /\ Rows'
  BY DEF LedgerInv
<1>3. CASE UNCHANGED vars
  BY <1>1, <1>3 DEF vars
<1>4. ASSUME Evaluation PROVE RegenInv' /\ incidents' = incidents
  <2>1. CASE Tick \/ EndRun \/ \E close \in BOOLEAN : StartRun(now, close)
    BY <1>1, <2>1 DEF Tick, EndRun, StartRun
  <2> QED
    BY <1>2, <1>4, <2>1, IngestRegenerates, EvaluateRegenerates, FinalizeRegenerates DEF Evaluation
<1>5. ASSUME Evening PROVE RegenInv' /\ incidents' = incidents
  BY <1>2, <1>5, QualityRegenerates DEF Evening
<1> QED
  BY <1>2, <1>3, <1>4, <1>5, OpeningRegenerates, OperatorRegenerates, IntegrityRegenerates,
     QuarantineRegenerates DEF Next

(***************************************************************************)
(* Decision D2 for every ledger: regenerate_history, given the order's     *)
(* events, segments and bars alone, reproduces every stored event, reports *)
(* no divergence, and arrives at the cached projection (evaluator/         *)
(* history.py), however many evaluations, commands, late and corrected     *)
(* bars, freezes and rebuilds wrote them.                                  *)
(***************************************************************************)
THEOREM RowsRegenerate == Spec => []HistoryRegenerates
<1>1. Init => LedgerInv /\ RegenInv
  BY InitLedger, InitRegenerates
<1>2. LedgerInv /\ RegenInv /\ [Next]_vars => (LedgerInv /\ RegenInv)'
  BY StepLedger, StepRegenerates
<1>3. RegenInv => HistoryRegenerates
  <2>1. ASSUME RegenInv PROVE HistoryRegenerates
    <3>1. PICK s : Regenerates(s)
      BY <2>1 DEF RegenInv
    <3> DEFINE h == RegeneratedHistory
    <3>2. h.diverged = FALSE /\ h.projection = [state |-> s, next_seq |-> Len(events) + 1]
      BY <3>1, RoadRegenerates DEF Regenerates
    <3> HIDE DEF h
    <3>3. Reproduces(h)
      BY <3>1, <3>2 DEF Reproduces, Regenerates
    <3> QED
      BY <3>3 DEF HistoryRegenerates, h
  <2> QED
    BY <2>1
<1> QED
  BY <1>1, <1>2, <1>3, PTL DEF Spec

(***************************************************************************)
(* No sequence of evaluations, commands, late data, lost projections and   *)
(* rebuilds raises an integrity error: no event of an order's own contra-  *)
(* dicts one that it has (append_events), the bar that ends its validity   *)
(* is found where it was processed (processed_bar), and a rebuild finds    *)
(* the projection that it regenerates (rebuild_projection). An incident is *)
(* of a projection that somebody deleted, or of another calendar.          *)
(***************************************************************************)
THEOREM IncidentsAreForeign == Spec => []OnlyForeignIncidents
<1>1. Init => LedgerInv /\ RegenInv /\ OnlyForeignIncidents
  BY InitLedger, InitRegenerates DEF Init, OnlyForeignIncidents
<1>2. LedgerInv /\ RegenInv /\ OnlyForeignIncidents /\ [Next]_vars
      => (LedgerInv /\ RegenInv /\ OnlyForeignIncidents)'
  BY StepLedger, StepRegenerates DEF OnlyForeignIncidents, Foreign
<1> QED
  BY <1>1, <1>2, PTL DEF Spec

=============================================================================
