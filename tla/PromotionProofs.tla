--------------------------- MODULE PromotionProofs ---------------------------
(***************************************************************************)
(* Theorems about promotion and research scans, for every number of        *)
(* requests, candidates, sessions and scans.                               *)
(*                                                                         *)
(*   AnswersAreTrue        a request is told the truth of its signal;      *)
(*   ReadingsFollowTheData a scanned bucket reads as its data say;         *)
(*   HistoryStays          what an earlier scan answered never changes.    *)
(*                                                                         *)
(* An answered request names what the storage held when it was answered,   *)
(* and the unique key of the occurrence keeps that: only a request that    *)
(* found no signal stores one. A scan replaces in one transaction what     *)
(* the bars of a bucket no longer support, and it revisits every bucket    *)
(* it has read since the revision may have changed them; what it writes    *)
(* carries its own instant, later than the instants of earlier scans.      *)
(***************************************************************************)
EXTENDS Promotion, FiniteSetsExt, FiniteSetTheorems, WellFoundedInduction, TLAPS

(***************************************************************************)
(* A set of naturals that is not empty has a least element.                *)
(***************************************************************************)
LEMMA Least ==
  ASSUME NEW S \in SUBSET Nat, S # {}
  PROVE  \E x \in S : \A y \in S : x <= y
<1>1. PICK x \in S : \A y \in S : ~ (<<y, x>> \in OpToRel(<, Nat))
  BY NatLessThanWellFounded, WFMin
<1>2. \A y \in S : ~ (y < x)
  BY <1>1 DEF OpToRel
<1> QED
  BY <1>2

(***************************************************************************)
(* The greatest element of a bounded set is the least one of its           *)
(* complements: Max is the last bar an evaluation reads.                   *)
(***************************************************************************)
LEMMA MaxIsGreatest ==
  ASSUME NEW S \in SUBSET Nat, S # {}, NEW n \in Nat, \A x \in S : x <= n
  PROVE  Max(S) \in S /\ \A y \in S : Max(S) >= y
<1> DEFINE Below == {n - x : x \in S}
<1>0. \A x \in S : x \in Nat /\ n - x \in Nat
  OBVIOUS
<1>1. Below \in SUBSET Nat /\ Below # {}
  <2>1. PICK x \in S : TRUE
    OBVIOUS
  <2>2. n - x \in Below
    OBVIOUS
  <2> QED
    BY <1>0, <2>2
<1>2. PICK d \in Below : \A e \in Below : d <= e
  BY <1>1, Least
<1>3. PICK x \in S : d = n - x
  OBVIOUS
<1>4. \A y \in S : n - x <= n - y
  BY <1>2, <1>3
<1>5. \A y \in S : x >= y
  BY <1>0, <1>4
<1> QED
  BY <1>5 DEF Max

-----------------------------------------------------------------------------

\* The phases of a request that carries a body.
Asking == {"INTAKE", "SUBMIT", "INSERT", "ANSWERED"}

\* A request is untouched, or has the fields of one that is asking.
RequestOK(q) ==
  \/ q = NoRequest
  \/ q \in [phase : Asking, body : {q.body}, status : {q.status}]

\* What an answered request was told is what is stored.
Told(q) ==
  q.phase = "ANSWERED" =>
    LET stored == {s.body : s \in SignalOf(q.body.client)} IN
    /\ q.status \in {"CREATED", "EXISTING"} => stored = {q.body}
    /\ q.status = "CONFLICT" => stored # {} /\ q.body \notin stored

\* The inductive invariant of promotion.
IntakeInv ==
  /\ request = [r \in Requests |-> request[r]]
  /\ \A r \in Requests : RequestOK(request[r]) /\ Told(request[r])
  /\ \A s, t \in signals : s.body.client = t.body.client => s = t

(***************************************************************************)
(* One request moves to a well-formed phase and is told no lie; the        *)
(* others are untouched, and no signal is stored.                          *)
(***************************************************************************)
LEMMA RequestChanges ==
  ASSUME IntakeInv, UNCHANGED signals, NEW r \in Requests, NEW q,
         request' = [request EXCEPT ![r] = q], RequestOK(q), Told(q)
  PROVE  IntakeInv'
<1>1. /\ request' = [p \in Requests |-> request'[p]]
      /\ request'[r] = q /\ \A p \in Requests \ {r} : request'[p] = request[p]
  BY DEF IntakeInv
<1>2. ASSUME NEW p \in Requests
      PROVE  RequestOK(request'[p]) /\ Told(request'[p])
  BY <1>1 DEF IntakeInv
<1>3. \A p \in Requests : RequestOK(request[p])' /\ Told(request[p])'
  BY <1>2 DEF RequestOK, NoRequest, Told, SignalOf
<1> QED
  BY <1>1, <1>3 DEF IntakeInv

(***************************************************************************)
(* The answer a request reads from a stored signal is right: EXISTING      *)
(* only for the payload that is stored, CONFLICT only for another one.     *)
(***************************************************************************)
LEMMA ExistingTells ==
  ASSUME IntakeInv, NEW body, SignalOf(body.client) # {}
  PROVE  LET stored == {s.body : s \in SignalOf(body.client)} IN
         /\ Existing(body) \in {"CREATED", "EXISTING"} => stored = {body}
         /\ Existing(body) = "CONFLICT" => stored # {} /\ body \notin stored
<1>1. CASE \E s \in SignalOf(body.client) : s.body = body
  BY <1>1 DEF Existing, SignalOf, IntakeInv
<1>2. CASE ~\E s \in SignalOf(body.client) : s.body = body
  BY <1>2 DEF Existing
<1> QED
  BY <1>1, <1>2

(***************************************************************************)
(* No step of a promotion makes an answer untrue or stores a second        *)
(* signal for one occurrence: submit_intake reads before it inserts, and   *)
(* the insert reads again under the unique key.                            *)
(***************************************************************************)
LEMMA IntakeStep ==
  ASSUME IntakeInv, [Next]_vars
  PROVE  IntakeInv'
<1>1. CASE UNCHANGED intakeVars
  BY <1>1 DEF intakeVars, IntakeInv, RequestOK, Told, NoRequest, SignalOf
<1>2. ASSUME NEW r \in Requests, NEW c \in candidates,
             NEW passes \in BOOLEAN, NEW override \in BOOLEAN, NEW auto \in BOOLEAN,
             Promote(r, c, passes, override, auto)
      PROVE  IntakeInv'
  <2> DEFINE taken == [phase |-> "INTAKE", body |-> SignalBody(c, ~passes, auto), status |-> None]
             refused == [phase |-> "ANSWERED", body |-> None, status |-> "NOT_PROMOTABLE"]
  <2>1. UNCHANGED signals /\ (request' = [request EXCEPT ![r] = taken] \/ request' = [request EXCEPT ![r] = refused])
    BY <1>2 DEF Promote
  <2>2. RequestOK(taken) /\ Told(taken) /\ RequestOK(refused) /\ Told(refused)
    BY DEF RequestOK, Told, Asking
  <2> HIDE DEF taken, refused
  <2> QED
    BY <2>1, <2>2, RequestChanges
<1>3. ASSUME NEW r \in Requests, request[r].phase \in {"INTAKE", "SUBMIT"}, UNCHANGED signals,
             NEW phase \in {"SUBMIT", "INSERT"}, request' = [request EXCEPT ![r].phase = phase]
      PROVE  IntakeInv'
  <2> DEFINE q == [request[r] EXCEPT !.phase = phase]
  <2>1. RequestOK(q) /\ Told(q)
    BY <1>3 DEF IntakeInv, RequestOK, Told, Asking, NoRequest
  <2>2. request' = [request EXCEPT ![r] = q]
    BY <1>3
  <2> HIDE DEF q
  <2> QED
    BY <1>3, <2>1, <2>2, RequestChanges
<1>4. ASSUME NEW r \in Requests, request[r].phase \in Asking, UNCHANGED signals, NEW status,
             Answered(r, status),
             LET stored == {s.body : s \in SignalOf(request[r].body.client)} IN
               /\ status \in {"CREATED", "EXISTING"} => stored = {request[r].body}
               /\ status = "CONFLICT" => stored # {} /\ request[r].body \notin stored
      PROVE  IntakeInv'
  <2> DEFINE q == [request[r] EXCEPT !.phase = "ANSWERED", !.status = status]
  <2>1. /\ q \in [phase : {"ANSWERED"}, body : {request[r].body}, status : {status}]
        /\ request' = [request EXCEPT ![r] = q]
    <3>1. request[r] \in [phase : Asking, body : {request[r].body}, status : {request[r].status}]
      BY <1>4 DEF IntakeInv, RequestOK, Asking, NoRequest
    <3>2. q \in [phase : {"ANSWERED"}, body : {request[r].body}, status : {status}]
      BY <3>1
    <3>3. request' = [request EXCEPT ![r] = q]
      BY <1>4 DEF Answered
    <3> QED
      BY <3>2, <3>3
  <2>2. RequestOK(q)
    BY <2>1 DEF RequestOK, Asking
  <2>3. Told(q)
    BY <1>4, <2>1 DEF Told
  <2> HIDE DEF q
  <2> QED
    BY <1>4, <2>1, <2>2, <2>3, RequestChanges
<1>5. ASSUME NEW r \in Requests, CheckTicker(r) PROVE IntakeInv'
  BY <1>3, <1>4, <1>5 DEF CheckTicker, Asking
<1>6. ASSUME NEW r \in Requests, Lookup(r) PROVE IntakeInv'
  <2>1. CASE SignalOf(request[r].body.client) # {}
    BY <1>4, <1>6, <2>1, ExistingTells DEF Lookup, Asking
  <2>2. CASE SignalOf(request[r].body.client) = {}
    BY <1>3, <1>6, <2>2 DEF Lookup
  <2> QED
    BY <2>1, <2>2
<1>7. ASSUME NEW r \in Requests, Insert(r) PROVE IntakeInv'
  <2> DEFINE body == request[r].body
             q == [request[r] EXCEPT !.phase = "ANSWERED", !.status = "CREATED"]
             added == [body |-> body, order |-> body.auto]
  <2>1. CASE SignalOf(body.client) # {}
    BY <1>4, <1>7, <2>1, ExistingTells DEF Insert, Asking
  <2>2. CASE SignalOf(body.client) = {}
    <3>1. /\ signals' = signals \cup {added}
          /\ request' = [request EXCEPT ![r] = q]
          /\ q \in [phase : {"ANSWERED"}, body : {body}, status : {"CREATED"}]
      <4>1. request[r] \in [phase : Asking, body : {request[r].body}, status : {request[r].status}]
        BY <1>7 DEF IntakeInv, RequestOK, NoRequest, Insert
      <4>2. q \in [phase : {"ANSWERED"}, body : {body}, status : {"CREATED"}]
        BY <4>1
      <4> QED
        BY <1>7, <2>2, <4>2 DEF Insert, Answered
    <3>2. added.body = body
      OBVIOUS
    <3> HIDE DEF added, q
    <3>3. /\ request' = [p \in Requests |-> request'[p]]
          /\ request'[r] = q /\ \A p \in Requests \ {r} : request'[p] = request[p]
      BY <3>1 DEF IntakeInv
    <3>4. \A s, t \in signals' : s.body.client = t.body.client => s = t
      BY <2>2, <3>1, <3>2 DEF IntakeInv, SignalOf
    <3>5. RequestOK(request[r])' /\ Told(request[r])'
      <4>1. {s \in signals' : s.body.client = body.client} = {added}
        BY <2>2, <3>1, <3>2 DEF SignalOf
      <4>2. RequestOK(request[r])'
        BY <3>1, <3>3 DEF RequestOK, Asking
      <4>3. Told(request[r])'
        <5>1. SignalOf(request[r].body.client)' = {added}
          BY <3>1, <3>3, <4>1 DEF SignalOf
        <5>2. {s.body : s \in SignalOf(request[r].body.client)'} = {body}
          BY <3>2, <5>1
        <5> QED
          BY <3>1, <3>3, <5>2 DEF Told
      <4> QED
        BY <4>2, <4>3
    <3>6. ASSUME NEW p \in Requests \ {r}
          PROVE  RequestOK(request[p])' /\ Told(request[p])'
      <4>1. RequestOK(request[p])'
        BY <3>3 DEF IntakeInv, RequestOK, NoRequest
      <4>2. SUFFICES ASSUME request[p].phase = "ANSWERED",
                            request[p].status \in {"CREATED", "EXISTING", "CONFLICT"}
                     PROVE  SignalOf(request[p].body.client)' = SignalOf(request[p].body.client)
        BY <3>3, <4>1 DEF IntakeInv, Told
      <4>3. SignalOf(request[p].body.client) # {}
        BY <4>2 DEF IntakeInv, Told
      <4>4. request[p].body.client # body.client
        BY <2>2, <4>3
      <4> QED
        BY <3>1, <3>2, <3>3, <4>4 DEF SignalOf
    <3> QED
      BY <3>3, <3>4, <3>5, <3>6 DEF IntakeInv
  <2> QED
    BY <2>1, <2>2
<1>8. ASSUME NEW r \in Requests, Forget(r) PROVE IntakeInv'
  BY <1>8, RequestChanges DEF Forget, RequestOK, NoRequest, Told
<1> QED
  BY <1>1, <1>2, <1>5, <1>6, <1>7, <1>8 DEF Next, vars

(***************************************************************************)
(* One occurrence, one signal, one payload: what every answered request    *)
(* was told is what is stored (submit_intake's idempotency, whatever       *)
(* requests race).                                                         *)
(***************************************************************************)
THEOREM AnswersAreTrue == Spec => []AnswersTellTheSignal
<1>1. Init => IntakeInv
  BY DEF Init, IntakeInv, RequestOK, NoRequest, Told
<1>2. IntakeInv /\ [Next]_vars => IntakeInv'
  BY IntakeStep
<1>3. IntakeInv => AnswersTellTheSignal
  BY DEF IntakeInv, Told, AnswersTellTheSignal
<1> QED
  BY <1>1, <1>2, <1>3, PTL DEF Spec

-----------------------------------------------------------------------------

\* No scan is running, or one that reads at the latest instant.
ScanNow ==
  \/ scan = NotScanning
  \/ scan \in [phase : {"SCANNING", "SCANNED"}, at : {asOf}, now : Nat,
               bars : {scan.bars}, stored : {scan.stored}, visited : {scan.visited}]

\* A row reads the bars it stores as evidence, and a pattern of their shape.
ReadAs(d) == d.evidence = d.input /\ d.bucket \in Buckets
             /\ d.pattern \in Patterns[d.evidence[d.bucket].shape]

\* The inductive invariant of the scans.
ScanInv ==
  /\ asOf \in Nat /\ now \in Nat
  /\ ScanNow
  /\ \A d \in detections : ReadAs(d)
  /\ ActiveFollowsData

(***************************************************************************)
(* A bucket whose candle is complete is a bucket of the calendar, and      *)
(* its own bar is the last of the bars it is read from.                    *)
(***************************************************************************)
LEMMA CandleIsLast ==
  ASSUME ScanAssumption, NEW s, s.now \in Nat, NEW b \in ClosedCandles(s)
  PROVE  b \in DOMAIN InputOf(s, b) /\ InputOf(s, b)[b] = s.bars[b] /\ b \in Buckets
<1>1. b \in Nat /\ b \in Buckets /\ ClosedCandles(s) \subseteq Nat
  <2>1. Started(s.now) \in Int
    BY DEF Started
  <2>2. WindowStart(s.now) \in Nat /\ WindowStart(s.now) >= 1
    BY <2>1 DEF WindowStart, Greater, ScanAssumption
  <2> QED
    BY <2>2 DEF ClosedCandles, ScanAssumption, Buckets
<1>2. {d \in {c \in ClosedCandles(s) : c <= b} : d > b} = {}
  BY <1>1
<1>3. Cardinality({d \in {c \in ClosedCandles(s) : c <= b} : d > b}) < Span
  BY <1>2, FS_EmptySet DEF ScanAssumption
<1> DEFINE before == {c \in ClosedCandles(s) : c <= b}
           kept == {c \in before : Cardinality({d \in before : d > c}) < Span}
<1>4. b \in kept
  BY <1>1, <1>3
<1>5. InputOf(s, b) = [c \in kept |-> s.bars[c]]
  BY DEF InputOf, Upto
<1> QED
  BY <1>1, <1>4, <1>5

(***************************************************************************)
(* Everything detect finds in a bucket belongs to the bucket, carries      *)
(* the bars that were read as evidence and names a pattern of the          *)
(* bucket's shape.                                                         *)
(***************************************************************************)
LEMMA FoundReadings ==
  ASSUME ScanAssumption, NEW s, NEW b \in ClosedCandles(s), NEW r \in Found(s, b)
  PROVE  /\ r.bucket = b /\ r.evidence = InputOf(s, b)
         /\ r.pattern \in Patterns[s.bars[b].shape]
         /\ r = [bucket |-> b, pattern |-> r.pattern, evidence |-> InputOf(s, b)]
BY DEF Found, InputOf

(***************************************************************************)
(* What a scan records: the rows it had, and for every bucket it visits    *)
(* the readings found there that no row holds yet, at the scan's own       *)
(* instant.                                                                *)
(***************************************************************************)
LEMMA RecordedRows ==
  ASSUME ScanAssumption, NEW s, s.now \in Nat, NEW rows, NEW buckets \in SUBSET ClosedCandles(s)
  PROVE  /\ \A d \in Recorded(s, rows, buckets) \ rows :
              \E b \in buckets : /\ ReadingOf(d) \in Found(s, b) /\ d.bucket = b
                                 /\ d.at = s.at /\ ReadAs(d)
         /\ rows \subseteq Recorded(s, rows, buckets)
         /\ \A b \in buckets : Found(s, b) \subseteq Readings(Recorded(s, rows, buckets))
<1> DEFINE new == (UNION {Found(s, b) : b \in buckets}) \ Readings(rows)
           Row(r) == [bucket |-> r.bucket, pattern |-> r.pattern, evidence |-> r.evidence,
                      input |-> InputOf(s, r.bucket), at |-> s.at]
<1>1. Recorded(s, rows, buckets) = rows \cup {Row(r) : r \in new}
  BY DEF Recorded
<1>2. ASSUME NEW b \in buckets, NEW r \in Found(s, b)
      PROVE  /\ ReadingOf(Row(r)) = r /\ Row(r).bucket = b /\ Row(r).at = s.at /\ ReadAs(Row(r))
  <2>1. /\ r.bucket = b /\ r.evidence = InputOf(s, b)
        /\ r.pattern \in Patterns[s.bars[b].shape]
        /\ r = [bucket |-> b, pattern |-> r.pattern, evidence |-> InputOf(s, b)]
    BY FoundReadings
  <2>2. ReadingOf(Row(r)) = r
    BY <2>1 DEF ReadingOf
  <2>3. ReadAs(Row(r))
    BY <2>1, CandleIsLast DEF ReadAs
  <2> QED
    BY <2>1, <2>2, <2>3
<1> HIDE DEF Row
<1>3. ASSUME NEW d \in Recorded(s, rows, buckets) \ rows
      PROVE  \E b \in buckets : /\ ReadingOf(d) \in Found(s, b) /\ d.bucket = b
                                /\ d.at = s.at /\ ReadAs(d)
  <2>1. PICK r \in new : d = Row(r)
    BY <1>1
  <2>2. PICK b \in buckets : r \in Found(s, b)
    OBVIOUS
  <2> QED
    BY <1>2, <2>1, <2>2
<1>4. ASSUME NEW b \in buckets, NEW r \in Found(s, b)
      PROVE  r \in Readings(Recorded(s, rows, buckets))
  <2>1. CASE r \in Readings(rows)
    BY <1>1, <2>1 DEF Readings
  <2>2. CASE r \notin Readings(rows)
    <3>1. r \in new
      BY <2>2
    <3>2. Row(r) \in Recorded(s, rows, buckets)
      BY <1>1, <3>1
    <3> QED
      BY <1>2, <3>2 DEF Readings
  <2> QED
    BY <2>1, <2>2
<1> QED
  BY <1>1, <1>3, <1>4

(***************************************************************************)
(* A scan resumes at the last bucket that has rows: no row is later.       *)
(***************************************************************************)
LEMMA ResumeIsLatest ==
  ASSUME ScanAssumption, ScanInv, NEW d \in detections
  PROVE  AlreadyRead(d.bucket)
<1> DEFINE read == {e.bucket : e \in detections}
<1>1. read \subseteq Nat /\ read # {} /\ d.bucket \in read /\ \A b \in read : b <= Sessions
  BY DEF ScanInv, ReadAs, Buckets, ScanAssumption
<1>2. Resume = Max(read)
  BY DEF Resume
<1>3. Max(read) \in Nat /\ Max(read) >= d.bucket
  BY <1>1, MaxIsGreatest DEF ScanAssumption
<1> QED
  BY <1>1, <1>2, <1>3 DEF AlreadyRead

(***************************************************************************)
(* The step of a scan that matters: recording what is found and retiring   *)
(* what is no longer found leaves the active view of every visited         *)
(* bucket equal to what its data support, up to the readings retired       *)
(* before.                                                                 *)
(***************************************************************************)
LEMMA ScanOneFollowsData ==
  ASSUME ScanAssumption, ScanInv, ScanOne
  PROVE  ActiveFollowsData'
<1> DEFINE s == scan
           visited == Visited(s)
           rows == Recorded(s, detections, visited)
           again == {b \in visited : AlreadyRead(b)}
<1>1. /\ detections' = rows
      /\ gone' = gone \cup UNION {Superseded(s, rows, gone, b) : b \in again}
      /\ scan' = [s EXCEPT !.phase = "SCANNED", !.visited = visited]
  BY DEF ScanOne
<1>0. scan \in [phase : {"SCANNING"}, at : {asOf}, now : Nat,
               bars : {scan.bars}, stored : {scan.stored}, visited : {scan.visited}]
  BY DEF ScanOne, ScanInv, ScanNow, NotScanning
<1>2. visited \subseteq ClosedCandles(s) /\ s.now \in Nat
  BY <1>0 DEF Visited
<1> SUFFICES ASSUME NEW b \in visited
             PROVE  LET found == Found(s, b)
                        active == Readings(Active(rows, gone', b))
                        lost == found \cap Retired(gone')
                    IN  /\ found \ lost \subseteq active
                        /\ \A r \in active \ found : \E l \in lost : l.pattern = r.pattern
  <2>1. scan'.visited = visited
    BY <1>1, <1>0
  <2>2. \A b : Found(scan', b) = Found(s, b)
    BY <1>1, <1>0 DEF Found, Upto, ClosedCandles
  <2> HIDE DEF visited, rows
  <2> QED
    BY <1>1, <2>1, <2>2 DEF ActiveFollowsData
<1> DEFINE found == Found(s, b)
           stored == Active(rows, gone, b)
           stale == {d \in stored : ReadingOf(d) \notin found}
<1>3. b \in ClosedCandles(s) /\ gone \subseteq gone'
  BY <1>1, <1>2
<1>4. Retired(gone) \subseteq Retired(gone')
  BY <1>3 DEF Retired
<1>5. found \subseteq Readings(rows) /\ \A r \in found : r.bucket = b
  BY <1>2, <1>3, RecordedRows, FoundReadings
<1>6. ASSUME NEW r \in found, r \notin Retired(gone')
      PROVE  r \in Readings(Active(rows, gone', b))
  <2>1. PICK d \in rows : r = ReadingOf(d)
    BY <1>5 DEF Readings
  <2>2. d \in Active(rows, gone', b)
    BY <1>5, <1>6, <2>1 DEF Active, ReadingOf
  <2> QED
    BY <2>1, <2>2 DEF Readings
<1>7. ASSUME NEW r \in Readings(Active(rows, gone', b)), r \notin found
      PROVE  \E l \in found \cap Retired(gone') : l.pattern = r.pattern
  <2>1. PICK d \in rows : d.bucket = b /\ r = ReadingOf(d) /\ r \notin Retired(gone')
    BY DEF Active, Readings
  <2>2. d \in detections
    <3>1. SUFFICES ASSUME d \in rows \ detections PROVE FALSE
      OBVIOUS
    <3>2. PICK c \in visited : ReadingOf(d) \in Found(s, c) /\ d.bucket = c
      BY <1>2, <3>1, RecordedRows
    <3> QED
      BY <1>7, <2>1, <3>2
  <2>3. b \in again /\ ReadAs(d)
    BY <2>1, <2>2, ResumeIsLatest DEF ScanInv
  <2>4. d \in stale
    BY <1>4, <1>7, <2>1 DEF Active
  <2>5. d.input # InputOf(s, b)
    <3>1. SUFFICES ASSUME d.input = InputOf(s, b) PROVE FALSE
      OBVIOUS
    <3>2. d.evidence = InputOf(s, b) /\ d.pattern \in Patterns[s.bars[b].shape]
      BY <1>2, <1>3, <2>1, <2>3, <3>1, CandleIsLast DEF ReadAs
    <3>3. ReadingOf(d) \in found
      BY <2>1, <3>2 DEF Found, ReadingOf, InputOf
    <3> QED
      BY <1>7, <2>1, <3>3
  <2> DEFINE Row(e, by) == [fact |-> ReadingOf(e), by |-> by, input |-> InputOf(s, b), at |-> s.at]
  <2>6. Superseded(s, rows, gone, b) =
          {Row(e, None) : e \in {x \in stale : Replacements(found, x) = {}}}
          \cup UNION {{Row(e, q) : q \in Replacements(found, e) \cap Readings(stored)} : e \in stale}
    BY <2>4, <2>5 DEF Superseded
  <2>7. Superseded(s, rows, gone, b) \subseteq gone'
    BY <1>1, <2>3
  <2>8. \A by : Row(d, by) \notin gone'
    BY <2>1 DEF Retired
  <2>9. Replacements(found, d) # {}
    <3>1. SUFFICES ASSUME Replacements(found, d) = {} PROVE FALSE
      OBVIOUS
    <3>2. d \in {x \in stale : Replacements(found, x) = {}}
      BY <2>4, <3>1
    <3>3. Row(d, None) \in Superseded(s, rows, gone, b)
      BY <2>6, <3>2
    <3> QED
      BY <2>7, <2>8, <3>3
  <2>10. PICK l \in found : l.pattern = d.pattern /\ l \in Replacements(found, d)
    BY <2>9 DEF Replacements
  <2>11. l \notin Readings(stored)
    <3>1. SUFFICES ASSUME l \in Readings(stored) PROVE FALSE
      OBVIOUS
    <3>2. Row(d, l) \in {Row(d, q) : q \in Replacements(found, d) \cap Readings(stored)}
      BY <2>10, <3>1
    <3> HIDE DEF Row, stale
    <3>3. Row(d, l) \in Superseded(s, rows, gone, b)
      BY <2>4, <2>6, <3>2
    <3> QED
      BY <2>7, <2>8, <3>3
  <2>12. PICK e \in rows : l = ReadingOf(e)
    BY <1>5 DEF Readings
  <2>13. e.bucket = b /\ e \notin stored
    BY <1>5, <2>11, <2>12 DEF ReadingOf, Readings
  <2>14. l \in Retired(gone')
    BY <1>4, <2>12, <2>13 DEF Active
  <2> QED
    BY <2>1, <2>10, <2>14 DEF ReadingOf
<1> QED
  BY <1>6, <1>7

(***************************************************************************)
(* What a scan retires is retired at the scan's own instant.               *)
(***************************************************************************)
LEMMA SupersededNow ==
  ASSUME NEW s, NEW rows, NEW superseded, NEW b, NEW g \in Superseded(s, rows, superseded, b)
  PROVE  g.at = s.at
BY DEF Superseded

(***************************************************************************)
(* No step of a scan, of the market or of a promotion breaks the           *)
(* invariant of the scans.                                                 *)
(***************************************************************************)
LEMMA ScanStep ==
  ASSUME ScanAssumption, ScanInv, [Next]_vars
  PROVE  ScanInv'
<1>2. ASSUME UNCHANGED <<asOf, scan, facts>>, now' \in Nat
      PROVE  ScanInv'
  <2>1. UNCHANGED <<asOf, scan, detections, gone>>
    BY <1>2 DEF facts
  <2>2. ActiveFollowsData'
    BY <2>1 DEF ScanInv, ActiveFollowsData
  <2>3. ScanNow'
    BY <2>1 DEF ScanInv, ScanNow, NotScanning
  <2>4. \A d \in detections' : ReadAs(d)
    BY <2>1 DEF ScanInv
  <2> QED
    BY <1>2, <2>1, <2>2, <2>3, <2>4 DEF ScanInv
<1>1. CASE UNCHANGED scanVars
  BY <1>1, <1>2 DEF scanVars, data, facts, ScanInv
<1>3. ASSUME UNCHANGED <<now, asOf, facts>>, scan' = NotScanning
      PROVE  ScanInv'
  BY <1>3 DEF facts, ScanInv, ScanNow, NotScanning, ReadAs, ActiveFollowsData
<1>4. CASE Tick
  BY <1>2, <1>4 DEF Tick, ScanInv
<1>5. ASSUME NEW b \in Buckets, NEW shape \in Shapes, NEW complete \in BOOLEAN, Arrive(b, shape, complete)
      PROVE  ScanInv'
  BY <1>2, <1>5 DEF Arrive, ScanInv
<1>6. CASE StartScan
  BY <1>6 DEF StartScan, facts, ScanInv, ScanNow, ReadAs, ActiveFollowsData
<1>7. CASE ScanOne
  <2>1. ActiveFollowsData'
    BY <1>7, ScanOneFollowsData
  <2>2. Visited(scan) \subseteq ClosedCandles(scan) /\ scan.now \in Nat
    BY <1>7 DEF Visited, ScanOne, ScanInv, ScanNow, NotScanning
  <2>3. \A d \in detections' : ReadAs(d)
    BY <1>7, <2>2, RecordedRows DEF ScanOne, ScanInv
  <2>4. ScanNow' /\ (asOf \in Nat /\ now \in Nat)'
    <3> DEFINE visited == Visited(scan)
    <3>1. UNCHANGED <<now, asOf>> /\ scan' = [scan EXCEPT !.phase = "SCANNED", !.visited = visited]
      BY <1>7 DEF ScanOne
    <3>2. scan \in [phase : {"SCANNING"}, at : {asOf}, now : Nat,
                   bars : {scan.bars}, stored : {scan.stored}, visited : {scan.visited}]
      BY <1>7 DEF ScanOne, ScanInv, ScanNow, NotScanning
    <3> HIDE DEF visited
    <3>3. scan' \in [phase : {"SCANNED"}, at : {asOf}, now : Nat,
                    bars : {scan.bars}, stored : {scan.stored}, visited : {visited}]
      BY <3>1, <3>2
    <3>4. scan' \in [phase : {"SCANNED"}, at : {asOf'}, now : Nat,
                    bars : {scan'.bars}, stored : {scan'.stored}, visited : {scan'.visited}]
      BY <3>1, <3>3
    <3> QED
      BY <3>1, <3>4 DEF ScanInv, ScanNow
  <2> QED
    BY <2>1, <2>3, <2>4 DEF ScanInv
<1>8. CASE ScanFails \/ FinishScan
  BY <1>3, <1>8 DEF ScanFails, FinishScan, data
<1> QED
  BY <1>1, <1>4, <1>5, <1>6, <1>7, <1>8
  DEF Next, ScanNext, vars, Promote, CheckTicker, Lookup, Insert, Forget

(***************************************************************************)
(* No step changes what is answered as of an earlier scan: rows and        *)
(* retirements are only added, at the instant of the running scan.         *)
(***************************************************************************)
LEMMA ScanAnswersStay ==
  ASSUME ScanAssumption, ScanInv, [Next]_vars
  PROVE  [AnswersStay]_scanVars
<1>1. ASSUME UNCHANGED <<detections, gone>> PROVE AnswersStay
  BY <1>1 DEF AnswersStay, ActiveAsOf, Active, Readings, Retired, ReadingOf
<1>2. CASE ScanOne
  <2> SUFFICES ASSUME NEW instant \in 0..bound.scans, NEW b \in Buckets, instant < asOf
               PROVE  Readings(ActiveAsOf(detections, gone, b, instant))'
                        = Readings(ActiveAsOf(detections, gone, b, instant))
    BY DEF AnswersStay
  <2>1. scan.at = asOf /\ asOf \in Nat /\ scan.now \in Nat
    BY <1>2 DEF ScanInv, ScanNow, NotScanning, ScanOne
  <2>2. Visited(scan) \subseteq ClosedCandles(scan)
    BY DEF Visited
  <2>3. detections \subseteq detections' /\ \A d \in detections' \ detections : d.at = asOf
    BY <1>2, <2>1, <2>2, RecordedRows DEF ScanOne
  <2>4. gone \subseteq gone' /\ \A g \in gone' \ gone : g.at = asOf
    BY <1>2, <2>1, SupersededNow DEF ScanOne
  <2>5. {d \in detections' : d.at <= instant} = {d \in detections : d.at <= instant}
    BY <2>1, <2>3
  <2>6. {g \in gone' : g.at <= instant} = {g \in gone : g.at <= instant}
    BY <2>1, <2>4
  <2> QED
    BY <2>5, <2>6 DEF ActiveAsOf, Readings, Active, Retired, ReadingOf
<1> QED
  BY <1>1, <1>2 DEF Next, ScanNext, vars, scanVars, Promote, CheckTicker, Lookup, Insert, Forget,
     Tick, Arrive, StartScan, ScanFails, FinishScan, facts

(***************************************************************************)
(* The invariant holds before the first scan.                              *)
(***************************************************************************)
LEMMA ScanInit ==
  ASSUME ScanAssumption, Init
  PROVE  ScanInv
BY DEF ScanAssumption, Init, InitScan, ScanInv, ScanNow, NotScanning, ActiveFollowsData

(***************************************************************************)
(* A correction reaches the readings: after a scan, the active view of     *)
(* each bucket it visited holds what the bucket's data support             *)
(* (scan_symbol and its supersede pass).                                   *)
(***************************************************************************)
THEOREM ReadingsFollowTheData ==
  ASSUME ScanAssumption
  PROVE  Spec => []ActiveFollowsData
<1>1. Init => ScanInv
  BY ScanInit
<1>2. ScanInv /\ [Next]_vars => ScanInv'
  BY ScanStep
<1>3. ScanInv => ActiveFollowsData
  BY DEF ScanInv
<1> QED
  BY <1>1, <1>2, <1>3, PTL DEF Spec

(***************************************************************************)
(* What was active as of the instant of an earlier scan never changes      *)
(* again (active_as_of): promotion and backtest read a stable past.        *)
(***************************************************************************)
THEOREM HistoryStays ==
  ASSUME ScanAssumption
  PROVE  Spec => AsOfIsStable
<1>1. Init => ScanInv
  BY ScanInit
<1>2. ScanInv /\ [Next]_vars => ScanInv'
  BY ScanStep
<1>3. ScanInv /\ [Next]_vars => [AnswersStay]_scanVars
  BY ScanAnswersStay
<1> QED
  BY <1>1, <1>2, <1>3, PTL DEF Spec, AsOfIsStable

=============================================================================
