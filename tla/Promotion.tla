----------------------------- MODULE Promotion -----------------------------
(***************************************************************************)
(* A stored candidate becomes a signal: POST /research/candidates/{id}/    *)
(* promote reads the candidate, decides, builds the body and submits it    *)
(* through the intake of POST /signals, while scans go on and other        *)
(* requests promote the same occurrence.                                   *)
(***************************************************************************)
EXTENDS ResearchScan

CONSTANTS
  Requests,     \* requests that can be under way at once
  Tradable      \* the shapes whose level chain is valid

VARIABLES
  signals,      \* signals, with whether an AUTO order was created for each
  request,      \* per request how far it is
  clicked       \* how many requests were made

intakeVars == <<signals, request, clicked>>
vars == <<scanVars, intakeVars>>

NoRequest == [phase |-> "IDLE"]

Init ==
  /\ InitScan
  /\ signals = {} /\ clicked = 0
  /\ request = [r \in Requests |-> NoRequest]

-----------------------------------------------------------------------------

\* candidate_detail: neither superseded nor derived from a reading that is.
Shown == {c \in candidates : c.reading \notin Retired(gone)}

LevelsValid(c) == c.series[c.reading.bucket].shape \in Tradable

\* client_signal_id: one per occurrence of a pattern.
ClientId(c) == [bucket |-> c.reading.bucket, pattern |-> c.reading.pattern]

\* stored_signal_body, as the route calls it: the decision's body is built
\* without a thesis, and the thesis of an override is looked up beside the
\* candidate, where candidate_detail does not put it.
SignalBody(c, overridden, auto) ==
  [client |-> ClientId(c), prices |-> c.series, thesis |-> None,
   source |-> IF overridden THEN "manual_promotion" ELSE "research_scan", auto |-> auto]

SignalOf(client) == {s \in signals : s.body.client = client}

Answered(r, status) == request' = [request EXCEPT ![r].phase = "ANSWERED", ![r].status = status]

\* Mutant: whoever finds the id taken is told that it is his.
ExistingUnchecked(body) == "EXISTING"

\* _existing: the same id is the same payload, or a conflict.
Existing(body) ==
  IF \E s \in SignalOf(body.client) : s.body = body THEN "EXISTING" ELSE "CONFLICT"

-----------------------------------------------------------------------------

\* The route reads the candidate and decides; passes is the policy's verdict
\* on its score and on the newest out-of-sample backtest.
Promote(r, c, passes, override, auto) ==
  /\ request[r].phase = "IDLE"
  /\ clicked < bound.clicks
  /\ c \in Shown
  /\ clicked' = clicked + 1
  /\ request' = [request EXCEPT ![r] =
       IF LevelsValid(c) /\ (passes \/ override)
       THEN [phase |-> "INTAKE", body |-> SignalBody(c, ~passes, auto), status |-> None]
       ELSE [phase |-> "ANSWERED", body |-> None, status |-> "NOT_PROMOTABLE"]]
  /\ UNCHANGED <<scanVars, signals>>

\* intake_signal: an unknown id goes through the provider's ticker check.
CheckTicker(r) ==
  /\ request[r].phase = "INTAKE"
  /\ \/ request' = [request EXCEPT ![r].phase = "SUBMIT"]
     \/ /\ SignalOf(request[r].body.client) = {}
        /\ Answered(r, "TICKER_REFUSED")
  /\ UNCHANGED <<scanVars, signals, clicked>>

\* submit_signal looks the id up before it prepares the rows.
Lookup(r) ==
  /\ request[r].phase = "SUBMIT"
  /\ IF SignalOf(request[r].body.client) = {}
     THEN request' = [request EXCEPT ![r].phase = "INSERT"]
     ELSE Answered(r, Existing(request[r].body))
  /\ UNCHANGED <<scanVars, signals, clicked>>

\* The transaction: the signal and its AUTO order, or the one that raced it.
Insert(r) ==
  /\ request[r].phase = "INSERT"
  /\ IF SignalOf(request[r].body.client) = {}
     THEN /\ signals' = signals \cup {[body |-> request[r].body, order |-> request[r].body.auto]}
          /\ Answered(r, "CREATED")
     ELSE UNCHANGED signals /\ Answered(r, Existing(request[r].body))
  /\ UNCHANGED <<scanVars, clicked>>

\* The answer arrives or is lost with its process; the operator may ask again.
Forget(r) ==
  /\ request[r].phase # "IDLE"
  /\ request' = [request EXCEPT ![r] = NoRequest]
  /\ UNCHANGED <<scanVars, signals, clicked>>

Next ==
  \/ ScanNext /\ UNCHANGED intakeVars
  \/ \E r \in Requests :
       \/ \E c \in candidates, passes, override, auto \in BOOLEAN :
            Promote(r, c, passes, override, auto)
       \/ CheckTicker(r) \/ Lookup(r) \/ Insert(r) \/ Forget(r)

Spec == Init /\ [][Next]_vars

-----------------------------------------------------------------------------

(***************************************************************************)
(* One occurrence, one signal, one payload: whatever requests race for it, *)
(* with whatever is promoted meanwhile, each is told the truth about the   *)
(* one signal that was stored.                                             *)
(***************************************************************************)
AnswersTellTheSignal ==
  /\ \A s, t \in signals : s.body.client = t.body.client => s = t
  /\ \A r \in Requests : request[r].phase = "ANSWERED" =>
       LET stored == {s.body : s \in SignalOf(request[r].body.client)} IN
       /\ request[r].status \in {"CREATED", "EXISTING"} => stored = {request[r].body}
       /\ request[r].status = "CONFLICT" => stored # {} /\ request[r].body \notin stored

(***************************************************************************)
(* The evidence travels with the signal: a promoted candidate's structured *)
(* thesis is in the signal (research/promotion.py).                        *)
(***************************************************************************)
ThesisTravels == \A s \in signals : s.body.thesis # None

=============================================================================
