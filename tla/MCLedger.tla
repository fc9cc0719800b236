------------------------------ MODULE MCLedger ------------------------------
(* One LONG chain, stop 2 < zone 4 < targets 5 and 6, and two bars, both able
   to fill at 4: one that reaches the first target, one that is stopped. The
   window is two sessions, two minutes and one, the second one the ex-date. *)
EXTENDS Ledger

MCSessions ==
  <<[open |-> 0, close |-> 2], [open |-> 3, close |-> 4], [open |-> 5, close |-> 6]>>

Flat(p) == [open |-> p, high |-> p, low |-> p, close |-> p]

TouchesTarget == [Flat(4) EXCEPT !.high = 5]
TouchesStop == [Flat(4) EXCEPT !.low = 2]

(* Every writer of the order's rows beside one bar; or the jobs alone with
   two bars, late, and corrected from one candle to the other. *)
MCBounds ==
  {[candles |-> {TouchesTarget}, minutes |-> {0, 3}, batches |-> 1, operator |-> TRUE,
    answers |-> {TRUE}],
   [candles |-> {TouchesTarget, TouchesStop}, minutes |-> {0, 1, 3}, batches |-> 2,
    operator |-> FALSE, answers |-> {TRUE, FALSE, None}]}

MCSignals ==
  {[direction |-> "LONG", low |-> 4, high |-> 4, stop |-> 2, target1 |-> 5, target2 |-> 6,
    trigger |-> None]}

MCConfigs ==
  {[risk_amount |-> 24, entry_slip |-> 0, stop_slip |-> 0, commission |-> 1,
    sec_taf_fees_enabled |-> FALSE, sec_fee_rate |-> 0, taf_fee_per_share |-> 0,
    taf_fee_max |-> 0, scale_out_pct |-> 50, policy |-> "RECLAIM"]}
=============================================================================
