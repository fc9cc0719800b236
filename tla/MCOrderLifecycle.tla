-------------------------- MODULE MCOrderLifecycle --------------------------
(* Signals, configurations and candles for TLC. Prices lie in 1..6. A LONG
   chain has its stop at 2, a one-price zone at 4 and targets at 5 and 6, so
   that a bar can lose the zone (at 3) and gap through the stop (at 1); a
   second one has a wider zone, 3..4, and its stop at 1. A SHORT chain is the
   mirror image. The window is two sessions, four minutes, and a third
   session follows it. *)
EXTENDS OrderLifecycle

CONSTANTS Prices, Directions, Triggers

MCSessions ==
  <<[open |-> 0, close |-> 2], [open |-> 3, close |-> 5], [open |-> 6, close |-> 7]>>

MCCandles ==
  {c \in [open : Prices, high : Prices, low : Prices, close : Prices] :
     /\ c.low <= c.open /\ c.open <= c.high
     /\ c.low <= c.close /\ c.close <= c.high}

\* Bars that stay at one price or spike once, for the runs with commands.
MCFewCandles == {c \in MCCandles : c.open = c.close /\ (c.open = c.low \/ c.open = c.high)}

Chain(stop, low, trigger, target2) ==
  [direction |-> "LONG", low |-> low, high |-> 4, stop |-> stop, target1 |-> 5,
   target2 |-> target2, trigger |-> trigger]

\* The chain of the other direction, written natively.
Opposite(sig) ==
  [direction |-> "SHORT", low |-> 7 - sig.high, high |-> 7 - sig.low, stop |-> 7 - sig.stop,
   target1 |-> 7 - sig.target1,
   target2 |-> IF sig.target2 = None THEN None ELSE 7 - sig.target2,
   trigger |-> IF sig.trigger = None THEN None ELSE 7 - sig.trigger]

MCSignals ==
  LET long == {Chain(2, 4, trigger, target2) :
                 trigger \in Triggers \cup {None}, target2 \in {6, None}}
              \cup {Chain(1, 3, None, 6)}
  IN  {sig \in long \cup {Opposite(other) : other \in long} : sig.direction \in Directions}

Config(entrySlip, stopSlip, fees, policy) ==
  [risk_amount |-> 24, entry_slip |-> entrySlip, stop_slip |-> stopSlip, commission |-> 1,
   sec_taf_fees_enabled |-> fees, sec_fee_rate |-> 1, taf_fee_per_share |-> 1,
   taf_fee_max |-> 5, scale_out_pct |-> 50, policy |-> policy]

MCConfigs == {Config(0, 0, TRUE, "RECLAIM"), Config(1, 1, FALSE, "CANCEL")}
=============================================================================
