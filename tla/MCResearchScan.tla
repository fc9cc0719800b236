--------------------------- MODULE MCResearchScan ---------------------------
(* Scans from the close of the second session on, and promotions once every
   session has closed, without the other study of MCResearch: for the runs that
   look for one disagreement. *)
EXTENDS Promotion
MCPatterns == [CALM |-> {}, STAR |-> {"EVENING_STAR"}]
MCBounds ==
  {[start |-> 5, arrivals |-> 3, scans |-> 3, clicks |-> 0],
   [start |-> 8, arrivals |-> 2, scans |-> 2, clicks |-> 2]}
=============================================================================
