------------------------- MODULE MCEvaluationCycle -------------------------
(* Two sessions, of two minutes and one; the second order outlives the first
   session. In the first instance they share a feed. *)
EXTENDS EvaluationCycle, TLC

CONSTANTS o1, o2, f1, f2

MCSharedFeed == o1 :> f1 @@ o2 :> f1
MCUntil == o1 :> 2 @@ o2 :> 3
MCOneOrder == o1 :> f1
MCOneUntil == o1 :> 2
=============================================================================
