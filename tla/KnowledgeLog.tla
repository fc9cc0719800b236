---------------------------- MODULE KnowledgeLog ----------------------------
(***************************************************************************)
(* What the bar store is to the runs that read it (design 3.6): a log of   *)
(* batches that only grows at its end, and knowledge instants that are     *)
(* cuts of the log, each taken at the end of the log of its moment.        *)
(***************************************************************************)
EXTENDS Naturals, Sequences

VARIABLES
  log,   \* batches in the order of their ingestion
  cuts   \* how much of the log each instant sees

vars == <<log, cuts>>

Init == log = <<>> /\ cuts = {}

Ingest ==
  /\ Len(log') = Len(log) + 1
  /\ log = SubSeq(log', 1, Len(log))
  /\ UNCHANGED cuts

Cut == cuts' = cuts \cup {Len(log)} /\ UNCHANGED log

Next == Ingest \/ Cut

Spec == Init /\ [][Next]_vars
=============================================================================
