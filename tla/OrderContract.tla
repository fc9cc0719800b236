--------------------------- MODULE OrderContract ---------------------------
(***************************************************************************)
(* What an order promises whoever reads it (design 3.5): the graph of its  *)
(* statuses, what it holds in each of them, and that a frozen order leaves *)
(* the market.  One step is one bar or one command, so an order may be     *)
(* filled and closed in a single step, but only along the graph's paths.   *)
(***************************************************************************)

VARIABLES
  status,
  holding,    \* "none", "part" or "full": what is open of what was bought
  zoneLost,   \* the entry is blocked
  frozen

vars == <<status, holding, zoneLost, frozen>>

Active == {"PENDING", "OPEN", "PARTIAL"}

Init == status = "PENDING" /\ holding = "none" /\ zoneLost = FALSE /\ frozen = FALSE

Trades == status \in Active /\ ~frozen /\ UNCHANGED frozen

\* The zone's flag moves, and only before the entry.
Gate == /\ Trades /\ status = "PENDING"
        /\ zoneLost' = ~zoneLost
        /\ UNCHANGED <<status, holding>>

Enter == /\ Trades /\ status = "PENDING" /\ ~zoneLost
         /\ status' = "OPEN" /\ holding' = "full"
         /\ UNCHANGED zoneLost

\* The entry and its stop, or its time exit, on the same bar.
EnterAndExit == /\ Trades /\ status = "PENDING" /\ ~zoneLost
                /\ status' = "CLOSED" /\ holding' = "none"
                /\ UNCHANGED zoneLost

ScaleOut == /\ Trades /\ status = "OPEN"
            /\ status' = "PARTIAL" /\ holding' = "part"
            /\ UNCHANGED zoneLost

Exit == /\ Trades /\ status \in {"OPEN", "PARTIAL"}
        /\ status' = "CLOSED" /\ holding' = "none"
        /\ UNCHANGED zoneLost

\* Without a position; the policy CANCEL may lose the zone in the same step.
Lapse == /\ Trades /\ status = "PENDING"
         /\ status' \in {"EXPIRED", "INVALIDATED"}
         /\ zoneLost' \in BOOLEAN
         /\ UNCHANGED holding

\* A person's decision, frozen or not; the position is left as it was.
Cancel == /\ status \in Active
          /\ status' = "CANCELED"
          /\ UNCHANGED <<holding, zoneLost, frozen>>

Freeze == /\ status \in Active
          /\ frozen' = TRUE
          /\ UNCHANGED <<status, holding, zoneLost>>

Next == Gate \/ Enter \/ EnterAndExit \/ ScaleOut \/ Exit \/ Lapse \/ Cancel \/ Freeze

Spec == Init /\ [][Next]_vars
=============================================================================
