-------------------------------- MODULE Ticks --------------------------------
(* Minutes in ticks: an instant inside a minute exists when Minute > 1. *)
EXTENDS Integers

CONSTANT Minute      \* ticks per minute

Floor(ts) == ts - (ts % Minute)
IsWholeMinute(ts) == ts % Minute = 0

===============================================================================
