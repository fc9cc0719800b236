-------------------------- MODULE MCAlertDelivery ---------------------------
(* One alert beside a lost lock; one beside two crashes; two events, one of
   which can be recorded before the other and commit after it. *)
EXTENDS AlertDelivery
CONSTANTS w1, w2, review, incident
MCBounds ==
  {[events |-> 1, crashes |-> 0, losses |-> 1],
   [events |-> 1, crashes |-> 2, losses |-> 0],
   [events |-> 2, crashes |-> 0, losses |-> 0]}
=============================================================================
