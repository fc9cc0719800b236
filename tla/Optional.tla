------------------------------- MODULE Optional -------------------------------
(* The value of what is absent, as the code's None: one for all the modules that
   are read together. *)
CONSTANT None
===============================================================================
