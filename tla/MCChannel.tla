------------------------------ MODULE MCChannel ------------------------------
(* Three workers, of which two may be on the stack at the same time. *)
EXTENDS Channel
==============================================================================
