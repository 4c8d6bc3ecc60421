--------------------------- MODULE MCActionServer ---------------------------
(* Model values for ActionServer. *)
EXTENDS ActionServer

=============================================================================
