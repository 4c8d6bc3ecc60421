---------------------------- MODULE MCActionRuns ----------------------------
(* Model values for ActionRuns. *)
EXTENDS ActionRuns
=============================================================================
