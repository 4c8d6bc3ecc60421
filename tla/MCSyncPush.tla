----------------------------- MODULE MCSyncPush -----------------------------
(* Rows whose conflicts are handled differently. *)
EXTENDS SyncPush

CONSTANTS e1, e2

MCKind == [e \in Entity |-> IF e = e1 THEN "task" ELSE "session"]
MCNodes == [e \in Entity |-> "node"]
=============================================================================
