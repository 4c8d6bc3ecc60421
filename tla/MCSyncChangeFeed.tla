-------------------------- MODULE MCSyncChangeFeed --------------------------
(* A task with one time entry, two projects, a reader of one of them. *)
EXTENDS SyncChangeFeed

CONSTANTS task, entry, s1, s2, r1

MCParentOf == [e \in Entity |-> IF e = entry THEN task ELSE NoEntity]
MCVisible == [r \in Reader |-> {s1}]
MCVisibleNew == [r \in Reader |-> {s2}]
=============================================================================
